------------------------- MODULE SourceCommitProofs -------------------------
(***************************************************************************)
(* Proofs about SourceCommit, for every set of modules, contents and       *)
(* commits, any order of the comparison and any number of changes.         *)
(***************************************************************************)
EXTENDS SourceCommit, TLAPS

-----------------------------------------------------------------------------
(* Types *)

\* Where the comparison stands.
Placed ==
    /\ pc \in {"show", "read"} => next <= Len(Order)
    /\ pc = "accept" => next = Len(Order) + 1
    /\ pc \in {"show", "read", "accept", "build"} => commit \in Commits

TInv == TypeOK /\ Placed

LEMMA OrderFacts ==
    /\ Len(Order) \in Nat \ {0}
    /\ \A n \in 1 .. Len(Order) : Order[n] \in Files
<1>1. Order \in Seq(Files)  BY OrderAssumption
<1>2. PolicySchema \in Files  BY DEF Files
<1>3. PICK k \in DOMAIN Order : Order[k] = PolicySchema
  BY <1>2, OrderAssumption
<1>. QED  BY <1>1, <1>3

LEMMA TreeType == \A c \in Commits : \A f \in Files : Tree[c][f] \in Contents
BY TreeAssumption

LEMMA RunningType ==
    ASSUME TypeOK PROVE \A f \in Files : Running(f) \in Contents
BY DEF TypeOK, Running

LEMMA LoadType ==
    ASSUME TypeOK, NEW files, Load(files)
    PROVE  loaded' \in [Files -> Contents \cup {NoContent}]
BY RunningType DEF TypeOK, Load

LEMMA TypeInit == Init => TInv
<1>. SUFFICES ASSUME Init PROVE TInv  OBVIOUS
<1>1. copy \in [Files -> Contents]
  BY TreeType DEF Init
<1>2. changes \in 0 .. MaxChanges  BY BoundAssumption DEF Init
<1>3. round \in 0 .. Rounds  BY DEF Init, Rounds
<1>4. next \in 1 .. Len(Order) + 1  BY OrderFacts DEF Init
<1>. QED  BY <1>1, <1>2, <1>3, <1>4 DEF Init, TInv, TypeOK, Placed

LEMMA ChangedTypes ==
    ASSUME TInv, NEW tree \in [Files -> Contents], Changed(tree),
           head' \in Commits, moved' \in BOOLEAN
    PROVE  TInv'
<1>1. changes' \in 0 .. MaxChanges
  BY BoundAssumption DEF Changed, TInv, TypeOK
<1>2. written' \subseteq Files  BY DEF Changed, TInv, TypeOK
<1>3. Rounds' = Rounds  BY DEF Changed, Rounds
<1>. QED  BY <1>1, <1>2, <1>3 DEF Changed, TInv, TypeOK, Placed

LEMMA TypeStep == TInv /\ [Next]_vars => TInv'
<1>. SUFFICES ASSUME TInv, [Next]_vars PROVE TInv'  OBVIOUS
<1>. USE DEF TInv
<1>1. CASE Edit
  <2>1. PICK f \in Files, content \in Contents :
           /\ Changed([disk EXCEPT ![f] = content])
           /\ UNCHANGED <<head, moved>>
    BY <1>1 DEF Edit
  <2>2. [disk EXCEPT ![f] = content] \in [Files -> Contents]
    BY DEF TypeOK
  <2>. QED  BY <2>1, <2>2, ChangedTypes DEF TypeOK
<1>2. CASE Checkout
  <2>1. PICK c \in Commits \ {head} :
           Changed(Tree[c]) /\ head' = c /\ moved' = TRUE
    BY <1>2 DEF Checkout
  <2>2. Tree[c] \in [Files -> Contents]  BY TreeAssumption
  <2>. QED  BY <2>1, <2>2, ChangedTypes DEF TypeOK
<1>3. CASE Start \/ Validate
  <2>1. loaded' \in [Files -> Contents \cup {NoContent}]
    BY <1>3, LoadType DEF Start, Validate
  <2>. QED
    BY <1>3, <2>1
    DEF Start, Validate, TypeOK, Placed, checkout, history, Rounds
<1>4. CASE Resolve
  <2>1. round' \in 0 .. Rounds /\ Rounds' = Rounds
    BY <1>4 DEF Resolve, TypeOK, Rounds
  <2>2. next' = 1 /\ 1 \in 1 .. Len(Order) + 1 /\ 1 <= Len(Order)
    BY <1>4, OrderFacts DEF Resolve
  <2>. QED
    BY <1>4, <2>1, <2>2 DEF Resolve, TypeOK, Placed, checkout
<1>5. CASE Show
  <2>1. Order[next] \in Files /\ Tree[head][Order[next]] \in Contents
    BY <1>5, OrderFacts, TreeType DEF Show, TypeOK, Placed
  <2>. QED
    BY <1>5, <2>1 DEF Show, TypeOK, Placed, checkout, Rounds
<1>6. CASE Compare
  <2>1. Order[next] \in Files
    BY <1>6, OrderFacts DEF Compare, TypeOK, Placed
  <2>2. next' = next + 1 /\ next \in 1 .. Len(Order)
    BY <1>6, OrderFacts DEF Compare, Proceed, TypeOK, Placed
  <2>3. pc' \in {"reject", "accept", "show"}
    BY <1>6 DEF Compare, Proceed
  <2>4. /\ pc' = "accept" => next = Len(Order)
        /\ pc' = "show" => next # Len(Order)
    BY <1>6 DEF Compare, Proceed
  <2>5. next' \in 1 .. Len(Order) + 1 /\ Placed'
    BY <1>6, <2>2, <2>3, <2>4, OrderFacts DEF Compare, Placed
  <2>6. written' \subseteq Files /\ late' \subseteq Files
    BY <1>6, <2>1 DEF Compare, TypeOK
  <2>. QED
    BY <1>6, <2>3, <2>5, <2>6 DEF Compare, TypeOK, checkout, Rounds
<1>7. CASE Accept \/ Refuse
  BY <1>7
  DEF Accept, Refuse, TypeOK, Placed, checkout, history, Rounds
<1>8. CASE Build
  <2>1. loaded' \in [Files -> Contents \cup {NoContent}]
    BY <1>8, LoadType DEF Build
  <2>2. ReceiptSchema \in Files  BY DEF Files
  <2>. QED
    BY <1>8, <2>1, <2>2 DEF Build, TypeOK, Placed, checkout, Rounds
<1>9. CASE UNCHANGED vars
  BY <1>9 DEF vars, checkout, history, TypeOK, Placed, Rounds
<1>. QED
  BY <1>1, <1>2, <1>3, <1>4, <1>5, <1>6, <1>7, <1>8, <1>9 DEF Next

\* The variables keep their types: at most two rounds, each within the order
\* of the files.
THEOREM TypeCorrect == Spec => []TypeOK
<1>1. Spec => []TInv  BY TypeInit, TypeStep, PTL DEF Spec
<1>2. TInv => TypeOK  BY DEF TInv
<1>. QED  BY <1>1, <1>2, PTL

-----------------------------------------------------------------------------
(* What was compared and what ran *)

\* What is loaded by when.
LoadedInTime ==
    /\ pc # "start" => \A f \in Modules : loaded[f] # NoContent
    /\ pc \notin {"start", "validate"} => loaded[PolicySchema] # NoContent

\* A loaded file that was not written since is on disk as it was loaded.
Current ==
    \A f \in Files :
        loaded[f] # NoContent /\ f \notin written => loaded[f] = Running(f)

\* HEAD is where rev-parse found it, unless it moved.
Unmoved == pc \in {"show", "read"} /\ ~moved => head = commit

ShownIsOfCommit ==
    pc = "read" /\ Order[next] \notin late =>
        shown = Tree[commit][Order[next]]

\* What runs as f, or will, is what the commit holds.
Agrees(f) ==
    IF loaded[f] = NoContent
    THEN f \notin written => Running(f) = Tree[commit][f]
    ELSE loaded[f] = Tree[commit][f]

\* A file that was compared in this round agrees, but for the excepted ones.
ReadAgrees ==
    pc \in {"show", "read", "accept", "build"} =>
        \A f \in Files \ late :
            Read(f) => Agrees(f) \/ (pc = "read" /\ f = Order[next])

Chosen ==
    /\ recorded # NoCommit => pc \in {"build", "done"}
    /\ pc = "build" => recorded = commit /\ next = Len(Order) + 1

IInv ==
    /\ TInv /\ LoadedInTime /\ Current /\ Unmoved /\ ShownIsOfCommit
    /\ ReadAgrees /\ Chosen /\ RecordedCommitRan

LEMMA Initially == Init => IInv
<1>. SUFFICES ASSUME Init PROVE IInv  OBVIOUS
<1>1. LoadedInTime  BY DEF Init, LoadedInTime
<1>2. Current  BY DEF Init, Current
<1>3. Unmoved /\ ShownIsOfCommit /\ ReadAgrees /\ Chosen /\ RecordedCommitRan
  BY DEF Init, Unmoved, ShownIsOfCommit, ReadAgrees, Chosen, RecordedCommitRan
<1>. QED  BY <1>1, <1>2, <1>3, TypeInit DEF IInv

LEMMA LoadEffect ==
    ASSUME TypeOK, NEW files, Load(files)
    PROVE  \A f \in Files : loaded'[f] = IF f \in files THEN Running(f)
                                         ELSE loaded[f]
BY DEF Load, TypeOK

\* A change that is not noted leaves what is looked at as it was.
LEMMA NotWritten ==
    ASSUME TypeOK, NEW tree \in [Files -> Contents], Changed(tree),
           NEW f \in Files, f \notin written',
           loaded[f] # NoContent \/ Read(f)
    PROVE  f \notin written /\ Running(f)' = Running(f)
<1>1. f \notin written /\ ~(tree[f] # disk[f] /\ Between(f))
  BY DEF Changed
<1>2. disk' = tree /\ mode' = mode /\ copy' = copy  BY DEF Changed
<1>3. CASE f \in Modules /\ mode \in {"copy", "foreign"}
  BY <1>1, <1>2, <1>3 DEF Running
<1>4. CASE ~(f \in Modules /\ mode \in {"copy", "foreign"})
  <2>1. tree[f] = disk[f]  BY <1>1, <1>4 DEF Between
  <2>. QED  BY <1>1, <1>2, <1>4, <2>1 DEF Running
<1>. QED  BY <1>3, <1>4

LEMMA ChangedKeeps ==
    ASSUME IInv, TInv', NEW tree \in [Files -> Contents], Changed(tree),
           moved' \/ (head' = head /\ moved' = moved)
    PROVE  IInv'
<1>1. /\ pc' = pc /\ loaded' = loaded /\ commit' = commit /\ next' = next
      /\ late' = late /\ recorded' = recorded /\ shown' = shown
  BY DEF Changed
<1>2. TypeOK  BY DEF IInv, TInv
<1>3. LoadedInTime' /\ Chosen' /\ RecordedCommitRan' /\ ShownIsOfCommit'
  BY <1>1
  DEF IInv, LoadedInTime, Chosen, RecordedCommitRan, ShownIsOfCommit
<1>4. Unmoved'  BY <1>1 DEF IInv, Unmoved
<1>5. Current'
  <2>1. ASSUME NEW f \in Files, loaded[f] # NoContent, f \notin written'
        PROVE  loaded[f] = Running(f)'
    BY <1>2, <2>1, NotWritten DEF IInv, Current
  <2>. QED  BY <1>1, <2>1 DEF Current
<1>6. ASSUME NEW f \in Files, Read(f), Agrees(f) PROVE Agrees(f)'
  BY <1>1, <1>2, <1>6, NotWritten DEF Agrees
<1>7. ReadAgrees'
  <2>1. \A f : Read(f)' <=> Read(f)  BY <1>1 DEF Read
  <2>. QED  BY <1>1, <1>6, <2>1 DEF IInv, ReadAgrees
<1>. QED  BY <1>3, <1>4, <1>5, <1>7 DEF IInv

LEMMA StartKeeps == ASSUME IInv, TInv', Start \/ Validate PROVE IInv'
<1>. PICK files \in {Modules, {PolicySchema}} :
         /\ Load(files) /\ UNCHANGED <<checkout, mode, copy, history>>
         /\ UNCHANGED <<round, commit, next, shown, recorded>>
         /\ \/ pc = "start" /\ pc' = "validate" /\ files = Modules
            \/ pc = "validate" /\ pc' = "resolve" /\ files = {PolicySchema}
  BY DEF Start, Validate
<1>1. TypeOK  BY DEF IInv, TInv
<1>2. \A f \in Files : Running(f)' = Running(f)
  BY DEF Running, checkout
<1>3. Modules \subseteq Files /\ PolicySchema \in Files  BY DEF Files
<1>4. LoadedInTime'
  BY <1>1, <1>3, LoadEffect, RunningType, NoneAssumption
  DEF IInv, LoadedInTime
<1>5. Current'
  BY <1>1, <1>2, LoadEffect DEF IInv, Current, history
<1>6. recorded = NoCommit  BY DEF IInv, Chosen
<1>. QED
  BY <1>4, <1>5, <1>6
  DEF IInv, Unmoved, ShownIsOfCommit, ReadAgrees, Chosen, RecordedCommitRan

\* Steps of the command that load nothing and write nothing.
LEMMA LoadedKept ==
    ASSUME IInv, UNCHANGED <<checkout, mode, copy, loaded>>,
           pc \notin {"start", "validate"},
           \A f \in Files : loaded[f] # NoContent /\ f \in written
                               => f \in written'
    PROVE  /\ LoadedInTime' /\ Current'
           /\ \A f \in Files : Running(f)' = Running(f)
<1>1. \A f \in Files : Running(f)' = Running(f)
  BY DEF Running, checkout
<1>2. LoadedInTime'  BY DEF IInv, LoadedInTime
<1>3. Current'  BY <1>1 DEF IInv, Current
<1>. QED  BY <1>1, <1>2, <1>3

LEMMA ResolveKeeps == ASSUME IInv, TInv', Resolve PROVE IInv'
<1>1. LoadedInTime' /\ Current'
  BY LoadedKept DEF Resolve
<1>2. Unmoved' /\ ShownIsOfCommit' /\ Chosen' /\ RecordedCommitRan'
  BY DEF IInv, Resolve, Unmoved, ShownIsOfCommit, Chosen, RecordedCommitRan,
         checkout
<1>3. \A f : ~Read(f)'  BY DEF Resolve, Read
<1>4. ReadAgrees'  BY <1>3 DEF ReadAgrees
<1>. QED  BY <1>1, <1>2, <1>4 DEF IInv

LEMMA ShowKeeps == ASSUME IInv, TInv', Show PROVE IInv'
<1>. DEFINE f == Order[next]
<1>1. LoadedInTime' /\ Current'
      /\ \A g \in Files : Running(g)' = Running(g)
  BY LoadedKept DEF Show
<1>2. /\ pc = "show" /\ next' = next /\ commit' = commit /\ head' = head
      /\ recorded' = recorded /\ loaded' = loaded /\ written' = written
      /\ moved' = moved
  BY DEF Show, checkout
<1>3. CASE pc' = "reject"
  BY <1>1, <1>2, <1>3
  DEF IInv, Unmoved, ShownIsOfCommit, ReadAgrees, Chosen, RecordedCommitRan
<1>4. CASE pc' = "read"
  <2>1. /\ shown' = Tree[head][f]
        /\ late' = IF moved THEN late \cup {f} ELSE late \ {f}
    BY <1>4 DEF Show
  <2>2. f \notin late' => ~moved  BY <2>1
  <2>3. ShownIsOfCommit'
    BY <1>2, <1>4, <2>1, <2>2 DEF IInv, Unmoved, ShownIsOfCommit
  <2>4. Unmoved' /\ Chosen' /\ RecordedCommitRan'
    BY <1>2, <1>4 DEF IInv, Unmoved, Chosen, RecordedCommitRan
  <2>5. ASSUME NEW g \in Files \ late', Read(g)'
        PROVE  Agrees(g)' \/ g = f
    <3>1. Read(g)  BY <1>2, <2>5 DEF Read
    <3>2. g # f => g \notin late  BY <2>1
    <3>3. g # f => Agrees(g)  BY <1>2, <3>1, <3>2 DEF IInv, ReadAgrees
    <3>. QED  BY <1>1, <1>2, <3>3 DEF Agrees
  <2>6. ReadAgrees'  BY <1>2, <1>4, <2>5 DEF ReadAgrees
  <2>. QED  BY <1>1, <2>3, <2>4, <2>6 DEF IInv
<1>. QED  BY <1>3, <1>4 DEF Show

LEMMA CompareKeeps == ASSUME IInv, TInv', Compare PROVE IInv'
<1>. DEFINE f == Order[next]
<1>0. f \in Files /\ next \in 1 .. Len(Order)
  BY OrderFacts DEF Compare, IInv, TInv, TypeOK, Placed
<1>1. /\ pc = "read" /\ next' = next + 1
      /\ pc' \in {"reject", "accept", "show"}
      /\ pc' # "reject" => Running(f) = shown
      /\ commit' = commit /\ head' = head /\ moved' = moved
      /\ recorded' = recorded /\ loaded' = loaded
  BY DEF Compare, Proceed, Compared, checkout
<1>2. /\ late' = IF f \in written /\ loaded[f] # NoContent
                 THEN late \cup {f} ELSE late
      /\ written' = IF loaded[f] = NoContent THEN written \ {f} ELSE written
  BY DEF Compare
<1>3. LoadedInTime' /\ Current'
      /\ \A g \in Files : Running(g)' = Running(g)
  <2>1. \A g \in Files : loaded[g] # NoContent /\ g \in written
                            => g \in written'
    BY <1>2
  <2>. QED  BY <1>1, <2>1, LoadedKept DEF Compare
<1>4. Unmoved' /\ ShownIsOfCommit' /\ Chosen' /\ RecordedCommitRan'
  BY <1>1
  DEF IInv, Unmoved, ShownIsOfCommit, Chosen, RecordedCommitRan
<1>5. ReadAgrees'
  <2>. SUFFICES ASSUME pc' # "reject", NEW g \in Files \ late', Read(g)'
                PROVE  Agrees(g)'
    BY DEF ReadAgrees
  <2>1. g \notin late  BY <1>2
  <2>2. CASE g = f
    <3>1. shown = Tree[commit][f]
      BY <1>1, <2>1, <2>2 DEF IInv, ShownIsOfCommit
    <3>2. Running(f) = Tree[commit][f]  BY <1>1, <3>1
    <3>3. loaded[f] # NoContent => loaded[f] = Running(f)
      BY <1>0, <1>2, <2>2 DEF IInv, Current
    <3>. QED  BY <1>0, <1>1, <1>3, <2>2, <3>2, <3>3 DEF Agrees
  <2>3. CASE g # f
    <3>1. Read(g)  BY <1>0, <1>1, <2>3 DEF Read
    <3>2. Agrees(g)  BY <1>1, <2>1, <2>3, <3>1 DEF IInv, ReadAgrees
    <3>3. g \notin written' => g \notin written  BY <1>2, <2>3
    <3>. QED  BY <1>1, <1>3, <3>2, <3>3 DEF Agrees
  <2>. QED  BY <2>2, <2>3
<1>. QED  BY <1>3, <1>4, <1>5 DEF IInv

LEMMA AcceptKeeps == ASSUME IInv, TInv', Accept PROVE IInv'
<1>1. LoadedInTime' /\ Current'
      /\ \A g \in Files : Running(g)' = Running(g)
  BY LoadedKept DEF Accept, history
<1>2. /\ pc = "accept" /\ pc' = "build" /\ next' = next
      /\ commit' = commit /\ recorded' = commit /\ loaded' = loaded
      /\ written' = written /\ late' = late
  BY DEF Accept, history
<1>3. next = Len(Order) + 1  BY <1>2 DEF IInv, TInv, Placed
<1>4. Unmoved' /\ ShownIsOfCommit' /\ Chosen' /\ RecordedCommitRan'
  BY <1>2, <1>3
  DEF Unmoved, ShownIsOfCommit, Chosen, RecordedCommitRan
<1>5. ReadAgrees'
  BY <1>1, <1>2 DEF IInv, ReadAgrees, Read, Agrees
<1>. QED  BY <1>1, <1>4, <1>5 DEF IInv

LEMMA RefuseKeeps == ASSUME IInv, TInv', Refuse PROVE IInv'
<1>1. LoadedInTime' /\ Current'  BY LoadedKept DEF Refuse, history
<1>2. pc = "reject" /\ pc' = "done" /\ recorded' = recorded
  BY DEF Refuse
<1>3. recorded = NoCommit  BY <1>2 DEF IInv, Chosen
<1>. QED
  BY <1>1, <1>2, <1>3
  DEF IInv, Unmoved, ShownIsOfCommit, ReadAgrees, Chosen, RecordedCommitRan

\* What runs in the end agrees with the commit that is recorded.
LEMMA BuildKeeps == ASSUME IInv, TInv', Build PROVE IInv'
<1>1. /\ pc = "build" /\ pc' = "done" /\ recorded' = recorded
      /\ written' = written /\ mode' = mode /\ copy' = copy /\ disk' = disk
      /\ Load({ReceiptSchema})
      /\ late' = IF ReceiptSchema \in written
                 THEN late \cup {ReceiptSchema} ELSE late
  BY DEF Build, checkout
<1>2. TypeOK /\ recorded = commit /\ next = Len(Order) + 1
  BY <1>1 DEF IInv, TInv, Chosen
<1>3. \A f \in Files : Running(f)' = Running(f)  BY <1>1 DEF Running
<1>4. \A f \in Files : loaded'[f] = IF f = ReceiptSchema THEN Running(f)
                                    ELSE loaded[f]
  BY <1>1, <1>2, LoadEffect
<1>5. LoadedInTime'
  BY <1>1, <1>2, <1>4, RunningType, NoneAssumption
  DEF IInv, LoadedInTime, Files
<1>6. Current'  BY <1>1, <1>3, <1>4 DEF IInv, Current
<1>7. RecordedCommitRan'
  <2>. SUFFICES ASSUME NEW f \in Files \ late'
                PROVE  loaded'[f] = Tree[commit][f]
    BY <1>1, <1>2 DEF RecordedCommitRan
  <2>1. Read(f)
    <3>1. PICK k \in DOMAIN Order : Order[k] = f  BY OrderAssumption
    <3>2. k \in 1 .. Len(Order)  BY OrderAssumption
    <3>. QED  BY <1>2, <3>1, <3>2, OrderFacts DEF Read
  <2>2. Agrees(f)  BY <1>1, <2>1 DEF IInv, ReadAgrees
  <2>3. CASE f = ReceiptSchema
    <3>1. f \notin written  BY <1>1, <2>3
    <3>2. Running(f) = Tree[commit][f]
      BY <2>2, <3>1 DEF Agrees, IInv, Current
    <3>. QED  BY <1>4, <2>3, <3>2
  <2>4. CASE f # ReceiptSchema
    <3>1. loaded[f] # NoContent
      BY <1>1, <2>4 DEF IInv, LoadedInTime, Files
    <3>. QED  BY <1>4, <2>2, <2>4, <3>1 DEF Agrees
  <2>. QED  BY <2>3, <2>4
<1>8. Unmoved' /\ ShownIsOfCommit' /\ ReadAgrees' /\ Chosen'
  BY <1>1 DEF Unmoved, ShownIsOfCommit, ReadAgrees, Chosen
<1>. QED  BY <1>5, <1>6, <1>7, <1>8 DEF IInv

LEMMA Step == IInv /\ [Next]_vars => IInv'
<1>. SUFFICES ASSUME IInv, [Next]_vars PROVE IInv'  OBVIOUS
<1>0. TInv'  BY TypeStep DEF IInv
<1>1. CASE Edit
  <2>1. PICK f \in Files, content \in Contents :
           /\ Changed([disk EXCEPT ![f] = content])
           /\ UNCHANGED <<head, moved>>
    BY <1>1 DEF Edit
  <2>2. [disk EXCEPT ![f] = content] \in [Files -> Contents]
    BY DEF IInv, TInv, TypeOK
  <2>. QED  BY <1>0, <2>1, <2>2, ChangedKeeps
<1>2. CASE Checkout
  <2>1. PICK c \in Commits \ {head} :
           Changed(Tree[c]) /\ head' = c /\ moved' = TRUE
    BY <1>2 DEF Checkout
  <2>2. Tree[c] \in [Files -> Contents]  BY TreeAssumption
  <2>. QED  BY <1>0, <2>1, <2>2, ChangedKeeps
<1>3. CASE UNCHANGED vars
  BY <1>0, <1>3
  DEF vars, checkout, history, IInv, LoadedInTime, Current, Running, Unmoved,
      ShownIsOfCommit, ReadAgrees, Read, Agrees, Chosen, RecordedCommitRan
<1>. QED
  BY <1>0, <1>1, <1>2, <1>3, StartKeeps, ResolveKeeps, ShowKeeps,
     CompareKeeps, AcceptKeeps, RefuseKeeps, BuildKeeps DEF Next

\* The commit a receipt names holds every file that ran, for any set of files
\* and any number of changes, but for files rewritten between the moment they
\* were loaded and the one they were compared, or shown after HEAD had moved.
THEOREM RecordedCommitRanAlways == Spec => []RecordedCommitRan
<1>1. Spec => []IInv  BY Initially, Step, PTL DEF Spec
<1>2. IInv => RecordedCommitRan  BY DEF IInv
<1>. QED  BY <1>1, <1>2, PTL
-----------------------------------------------------------------------------
(* A refusal has a cause *)

\* Nothing failed, changed or differs, and the files are tracked.
Clean ==
    /\ ~failed /\ changes = 0 /\ mode # "foreign"
    /\ \A f \in Files : Running(f) = Tree[head][f]

RoundCounts ==
    IF pc \in {"start", "validate", "resolve"} THEN round = 0 ELSE round >= 1

ForeignRefused ==
    mode = "foreign" =>
        recorded = NoCommit /\ pc \notin {"read", "accept", "build"}

\* In a clean installation the first round ends with a commit.
CleanAccepted ==
    Clean => /\ pc # "reject" /\ round <= 1
             /\ pc = "read" => shown = Tree[head][Order[next]]
             /\ pc = "done" => recorded # NoCommit

CInv == IInv /\ RoundCounts /\ ForeignRefused /\ CleanAccepted

LEMMA CauseInit == Init => CInv
BY Initially DEF Init, CInv, RoundCounts, ForeignRefused, CleanAccepted

LEMMA ChangedUnclean ==
    ASSUME CInv, NEW tree, Changed(tree)
    PROVE  RoundCounts' /\ ForeignRefused' /\ CleanAccepted'
<1>1. changes' # 0
  BY BoundAssumption DEF Changed, CInv, IInv, TInv, TypeOK
<1>2. ~Clean'  BY <1>1 DEF Clean
<1>. QED
  BY <1>2 DEF Changed, CInv, RoundCounts, ForeignRefused, CleanAccepted

\* Steps of the command leave the checkout and the installation alone.
LEMMA CleanBefore ==
    ASSUME UNCHANGED <<checkout, mode, copy>>, failed => failed', Clean'
    PROVE  Clean
<1>1. \A f \in Files : Running(f)' = Running(f)  BY DEF Running, checkout
<1>. QED  BY <1>1 DEF Clean, checkout

LEMMA CauseStep == CInv /\ [Next]_vars => CInv'
<1>. SUFFICES ASSUME CInv, [Next]_vars PROVE CInv'  OBVIOUS
<1>. USE DEF CInv
<1>0. IInv'  BY Step
<1>1. TypeOK /\ Placed /\ Chosen  BY DEF IInv, TInv
<1>2. round \in Nat
  BY <1>1 DEF TypeOK, Rounds
<1>3. CASE Edit \/ Checkout
  BY <1>0, <1>3, ChangedUnclean DEF Edit, Checkout
<1>4. CASE Start \/ Validate
  <2>1. Clean' => Clean  BY <1>4, CleanBefore DEF Start, Validate
  <2>. QED
    BY <1>0, <1>4, <2>1
    DEF Start, Validate, RoundCounts, ForeignRefused, CleanAccepted
<1>5. CASE Resolve
  <2>1. Clean' => Clean  BY <1>5, CleanBefore DEF Resolve
  <2>2. /\ pc \in {"resolve", "reject"} /\ round' = round + 1
        /\ pc' \in {"show", "reject"}
        /\ pc' = "reject" => failed'
        /\ mode' = mode /\ recorded' = recorded
    BY <1>5 DEF Resolve
  <2>3. Clean' => pc' # "reject" /\ round' <= 1
    BY <1>2, <2>1, <2>2 DEF Clean, CleanAccepted, RoundCounts
  <2>. QED
    BY <1>0, <1>2, <2>2, <2>3
    DEF RoundCounts, ForeignRefused, CleanAccepted
<1>6. CASE Show
  <2>0. failed => failed'
    <3>1. failed' = failed \/ failed' = (failed \/ Tracked(Order[next]))
      BY <1>6 DEF Show
    <3>. QED  BY <3>1, Zenon
  <2>1. Clean' => Clean  BY <1>6, <2>0, CleanBefore DEF Show
  <2>2. /\ pc = "show" /\ round' = round /\ next' = next /\ head' = head
        /\ mode' = mode /\ recorded' = recorded
        /\ \/ /\ Tracked(Order[next])
              /\ pc' = "read" /\ shown' = Tree[head][Order[next]]
           \/ pc' = "reject" /\ failed' = (failed \/ Tracked(Order[next]))
    BY <1>6 DEF Show, checkout
  <2>3. Clean => Tracked(Order[next])
    BY <1>1, <1>2, <2>2
    DEF Clean, CleanAccepted, RoundCounts, Tracked, TypeOK, Modes
  <2>4. Clean' => pc' # "reject"
    BY <2>1, <2>2, <2>3 DEF Clean
  <2>5. mode = "foreign" => pc' = "reject"  BY <2>2 DEF Tracked
  <2>. QED
    BY <1>0, <2>1, <2>2, <2>4, <2>5
    DEF RoundCounts, ForeignRefused, CleanAccepted
<1>7. CASE Compare
  <2>1. Clean' => Clean  BY <1>7, CleanBefore DEF Compare
  <2>2. /\ pc = "read" /\ round' = round /\ mode' = mode
        /\ recorded' = recorded
        /\ pc' \in {"reject", "accept", "show"}
        /\ Running(Order[next]) = shown => pc' # "reject"
    BY <1>7 DEF Compare, Proceed, Compared
  <2>3. Order[next] \in Files
    BY <1>1, <2>2, OrderFacts DEF TypeOK, Placed
  <2>4. Clean => Running(Order[next]) = shown
    BY <2>2, <2>3 DEF Clean, CleanAccepted
  <2>. QED
    BY <1>0, <2>1, <2>2, <2>4
    DEF RoundCounts, ForeignRefused, CleanAccepted
<1>8. CASE Accept
  <2>1. Clean' => Clean  BY <1>8, CleanBefore DEF Accept
  <2>. QED
    BY <1>0, <1>8, <2>1
    DEF Accept, RoundCounts, ForeignRefused, CleanAccepted
<1>9. CASE Refuse
  <2>1. Clean' => Clean  BY <1>9, CleanBefore DEF Refuse
  <2>. QED
    BY <1>0, <1>9, <2>1
    DEF Refuse, RoundCounts, ForeignRefused, CleanAccepted
<1>10. CASE Build
  <2>1. Clean' => Clean  BY <1>10, CleanBefore DEF Build
  <2>2. recorded # NoCommit
    BY <1>1, <1>10, NoneAssumption DEF Build, Placed, Chosen
  <2>. QED
    BY <1>0, <1>10, <2>1, <2>2
    DEF Build, RoundCounts, ForeignRefused, CleanAccepted
<1>11. CASE UNCHANGED vars
  BY <1>0, <1>11
  DEF vars, checkout, RoundCounts, ForeignRefused, CleanAccepted, Clean,
      Running
<1>. QED
  BY <1>3, <1>4, <1>5, <1>6, <1>7, <1>8, <1>9, <1>10, <1>11 DEF Next

\* A foreign repository's commit is never recorded, and the command refuses
\* only if git failed, the files are not tracked, the checkout changed, or a
\* file differs from the commit.
THEOREM RefusalHasCauseAlways == Spec => []RefusalHasCause
<1>1. Spec => []CInv  BY CauseInit, CauseStep, PTL DEF Spec
<1>2. CInv => RefusalHasCause
  <2>. SUFFICES ASSUME CInv PROVE RefusalHasCause  OBVIOUS
  <2>1. changes # 0 => changes > 0
    BY BoundAssumption DEF CInv, IInv, TInv, TypeOK
  <2>. QED
    BY <2>1 DEF CInv, ForeignRefused, CleanAccepted, Clean, RefusalHasCause
<1>. QED  BY <1>1, <1>2, PTL
=============================================================================
