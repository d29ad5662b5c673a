-------------------------- MODULE ActionRunProofs --------------------------
(***************************************************************************)
(* Proofs about ActionRun, for every set of heads, every set of callers    *)
(* and every number of attempts in one workspace.                          *)
(***************************************************************************)
EXTENDS ActionRun, TLAPS

-----------------------------------------------------------------------------
(* The inductive invariant *)

\* The receipt the command is about to publish is its own.
BuiltIsOwn ==
    pc \in {"open", "write", "replace", "print"} =>
        built \in Document /\ built.attempt = attempt

\* Only a finished temporary is renamed, and it is the receipt then.
Published ==
    /\ pc = "replace" => temporary = built
    /\ pc = "print" => receipt = built

\* Behind the script's first check no receipt is older than the attempt.
NoOlderReceipt ==
    /\ pc \in {"inputs", "install", "report"} => job.caller = "action"
    /\ job.caller = "action" /\ pc \in CommandSteps \cup {"install", "report"} =>
          receipt = Absent \/ receipt.attempt = attempt

\* The command's status exists once the command has ended.
StatusIsLate ==
    pc \in CommandSteps \cup {"inputs", "install"} => cli = Running

IInv ==
    /\ TypeOK
    /\ ReceiptIsWhole
    /\ BuiltIsOwn
    /\ Published
    /\ NoOlderReceipt
    /\ StatusIsLate
    /\ StatusHasReceipt
    /\ ReportIsOfThisAttempt
    /\ GreenIsEarned

-----------------------------------------------------------------------------
(* Files *)

\* A receipt is neither a missing nor a torn file, and the two differ.
LEMMA FileFacts ==
    /\ Absent \notin Document /\ Torn \notin Document
    /\ Absent # Torn
    /\ Absent \in File /\ Torn \in File
    /\ \A file \in File : file # Torn => file \in Document \cup {Absent}
BY DEF Absent, Torn, NoFile, Document, File, Verdicts

\* The statuses the script and the command end with are statuses.
LEMMA StatusFacts ==
    /\ Running \in Status /\ {0, 2, 10, 20} \subseteq Status
    /\ DeathStatuses \subseteq Status /\ InstallStatuses \subseteq Status
    /\ DeathStatuses \cap {0, 10} = {} /\ 0 \notin InstallStatuses
    /\ Running \notin {0, 2, 10, 20}
BY DEF Status, Running, DeathStatuses, InstallStatuses

-----------------------------------------------------------------------------
(* Type correctness *)

LEMMA TypeInit == Init => TypeOK
<1> SUFFICES ASSUME Init PROVE TypeOK
  OBVIOUS
<1> QED
  <2>1. head \in Heads /\ receipt = Absent /\ temporary = Absent
    BY DEF Init
  <2>2. attempt \in 0 .. MaxAttempts
    BY AttemptAssumption DEF Init
  <2>3. job \in [caller: {"none", "action", "shell"},
                 expected: Heads \cup {NoHead}, optOut: BOOLEAN]
    BY DEF Init
  <2>4. output \in [verdict: Verdicts \cup {""}, exit: Status, digest: File]
    BY FileFacts, StatusFacts DEF Init, NoOutput
  <2>5. pc = "ended" /\ built = Absent /\ cli \in Status /\ exit \in Status
    BY StatusFacts DEF Init
  <2> QED
    BY <2>1, <2>2, <2>3, <2>4, <2>5, FileFacts DEF TypeOK

LEMMA TypeStep == TypeOK /\ [Next]_vars => TypeOK'
<1> SUFFICES ASSUME TypeOK, [Next]_vars PROVE TypeOK'
  OBVIOUS
<1>0. attempt \in 0 .. MaxAttempts /\ MaxAttempts \in Nat
  BY AttemptAssumption DEF TypeOK
<1>1. ASSUME NEW h \in Heads, Push(h) PROVE TypeOK'
  BY <1>1, FileFacts, StatusFacts DEF TypeOK, CommandSteps, Push, files
<1>2. ASSUME NEW caller \in Callers, Start(caller) PROVE TypeOK'
  <2>1. attempt' \in 0 .. MaxAttempts
    <3>1. attempt' = attempt + 1 /\ attempt < MaxAttempts
      BY <1>2 DEF Start
    <3> QED
      BY <3>1, <1>0
  <2>2. job' \in [caller: {"none", "action", "shell"},
                  expected: Heads \cup {NoHead}, optOut: BOOLEAN]
    <3>1. PICK expected \in Heads \cup {NoHead}, optOut \in BOOLEAN :
             job' = [caller |-> caller, expected |-> expected,
                     optOut |-> optOut]
      BY <1>2 DEF Start
    <3>2. caller \in {"none", "action", "shell"}
      BY CallerAssumption
    <3> QED
      BY <3>1, <3>2
  <2>3. receipt' \in File /\ temporary' \in File
    BY <1>2, FileFacts DEF TypeOK, Start, files
  <2>4. output' \in [verdict: Verdicts \cup {""}, exit: Status, digest: File]
    BY <1>2, FileFacts, StatusFacts DEF Start, NoOutput
  <2>5. attempt' # 0
    BY <1>2, <1>0 DEF Start
  <2>6. /\ head' = head /\ built' = Absent
        /\ pc' \in {"inputs", "prepare"}
        /\ cli' \in Status /\ exit' \in Status
    BY <1>2, StatusFacts DEF Start
  <2> QED
    BY <2>1, <2>2, <2>3, <2>4, <2>5, <2>6 DEF TypeOK, CommandSteps
<1>3. CASE CheckInputs
  BY <1>3, FileFacts, StatusFacts DEF TypeOK, CommandSteps, CheckInputs, files
<1>4. CASE Install
  BY <1>4, FileFacts, StatusFacts DEF TypeOK, CommandSteps, Install, files
<1>5. CASE Prepare
  BY <1>5, FileFacts, StatusFacts DEF TypeOK, CommandSteps, Prepare, CommandEnds, files
<1>6. CASE Collect
  <2>1. built' \in Document \cup {Absent}
    <3>1. attempt \in 1 .. MaxAttempts /\ head \in Heads
      <4>1. attempt # 0 /\ head \in Heads
        BY <1>6 DEF TypeOK, Collect
      <4> QED
        BY <4>1, <1>0
    <3>2. ASSUME NEW verdict \in Verdicts
          PROVE  [verdict |-> verdict, head |-> head, attempt |-> attempt]
                    \in Document
      BY <3>1 DEF Document
    <3> QED
      BY <1>6, <3>2 DEF TypeOK, Collect
  <2> QED
    BY <1>6, <2>1, StatusFacts DEF TypeOK, CommandSteps, Collect, CommandEnds, files
<1>7. CASE OpenTemporary
  BY <1>7, FileFacts, StatusFacts DEF TypeOK, CommandSteps, OpenTemporary, WriteFails, CommandEnds
<1>8. CASE FinishTemporary
  BY <1>8, FileFacts, StatusFacts DEF TypeOK, CommandSteps, FinishTemporary, WriteFails, CommandEnds, File
<1>9. CASE Replace
  BY <1>9, FileFacts, StatusFacts DEF TypeOK, CommandSteps, Replace, WriteFails, CommandEnds
<1>10. CASE PrintVerdict
  <2>1. VerdictStatus(built.verdict) \in Status
    BY StatusFacts DEF VerdictStatus
  <2> QED
    BY <1>10, <2>1 DEF TypeOK, CommandSteps, PrintVerdict, CommandEnds, files
<1>11. CASE Die
  BY <1>11, FileFacts, StatusFacts DEF TypeOK, CommandSteps, Die, CommandEnds, files
<1>12. CASE Report
  <2>1. RecordedVerdict(receipt) \in Verdicts \cup {""}
    BY DEF RecordedVerdict, Document
  <2>2. exit' \in Status
    BY <1>12, StatusFacts DEF TypeOK, Report, MappedStatus
  <2> QED
    BY <1>12, <2>1, <2>2 DEF TypeOK, CommandSteps, Report, files
<1>13. CASE Kill
  BY <1>13, FileFacts, StatusFacts DEF TypeOK, CommandSteps, Kill, files
<1>14. CASE UNCHANGED vars
  BY <1>14, FileFacts, StatusFacts DEF TypeOK, CommandSteps, vars, files
<1> QED
  BY <1>1, <1>2, <1>3, <1>4, <1>5, <1>6, <1>7, <1>8, <1>9, <1>10, <1>11,
     <1>12, <1>13, <1>14 DEF Next

-----------------------------------------------------------------------------
(* The invariant is inductive *)

LEMMA InvInit == Init => IInv
<1> SUFFICES ASSUME Init PROVE IInv
  OBVIOUS
<1>1. TypeOK
  BY TypeInit
<1>2. ReceiptIsWhole
  BY FileFacts DEF Init, ReceiptIsWhole
<1>3. pc = "ended" /\ job.caller = "none" /\ cli = Running
      /\ output.verdict = ""
  BY DEF Init, NoOutput
<1> QED
  BY <1>1, <1>2, <1>3, StatusFacts
  DEF IInv, BuiltIsOwn, Published, NoOlderReceipt, StatusIsLate, CommandSteps,
      StatusHasReceipt, ReportIsOfThisAttempt, GreenIsEarned

\* Every step keeps the invariant; the type invariant is TypeStep's.
LEMMA InvStep == IInv /\ [Next]_vars => IInv'
<1> SUFFICES ASSUME IInv, [Next]_vars PROVE IInv'
  OBVIOUS
<1>0. TypeOK /\ TypeOK'
  BY TypeStep DEF IInv
<1> USE <1>0 DEF IInv, ReceiptIsWhole, BuiltIsOwn, Published, NoOlderReceipt,
                 StatusIsLate, StatusHasReceipt, ReportIsOfThisAttempt,
                 GreenIsEarned, CommandSteps
<1>1. ASSUME NEW h \in Heads, Push(h) PROVE IInv'
  <2>1. ReceiptIsWhole' /\ BuiltIsOwn' /\ Published'
    BY <1>1, StatusFacts DEF Push, files
  <2>2. NoOlderReceipt' /\ StatusIsLate'
    BY <1>1, StatusFacts DEF Push, files
  <2>3. StatusHasReceipt'
    BY <1>1, StatusFacts DEF Push, files
  <2>4. ReportIsOfThisAttempt' /\ GreenIsEarned'
    BY <1>1, StatusFacts DEF Push, files
  <2> QED
    BY <2>1, <2>2, <2>3, <2>4
<1>2. ASSUME NEW caller \in Callers, Start(caller) PROVE IInv'
  <2>1. ReceiptIsWhole' /\ BuiltIsOwn' /\ Published'
    BY <1>2, FileFacts DEF Start, files
  <2>2. NoOlderReceipt' /\ StatusIsLate'
    <3>1. pc' = IF caller = "action" THEN "inputs" ELSE "prepare"
      BY <1>2 DEF Start
    <3>2. PICK expected, optOut :
             job' = [caller |-> caller, expected |-> expected,
                     optOut |-> optOut]
      BY <1>2 DEF Start
    <3>3. job'.caller = caller /\ cli' = Running
      BY <1>2, <3>2 DEF Start
    <3> QED
      BY <3>1, <3>3
  <2>3. StatusHasReceipt'
    BY <1>2, StatusFacts DEF Start, files, NoOutput
  <2>4. ReportIsOfThisAttempt' /\ GreenIsEarned'
    BY <1>2, StatusFacts DEF Start, files, NoOutput
  <2> QED
    BY <2>1, <2>2, <2>3, <2>4
<1>3. CASE CheckInputs
  <2>1. ReceiptIsWhole' /\ BuiltIsOwn' /\ Published'
    BY <1>3, StatusFacts DEF CheckInputs, files, MayProceed
  <2>2. NoOlderReceipt' /\ StatusIsLate'
    BY <1>3, StatusFacts DEF CheckInputs, files, MayProceed
  <2>3. StatusHasReceipt'
    BY <1>3, StatusFacts DEF CheckInputs, files, MayProceed
  <2>4. ReportIsOfThisAttempt'
    BY <1>3 DEF CheckInputs
  <2>5. GreenIsEarned'
    <3>1. pc' = "install" \/ exit' = 2
      BY <1>3 DEF CheckInputs
    <3>2. pc' # "ended" \/ exit' # 0
      BY ONLY <3>1
    <3> QED
      BY <3>2
  <2> QED
    BY <2>1, <2>2, <2>3, <2>4, <2>5
<1>4. CASE Install
  <2>1. ReceiptIsWhole' /\ BuiltIsOwn' /\ Published'
    BY <1>4, StatusFacts DEF Install, files
  <2>2. NoOlderReceipt' /\ StatusIsLate'
    BY <1>4, StatusFacts DEF Install, files
  <2>3. StatusHasReceipt'
    BY <1>4, StatusFacts DEF Install, files
  <2>4. ReportIsOfThisAttempt' /\ GreenIsEarned'
    BY <1>4, StatusFacts DEF Install, files
  <2> QED
    BY <2>1, <2>2, <2>3, <2>4
<1>5. CASE Prepare
  <2>1. ReceiptIsWhole' /\ BuiltIsOwn' /\ Published'
    BY <1>5, StatusFacts DEF Prepare, files, CommandEnds
  <2>2. NoOlderReceipt' /\ StatusIsLate'
    BY <1>5, StatusFacts DEF Prepare, files, CommandEnds
  <2>3. StatusHasReceipt'
    <3>1. cli = Running
      BY <1>5 DEF Prepare
    <3>2. cli' \in {Running, 2, 20}
      BY <1>5, <3>1 DEF Prepare, CommandEnds
    <3>3. cli' \notin {0, 10}
      BY ONLY <3>2 DEF Running
    <3> QED
      BY <3>3
  <2>4. ReportIsOfThisAttempt' /\ GreenIsEarned'
    BY <1>5, StatusFacts DEF Prepare, files, CommandEnds
  <2> QED
    BY <2>1, <2>2, <2>3, <2>4
<1>6. CASE Collect
  <2>1. ReceiptIsWhole' /\ BuiltIsOwn' /\ Published'
    <3>1. CASE pc' = "open"
      <4>1. PICK verdict \in Verdicts :
               built' = [verdict |-> verdict, head |-> head,
                         attempt |-> attempt]
        BY <1>6, <3>1 DEF Collect, CommandEnds
      <4>2. built'.verdict \in Verdicts /\ built'.attempt = attempt
        BY <4>1
      <4>3. built' # Absent
        BY ONLY <4>2 DEF Absent, NoFile, Verdicts
      <4>4. built' \in Document
        BY <4>3 DEF TypeOK
      <4> QED
        BY <1>6, <3>1, <4>2, <4>4 DEF Collect, files
    <3>2. CASE pc' # "open"
      BY <1>6, <3>2 DEF Collect, files, CommandEnds
    <3> QED
      BY <3>1, <3>2
  <2>2. NoOlderReceipt' /\ StatusIsLate'
    BY <1>6, StatusFacts DEF Collect, files, CommandEnds
  <2>3. StatusHasReceipt'
    <3>1. cli = Running
      BY <1>6 DEF Collect
    <3>2. cli' \in {Running, 2, 20}
      BY <1>6, <3>1 DEF Collect, CommandEnds
    <3>3. cli' \notin {0, 10}
      BY ONLY <3>2 DEF Running
    <3> QED
      BY <3>3
  <2>4. ReportIsOfThisAttempt' /\ GreenIsEarned'
    BY <1>6, StatusFacts DEF Collect, files, CommandEnds
  <2> QED
    BY <2>1, <2>2, <2>3, <2>4
<1>7. CASE OpenTemporary
  <2>1. ReceiptIsWhole' /\ BuiltIsOwn' /\ Published'
    BY <1>7, StatusFacts DEF OpenTemporary, files, WriteFails, CommandEnds
  <2>2. NoOlderReceipt' /\ StatusIsLate'
    BY <1>7, StatusFacts DEF OpenTemporary, files, WriteFails, CommandEnds
  <2>3. StatusHasReceipt'
    <3>1. cli = Running
      BY <1>7 DEF OpenTemporary
    <3>2. cli' \in {Running, 2, 20}
      BY <1>7, <3>1 DEF OpenTemporary, WriteFails, CommandEnds
    <3>3. cli' \notin {0, 10}
      BY ONLY <3>2 DEF Running
    <3> QED
      BY <3>3
  <2>4. ReportIsOfThisAttempt' /\ GreenIsEarned'
    BY <1>7, StatusFacts DEF OpenTemporary, files, WriteFails, CommandEnds
  <2> QED
    BY <2>1, <2>2, <2>3, <2>4
<1>8. CASE FinishTemporary
  <2>1. ReceiptIsWhole' /\ BuiltIsOwn' /\ Published'
    BY <1>8, StatusFacts DEF FinishTemporary, files, WriteFails, CommandEnds
  <2>2. NoOlderReceipt' /\ StatusIsLate'
    BY <1>8, StatusFacts DEF FinishTemporary, files, WriteFails, CommandEnds
  <2>3. StatusHasReceipt'
    <3>1. cli = Running
      BY <1>8 DEF FinishTemporary
    <3>2. cli' \in {Running, 2, 20}
      BY <1>8, <3>1 DEF FinishTemporary, WriteFails, CommandEnds
    <3>3. cli' \notin {0, 10}
      BY ONLY <3>2 DEF Running
    <3> QED
      BY <3>3
  <2>4. ReportIsOfThisAttempt' /\ GreenIsEarned'
    BY <1>8, StatusFacts DEF FinishTemporary, files, WriteFails, CommandEnds
  <2> QED
    BY <2>1, <2>2, <2>3, <2>4
<1>9. CASE Replace
  <2>1. ReceiptIsWhole' /\ BuiltIsOwn' /\ Published'
    BY <1>9, FileFacts DEF Replace, files, WriteFails, CommandEnds
  <2>2. NoOlderReceipt' /\ StatusIsLate'
    BY <1>9, StatusFacts DEF Replace, files, WriteFails, CommandEnds
  <2>3. StatusHasReceipt'
    <3>1. cli = Running
      BY <1>9 DEF Replace
    <3>2. cli' \in {Running, 2, 20}
      BY <1>9, <3>1 DEF Replace, WriteFails, CommandEnds
    <3>3. cli' \notin {0, 10}
      BY ONLY <3>2 DEF Running
    <3> QED
      BY <3>3
  <2>4. ReportIsOfThisAttempt' /\ GreenIsEarned'
    BY <1>9, StatusFacts DEF Replace, files, WriteFails, CommandEnds
  <2> QED
    BY <2>1, <2>2, <2>3, <2>4
<1>10. CASE PrintVerdict
  <2>1. ReceiptIsWhole' /\ BuiltIsOwn' /\ Published'
    BY <1>10, StatusFacts DEF PrintVerdict, files, CommandEnds, VerdictStatus
  <2>2. NoOlderReceipt' /\ StatusIsLate'
    BY <1>10, StatusFacts DEF PrintVerdict, files, CommandEnds, VerdictStatus
  <2>3. StatusHasReceipt'
    <3>1. /\ receipt' = built /\ built' = built /\ built.attempt = attempt
          /\ attempt' = attempt /\ job' = job
          /\ cli' = VerdictStatus(built.verdict)
      BY <1>10 DEF PrintVerdict, files, CommandEnds
    <3>2. built.verdict \in Verdicts
      BY <1>10 DEF PrintVerdict, Document
    <3>3. CASE built.verdict = "PASS"
      BY ONLY <3>1, <3>3 DEF VerdictStatus, StatusHasReceipt
    <3>4. CASE built.verdict = "FAIL"
      BY ONLY <3>1, <3>4 DEF VerdictStatus, StatusHasReceipt
    <3>5. CASE built.verdict = "INDETERMINATE"
      <4>1. cli' = IF job.optOut THEN 0 ELSE 20
        BY ONLY <3>1, <3>5 DEF VerdictStatus
      <4> QED
        BY ONLY <3>1, <3>5, <4>1 DEF StatusHasReceipt
    <3> QED
      BY <3>2, <3>3, <3>4, <3>5 DEF Verdicts
  <2>4. ReportIsOfThisAttempt' /\ GreenIsEarned'
    BY <1>10, StatusFacts DEF PrintVerdict, files, CommandEnds, VerdictStatus
  <2> QED
    BY <2>1, <2>2, <2>3, <2>4
<1>11. CASE Die
  <2>1. ReceiptIsWhole' /\ BuiltIsOwn' /\ Published'
    BY <1>11, StatusFacts DEF Die, files, CommandEnds
  <2>2. NoOlderReceipt' /\ StatusIsLate'
    BY <1>11, StatusFacts DEF Die, files, CommandEnds
  <2>3. StatusHasReceipt'
    BY <1>11, StatusFacts DEF Die, files, CommandEnds
  <2>4. ReportIsOfThisAttempt' /\ GreenIsEarned'
    BY <1>11, StatusFacts DEF Die, files, CommandEnds
  <2> QED
    BY <2>1, <2>2, <2>3, <2>4
<1>12. CASE Report
  <2>1. ReceiptIsWhole' /\ BuiltIsOwn' /\ Published'
    BY <1>12, StatusFacts DEF Report, files, MappedStatus, RecordedVerdict, WrongHead
  <2>2. NoOlderReceipt' /\ StatusIsLate'
    BY <1>12, StatusFacts DEF Report, files, MappedStatus, RecordedVerdict, WrongHead
  <2>3. StatusHasReceipt'
    BY <1>12, StatusFacts DEF Report, files, MappedStatus, RecordedVerdict, WrongHead
  <2>4. ReportIsOfThisAttempt'
    <3>1. /\ output'.verdict = RecordedVerdict(receipt)
          /\ output'.digest = receipt /\ attempt' = attempt
      BY <1>12 DEF Report
    <3>2. ASSUME RecordedVerdict(receipt) # "" PROVE receipt.attempt = attempt
      <4>1. receipt # Absent
        BY <3>2, FileFacts DEF RecordedVerdict
      <4>2. job.caller = "action"
        BY <1>12 DEF Report
      <4> QED
        BY <1>12, <4>1, <4>2 DEF Report
    <3> QED
      BY <3>1, <3>2
  <2>5. GreenIsEarned'
    <3>1. SUFFICES ASSUME exit' = 0
                   PROVE  /\ receipt.verdict = "PASS" /\ cli = 0
                          /\ receipt.attempt = attempt
                          /\ job.expected \in {NoHead, receipt.head}
      BY <1>12 DEF Report, files
    <3>2. ~WrongHead(receipt) /\ MappedStatus(RecordedVerdict(receipt)) = 0
      <4>1. exit' = IF WrongHead(receipt)
                    THEN 20 ELSE MappedStatus(RecordedVerdict(receipt))
        BY <1>12 DEF Report
      <4> QED
        BY ONLY <3>1, <4>1
    <3>3. RecordedVerdict(receipt) = "PASS" /\ cli = 0
      BY ONLY <3>2 DEF MappedStatus
    <3>4. receipt.verdict = "PASS"
      BY <3>3 DEF RecordedVerdict
    <3> QED
      BY <1>12, <3>2, <3>3, <3>4, FileFacts DEF Report, WrongHead, RecordedVerdict
  <2> QED
    BY <2>1, <2>2, <2>3, <2>4, <2>5
<1>13. CASE Kill
  <2>1. ReceiptIsWhole' /\ BuiltIsOwn' /\ Published'
    BY <1>13, StatusFacts DEF Kill, files
  <2>2. NoOlderReceipt' /\ StatusIsLate'
    BY <1>13, StatusFacts DEF Kill, files
  <2>3. StatusHasReceipt'
    BY <1>13, StatusFacts DEF Kill, files
  <2>4. ReportIsOfThisAttempt' /\ GreenIsEarned'
    BY <1>13, StatusFacts DEF Kill, files
  <2> QED
    BY <2>1, <2>2, <2>3, <2>4
<1>14. CASE UNCHANGED vars
  <2>1. ReceiptIsWhole' /\ BuiltIsOwn' /\ Published'
    BY <1>14, StatusFacts DEF vars, files
  <2>2. NoOlderReceipt' /\ StatusIsLate'
    BY <1>14, StatusFacts DEF vars, files
  <2>3. StatusHasReceipt'
    BY <1>14, StatusFacts DEF vars, files
  <2>4. ReportIsOfThisAttempt' /\ GreenIsEarned'
    BY <1>14, StatusFacts DEF vars, files
  <2> QED
    BY <2>1, <2>2, <2>3, <2>4
<1> QED
  BY <1>0, <1>1, <1>2, <1>3, <1>4, <1>5, <1>6, <1>7, <1>8, <1>9, <1>10, <1>11, <1>12, <1>13, <1>14 DEF Next

-----------------------------------------------------------------------------
(* Theorems *)

\* Type correctness of the command's and the script's variables.
THEOREM TypeCorrect == Spec => []TypeOK
<1>1. Init => TypeOK
  BY TypeInit
<1>2. TypeOK /\ [Next]_vars => TypeOK'
  BY TypeStep
<1> QED
  BY <1>1, <1>2, PTL DEF Spec

\* The invariant the theorems below rest on.
THEOREM Inductive == Spec => []IInv
<1>1. Init => IInv
  BY InvInit
<1>2. IInv /\ [Next]_vars => IInv'
  BY InvStep
<1> QED
  BY <1>1, <1>2, PTL DEF Spec

\* The receipt path never holds a torn receipt, wherever the command dies.
THEOREM ReceiptIsWholeAlways == Spec => []ReceiptIsWhole
<1>1. IInv => ReceiptIsWhole
  BY DEF IInv
<1> QED
  BY <1>1, Inductive, PTL

\* A green action has written a PASS for the event's head in this attempt.
THEOREM GreenIsEarnedAlways == Spec => []GreenIsEarned
<1>1. IInv => GreenIsEarned
  BY DEF IInv
<1> QED
  BY <1>1, Inductive, PTL

\* The action never publishes the verdict of an earlier attempt.
THEOREM ReportIsOfThisAttemptAlways == Spec => []ReportIsOfThisAttempt
<1>1. IInv => ReportIsOfThisAttempt
  BY DEF IInv
<1> QED
  BY <1>1, Inductive, PTL

\* A command that ends with 0 or 10 leaves the receipt that says so.
THEOREM StatusHasReceiptAlways == Spec => []StatusHasReceipt
<1>1. IInv => StatusHasReceipt
  BY DEF IInv
<1> QED
  BY <1>1, Inductive, PTL
=============================================================================
