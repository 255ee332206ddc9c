--------------------------- MODULE StackOpsProofs ---------------------------
(***************************************************************************)
(* Proofs about create_or_update_stack and delete_stack, for any number of *)
(* attempts.  The inductive invariant says what a run knows of the stack   *)
(* at each place: a status that CloudFormation has finished with does not  *)
(* change by itself, so what was heard of it stays true.                   *)
(***************************************************************************)
EXTENDS StackOps, TLAPS

USE DEF env, aws, script

\* Only an operation of the script leads out of these.
Over == NeverCreated \cup Working \cup Broken \cup {"NONE"}

\* What an unmisled run has heard, and is not about to hear again, is so.
Heard ==
    /\ pc \in {"settle", "triage"} /\ seen \in NeverCreated => status = seen
    /\ pc \in {"settle", "triage"} /\ ~misled /\ seen \notin InProgress => status = seen
    /\ pc = "triage" /\ ~misled => seen \notin InProgress

\* A stack is there to be updated, or is to be made, as the run believes.
Ready ==
    /\ pc = "branch" /\ ~misled => status \in Over \ NeverCreated
    /\ pc = "update" /\ ~misled => status \in Working \cup Broken
    /\ pc = "create" /\ ~misled => status = "NONE"

\* What is waited for is the attempt of this run, and what is deleted never worked.
Attempt ==
    /\ pc \in {"creating", "reasons"} /\ doomed # "no" =>
          status \in {"CREATE_IN_PROGRESS", "ROLLBACK_IN_PROGRESS", "ROLLBACK_COMPLETE",
                      "ROLLBACK_FAILED"}
    /\ pc = "delete" => status \in NeverCreated \cup {"ROLLBACK_IN_PROGRESS"}

IInv == TypeOK /\ Heard /\ Ready /\ Attempt /\ OkMeansWorking

LEMMA InitIInv == Init => IInv
<1> SUFFICES ASSUME Init PROVE IInv
  OBVIOUS
<1>1. params = FALSE /\ misled = FALSE
  BY DEF Init
<1>2. params \in BOOLEAN /\ misled \in BOOLEAN
  BY <1>1, Zenon
<1>3. TypeOK
  BY <1>2, ConstantsAssumption DEF Init, TypeOK, Statuses, Places
<1>4. Heard /\ Ready /\ Attempt /\ OkMeansWorking
  BY DEF Init, Heard, Ready, Attempt, OkMeansWorking
<1>5. QED
  BY <1>3, <1>4 DEF IInv

-----------------------------------------------------------------------------
(* The script.                                                             *)

LEMMA SettleInv == ASSUME IInv, Settle, UNCHANGED env PROVE IInv'
<1>1. TypeOK'
  <2>1. params' \in BOOLEAN /\ misled' \in BOOLEAN
    BY Zenon DEF IInv, TypeOK, Settle, Describe, Hears
  <2>2. QED
    BY <2>1, ConstantsAssumption DEF IInv, TypeOK, Settle, Describe, Hears,
       Statuses, Places, InProgress, NeverCreated, Working, Broken
<1>2. Heard'
  BY DEF IInv, TypeOK, Heard, Settle, Describe, Hears, Statuses, Places, InProgress,
     NeverCreated, Working, Broken
<1>3. Ready'
  BY DEF IInv, TypeOK, Heard, Ready, Settle, Describe, Hears, Over, Statuses,
     Places, InProgress, NeverCreated, Working, Broken
<1>4. Attempt'
  BY DEF IInv, TypeOK, Heard, Ready, Attempt, Settle, Describe, Hears, Statuses,
     Places, InProgress, NeverCreated, Working, Broken
<1>5. OkMeansWorking'
  BY DEF IInv, TypeOK, OkMeansWorking, Settle, Describe, Hears, Working
<1>6. QED
  BY <1>1, <1>2, <1>3, <1>4, <1>5 DEF IInv

LEMMA TriageInv == ASSUME IInv, Triage, UNCHANGED env PROVE IInv'
<1>1. TypeOK'
  BY ConstantsAssumption DEF IInv, TypeOK, Triage, Statuses, Places, InProgress,
     NeverCreated, Working, Broken
<1>2. Heard'
  BY DEF IInv, TypeOK, Heard, Triage, Statuses, Places, InProgress, NeverCreated,
     Working, Broken
<1>3. Ready'
  BY DEF IInv, TypeOK, Heard, Ready, Triage, Over, Statuses, Places, InProgress,
     NeverCreated, Working, Broken
<1>4. Attempt'
  BY DEF IInv, TypeOK, Heard, Ready, Attempt, Triage, Statuses, Places, InProgress,
     NeverCreated, Working, Broken
<1>5. OkMeansWorking'
  BY DEF IInv, TypeOK, OkMeansWorking, Triage, Working
<1>6. QED
  BY <1>1, <1>2, <1>3, <1>4, <1>5 DEF IInv

LEMMA BranchInv == ASSUME IInv, Branch, UNCHANGED env PROVE IInv'
<1>1. TypeOK'
  BY ConstantsAssumption DEF IInv, TypeOK, Branch, Describe, Hears, Statuses,
     Places, InProgress, NeverCreated, Working, Broken
<1>2. Heard'
  BY DEF IInv, TypeOK, Heard, Branch, Describe, Hears, Statuses, Places, InProgress,
     NeverCreated, Working, Broken
<1>3. Ready'
  BY DEF IInv, TypeOK, Heard, Ready, Branch, Describe, Hears, Over, Statuses,
     Places, InProgress, NeverCreated, Working, Broken
<1>4. Attempt'
  BY DEF IInv, TypeOK, Heard, Ready, Attempt, Branch, Describe, Hears, Statuses,
     Places, InProgress, NeverCreated, Working, Broken
<1>5. OkMeansWorking'
  BY DEF IInv, TypeOK, OkMeansWorking, Branch, Describe, Hears, Working
<1>6. QED
  BY <1>1, <1>2, <1>3, <1>4, <1>5 DEF IInv

LEMMA UpdateInv == ASSUME IInv, Update, UNCHANGED env PROVE IInv'
<1>1. TypeOK'
  <2>1. params' \in BOOLEAN /\ misled' \in BOOLEAN
    BY Zenon DEF IInv, TypeOK, Update, Die, Ok
  <2>2. QED
    BY <2>1, ConstantsAssumption DEF IInv, TypeOK, Update, Die, Ok, Statuses,
       Places, InProgress, NeverCreated, Working, Broken
<1>2. Heard'
  BY DEF IInv, TypeOK, Heard, Update, Die, Ok, Statuses, Places, InProgress,
     NeverCreated, Working, Broken
<1>3. Ready'
  BY DEF IInv, TypeOK, Heard, Ready, Update, Die, Ok, Over, Statuses, Places,
     InProgress, NeverCreated, Working, Broken
<1>4. Attempt'
  BY DEF IInv, TypeOK, Heard, Ready, Attempt, Update, Die, Ok, Statuses, Places,
     InProgress, NeverCreated, Working, Broken
<1>5. OkMeansWorking'
  BY DEF IInv, TypeOK, OkMeansWorking, Update, Die, Ok, Working
<1>6. QED
  BY <1>1, <1>2, <1>3, <1>4, <1>5 DEF IInv

LEMMA UpdatingInv == ASSUME IInv, Updating, UNCHANGED env PROVE IInv'
<1>1. TypeOK'
  <2>1. params' \in BOOLEAN /\ misled' \in BOOLEAN
    BY Zenon DEF IInv, TypeOK, Updating, Die, Abort, Ok
  <2>2. QED
    BY <2>1, ConstantsAssumption DEF IInv, TypeOK, Updating, Die, Abort, Ok,
       Statuses, Places, InProgress, NeverCreated, Working, Broken
<1>2. Heard'
  BY DEF IInv, TypeOK, Heard, Updating, Die, Abort, Ok, Statuses, Places,
     InProgress, NeverCreated, Working, Broken
<1>3. Ready'
  BY DEF IInv, TypeOK, Heard, Ready, Updating, Die, Abort, Ok, Over, Statuses,
     Places, InProgress, NeverCreated, Working, Broken
<1>4. Attempt'
  BY DEF IInv, TypeOK, Heard, Ready, Attempt, Updating, Die, Abort, Ok, Statuses,
     Places, InProgress, NeverCreated, Working, Broken
<1>5. OkMeansWorking'
  BY DEF IInv, TypeOK, OkMeansWorking, Updating, Die, Abort, Ok, Working
<1>6. QED
  BY <1>1, <1>2, <1>3, <1>4, <1>5 DEF IInv

LEMMA CreateInv == ASSUME IInv, Create, UNCHANGED env PROVE IInv'
<1>1. TypeOK'
  BY ConstantsAssumption DEF IInv, TypeOK, Create, Abort, Statuses, Places,
     InProgress, NeverCreated, Working, Broken
<1>2. Heard'
  BY DEF IInv, TypeOK, Heard, Create, Abort, Statuses, Places, InProgress,
     NeverCreated, Working, Broken
<1>3. Ready'
  BY DEF IInv, TypeOK, Heard, Ready, Create, Abort, Over, Statuses, Places,
     InProgress, NeverCreated, Working, Broken
<1>4. Attempt'
  BY DEF IInv, TypeOK, Heard, Ready, Attempt, Create, Abort, Statuses, Places,
     InProgress, NeverCreated, Working, Broken
<1>5. OkMeansWorking'
  BY DEF IInv, TypeOK, OkMeansWorking, Create, Abort, Working
<1>6. QED
  BY <1>1, <1>2, <1>3, <1>4, <1>5 DEF IInv

LEMMA CreatingInv == ASSUME IInv, Creating, UNCHANGED env PROVE IInv'
<1>1. TypeOK'
  <2>1. params' \in BOOLEAN /\ misled' \in BOOLEAN
    BY Zenon DEF IInv, TypeOK, Creating, Ok
  <2>2. QED
    BY <2>1, ConstantsAssumption DEF IInv, TypeOK, Creating, Ok, Statuses, Places,
       InProgress, NeverCreated, Working, Broken
<1>2. Heard'
  BY DEF IInv, TypeOK, Heard, Creating, Ok, Statuses, Places, InProgress,
     NeverCreated, Working, Broken
<1>3. Ready'
  BY DEF IInv, TypeOK, Heard, Ready, Creating, Ok, Over, Statuses, Places,
     InProgress, NeverCreated, Working, Broken
<1>4. Attempt'
  BY DEF IInv, TypeOK, Heard, Ready, Attempt, Creating, Ok, Statuses, Places,
     InProgress, NeverCreated, Working, Broken
<1>5. OkMeansWorking'
  BY DEF IInv, TypeOK, OkMeansWorking, Creating, Ok, Working
<1>6. QED
  BY <1>1, <1>2, <1>3, <1>4, <1>5 DEF IInv

LEMMA ReasonsInv == ASSUME IInv, Reasons, UNCHANGED env PROVE IInv'
<1>1. TypeOK'
  <2>1. params' \in BOOLEAN /\ misled' \in BOOLEAN
    BY Zenon DEF IInv, TypeOK, Reasons, Die, Abort
  <2>2. QED
    BY <2>1, ConstantsAssumption DEF IInv, TypeOK, Reasons, Die, Abort, Statuses,
       Places, InProgress, NeverCreated, Working, Broken
<1>2. Heard'
  BY DEF IInv, TypeOK, Heard, Reasons, Die, Abort, Statuses, Places, InProgress,
     NeverCreated, Working, Broken
<1>3. Ready'
  BY DEF IInv, TypeOK, Heard, Ready, Reasons, Die, Abort, Over, Statuses, Places,
     InProgress, NeverCreated, Working, Broken
<1>4. Attempt'
  BY DEF IInv, TypeOK, Heard, Ready, Attempt, Reasons, Die, Abort, Statuses, Places,
     InProgress, NeverCreated, Working, Broken
<1>5. OkMeansWorking'
  BY DEF IInv, TypeOK, OkMeansWorking, Reasons, Die, Abort, Working
<1>6. QED
  BY <1>1, <1>2, <1>3, <1>4, <1>5 DEF IInv

LEMMA DeleteInv == ASSUME IInv, Delete, UNCHANGED env PROVE IInv'
<1>1. TypeOK'
  BY ConstantsAssumption DEF IInv, TypeOK, Delete, Describe, Hears, Statuses,
     Places, InProgress, NeverCreated, Working, Broken
<1>2. Heard'
  BY DEF IInv, TypeOK, Heard, Delete, Describe, Hears, Statuses, Places, InProgress,
     NeverCreated, Working, Broken
<1>3. Ready'
  BY DEF IInv, TypeOK, Heard, Ready, Delete, Describe, Hears, Over, Statuses,
     Places, InProgress, NeverCreated, Working, Broken
<1>4. Attempt'
  BY DEF IInv, TypeOK, Heard, Ready, Attempt, Delete, Describe, Hears, Statuses,
     Places, InProgress, NeverCreated, Working, Broken
<1>5. OkMeansWorking'
  BY DEF IInv, TypeOK, OkMeansWorking, Delete, Describe, Hears, Working
<1>6. QED
  BY <1>1, <1>2, <1>3, <1>4, <1>5 DEF IInv

LEMMA DeletingInv == ASSUME IInv, Deleting, UNCHANGED env PROVE IInv'
<1>1. TypeOK'
  BY ConstantsAssumption DEF IInv, TypeOK, Deleting, Abort, Statuses, Places,
     InProgress, NeverCreated, Working, Broken
<1>2. Heard'
  BY DEF IInv, TypeOK, Heard, Deleting, Abort, Statuses, Places, InProgress,
     NeverCreated, Working, Broken
<1>3. Ready'
  BY DEF IInv, TypeOK, Heard, Ready, Deleting, Abort, Over, Statuses, Places,
     InProgress, NeverCreated, Working, Broken
<1>4. Attempt'
  BY DEF IInv, TypeOK, Heard, Ready, Attempt, Deleting, Abort, Statuses, Places,
     InProgress, NeverCreated, Working, Broken
<1>5. OkMeansWorking'
  BY DEF IInv, TypeOK, OkMeansWorking, Deleting, Abort, Working
<1>6. QED
  BY <1>1, <1>2, <1>3, <1>4, <1>5 DEF IInv

-----------------------------------------------------------------------------
(* The operator and CloudFormation.                                        *)

LEMMA RunInv == ASSUME IInv, Run, UNCHANGED env PROVE IInv'
<1>1. TypeOK'
  BY ConstantsAssumption DEF IInv, TypeOK, Run, Describe, Statuses, Places,
     InProgress, NeverCreated, Working, Broken
<1>2. Heard'
  BY DEF IInv, TypeOK, Heard, Run, Describe, Statuses, Places, InProgress,
     NeverCreated, Working, Broken
<1>3. Ready'
  BY DEF IInv, TypeOK, Heard, Ready, Run, Describe, Over, Statuses, Places,
     InProgress, NeverCreated, Working, Broken
<1>4. Attempt'
  BY DEF IInv, TypeOK, Heard, Ready, Attempt, Run, Describe, Statuses, Places,
     InProgress, NeverCreated, Working, Broken
<1>5. OkMeansWorking'
  BY DEF IInv, TypeOK, OkMeansWorking, Run, Describe, Working
<1>6. QED
  BY <1>1, <1>2, <1>3, <1>4, <1>5 DEF IInv

LEMMA InterruptInv == ASSUME IInv, Interrupt, UNCHANGED env PROVE IInv'
<1>1. TypeOK'
  BY ConstantsAssumption DEF IInv, TypeOK, Interrupt, Abort, Statuses, Places,
     InProgress, NeverCreated, Working, Broken
<1>2. Heard'
  BY DEF IInv, TypeOK, Heard, Interrupt, Abort, Statuses, Places, InProgress,
     NeverCreated, Working, Broken
<1>3. Ready'
  BY DEF IInv, TypeOK, Heard, Ready, Interrupt, Abort, Over, Statuses, Places,
     InProgress, NeverCreated, Working, Broken
<1>4. Attempt'
  BY DEF IInv, TypeOK, Heard, Ready, Attempt, Interrupt, Abort, Statuses, Places,
     InProgress, NeverCreated, Working, Broken
<1>5. OkMeansWorking'
  BY DEF IInv, TypeOK, OkMeansWorking, Interrupt, Abort, Working
<1>6. QED
  BY <1>1, <1>2, <1>3, <1>4, <1>5 DEF IInv

LEMMA FinishInv == ASSUME IInv, Finish, UNCHANGED env PROVE IInv'
<1>1. TypeOK'
  BY ConstantsAssumption DEF IInv, TypeOK, Finish, Becomes, Statuses, Places,
     InProgress, NeverCreated, Working, Broken
<1>2. Heard'
  BY DEF IInv, TypeOK, Heard, Finish, Becomes, Statuses, Places, InProgress,
     NeverCreated, Working, Broken
<1>3. Ready'
  BY DEF IInv, TypeOK, Heard, Ready, Finish, Becomes, Over, Statuses, Places,
     InProgress, NeverCreated, Working, Broken
<1>4. Attempt'
  BY DEF IInv, TypeOK, Heard, Ready, Attempt, Finish, Becomes, Statuses, Places,
     InProgress, NeverCreated, Working, Broken
<1>5. OkMeansWorking'
  BY DEF IInv, TypeOK, OkMeansWorking, Finish, Becomes, Working
<1>6. QED
  BY <1>1, <1>2, <1>3, <1>4, <1>5 DEF IInv

-----------------------------------------------------------------------------
(* The theorems.                                                           *)

LEMMA Inductive == IInv /\ [Next]_vars => IInv'
<1> SUFFICES ASSUME IInv, [Next]_vars PROVE IInv'
  OBVIOUS
<1>1. CASE Proceed
  BY <1>1, SettleInv, TriageInv, BranchInv, UpdateInv, UpdatingInv, CreateInv, CreatingInv,
     ReasonsInv, DeleteInv, DeletingInv DEF Proceed, Step
<1>2. CASE Settles
  BY <1>2, FinishInv DEF Settles
<1>3. CASE (Run \/ Interrupt) /\ UNCHANGED env
  BY <1>3, RunInv, InterruptInv
<1>4. CASE UNCHANGED vars
  BY <1>4 DEF vars, IInv, TypeOK, Heard, Ready, Attempt, OkMeansWorking
<1>5. QED
  BY <1>1, <1>2, <1>3, <1>4 DEF Next

LEMMA Invariance == Spec => []IInv
<1>1. Init => IInv
  BY InitIInv
<1>2. IInv /\ [Next]_vars => IInv'
  BY Inductive
<1>3. QED
  BY <1>1, <1>2, PTL DEF Spec

\* The variables keep their types.
THEOREM TypeCorrect == Spec => []TypeOK
<1>1. IInv => TypeOK
  BY DEF IInv
<1>2. QED
  BY <1>1, Invariance, PTL

\* No run, misled or not, deletes a stack that works or may still come to work.
THEOREM WorkingSpared == Spec => NeverDeletesWorking
<1>1. IInv /\ [Next]_vars =>
        [Deletes => status \notin Working \cup {"CREATE_IN_PROGRESS"}]_vars
  BY DEF IInv, Attempt, Deletes, NeverCreated, Working
<1>2. QED
  BY <1>1, Invariance, PTL DEF Spec, NeverDeletesWorking

\* A run that ended well leaves a stack that works.
THEOREM OkTrue == Spec => []OkMeansWorking
<1>1. IInv => OkMeansWorking
  BY DEF IInv
<1>2. QED
  BY <1>1, Invariance, PTL

\* A run that was not misled asks to update only a stack that is there, is not in
\* the middle of an operation and did not fail to be created.
THEOREM UpdatedIsSettled == Spec => []UpdatesSettled
<1>1. IInv => UpdatesSettled
  BY DEF IInv, Ready, UpdatesSettled
<1>2. QED
  BY <1>1, Invariance, PTL

\* A run that was not misled creates a stack only where none is.
THEOREM CreatesOnNothing == Spec => []CreatesAnew
<1>1. IInv => CreatesAnew
  BY DEF IInv, Ready, CreatesAnew
<1>2. QED
  BY <1>1, Invariance, PTL

\* A run that was not misled asks for an update or a creation only when nothing is in
\* flight, and for the one that suits what is there; a broken stack, which can only
\* refuse, it does not tell from a working one.
THEOREM AskedOfSettled == Spec => []AsksOfSettledStack
<1>1. UpdatesSettled /\ CreatesAnew => AsksOfSettledStack
  BY DEF AsksOfSettledStack
<1>2. QED
  BY <1>1, UpdatedIsSettled, CreatesOnNothing, PTL
=============================================================================
