----------------------- MODULE RequestLifecycleProofs -----------------------
(***************************************************************************)
(* Proofs about RequestLifecycle: type correctness, whatever overlaps;     *)
(* and, when nothing commits between the load and the lock of an approval, *)
(* that a version identifies a state, that exceptions stay recoverable and *)
(* that the lifecycle implements RequestPhases.                            *)
(*                                                                         *)
(* The second half is about InboundCompletion, the operation that ends an  *)
(* inbound request: types, the signed review, reservations and repeats.    *)
(***************************************************************************)
EXTENDS RequestLifecycle, InboundCompletion,
        FiniteSetTheorems, WellFoundedInduction, TLAPS

LEMMA InitTyped == Init => TypeOK
<1> SUFFICES ASSUME Init PROVE TypeOK
  OBVIOUS
<1>1. Snapshot \in Snapshots
  BY DEF Init, Snapshot, Snapshots
<1>2. 1 \in 1..MaxVersion /\ 0 \in 0..MaxVersion
  BY VersionAssumption
<1> QED BY <1>1, <1>2 DEF Init, TypeOK

\* The fields of a row that operations write.
RowTyped == /\ status' \in Status
            /\ exception' \in Exception \union {NoException}
            /\ notes' \in SUBSET DocumentType

LEMMA CommitTyped ==
  ASSUME TypeOK, RowTyped, Commit, version < MaxVersion
  PROVE  TypeOK'
<1>1. version' \in 1..MaxVersion
  BY VersionAssumption DEF TypeOK, Commit
<1> QED BY <1>1 DEF TypeOK, RowTyped, Commit

LEMMA LoadTyped ==
  ASSUME TypeOK, NEW u \in Users, Load(u)
  PROVE  TypeOK'
<1>1. Snapshot \in Snapshots
  BY DEF TypeOK, Snapshot, Snapshots
<1>2. version \in 0..MaxVersion
  BY VersionAssumption DEF TypeOK
<1> QED BY <1>1, <1>2 DEF TypeOK, Load

LEMMA ApprovalTyped ==
  ASSUME TypeOK, NEW u \in Users,
         LoadForApproval(u) \/ ApproveRequest(u) \/ FinalizeStagedReceipt(u)
           \/ AbandonApproval(u)
  PROVE  TypeOK'
<1>1. CASE LoadForApproval(u)
  BY <1>1 DEF LoadForApproval, TypeOK, Candidate
<1>2. ASSUME NEW to \in Status, CommitApproval(u, to)
      PROVE  TypeOK'
  <2>1. version' \in 1..MaxVersion
    BY <1>2, VersionAssumption DEF CommitApproval, TypeOK
  <2> QED BY <1>2, <2>1 DEF CommitApproval, TypeOK
<1>3. CASE AbandonApproval(u)
  BY <1>3 DEF AbandonApproval, TypeOK
<1>4. "approved" \in Status /\ "completed" \in Status
  BY DEF Status, ActiveStatuses, ClosedStatuses
<1> QED BY <1>1, <1>2, <1>3, <1>4 DEF ApproveRequest, FinalizeStagedReceipt

\* Every other operation passes the version check and commits once.
Ordinary(u) ==
  \/ SubmitFollowUpDraft(u) \/ RejectRequest(u) \/ StartPreparation(u)
  \/ MarkReadyForTransport(u) \/ StartTransit(u) \/ MarkAwaitingConfirmation(u)
  \/ CompleteRequest(u) \/ CancelRequest(u) \/ HoldRequest(u) \/ ResumeRequest(u)
  \/ RescheduleRequest(u) \/ ReportFailedDelivery(u) \/ RetryTransport(u)
  \/ \E type \in DocumentType : UploadDocument(u, type)
  \/ UpdateCoordination(u) \/ AddComment(u) \/ UploadAttachment(u)
  \/ UploadDiscrepancyPhoto(u)

LEMMA OrdinaryCommits ==
  ASSUME TypeOK, NEW u \in Users, Ordinary(u) \/ CancelActiveReturn
  PROVE  RowTyped /\ Commit /\ version < MaxVersion /\ NoApprovalRunning
<1> USE DEF TypeOK, RowTyped, Accepts, Status, ActiveStatuses, ClosedStatuses
<1>1. CASE SubmitFollowUpDraft(u) \/ RejectRequest(u) \/ CompleteRequest(u)
             \/ CancelRequest(u) \/ CancelActiveReturn
  BY <1>1 DEF SubmitFollowUpDraft, RejectRequest, CompleteRequest, CancelRequest,
              CancelActiveReturn
<1>2. CASE StartPreparation(u) \/ MarkReadyForTransport(u) \/ StartTransit(u)
             \/ MarkAwaitingConfirmation(u)
  BY <1>2 DEF StartPreparation, MarkReadyForTransport, StartTransit,
              MarkAwaitingConfirmation, Advance
<1>3. CASE HoldRequest(u) \/ ResumeRequest(u) \/ RescheduleRequest(u)
             \/ ReportFailedDelivery(u) \/ RetryTransport(u)
  BY <1>3 DEF HoldRequest, ResumeRequest, RescheduleRequest, ReportFailedDelivery,
              RetryTransport, Exception
<1>4. ASSUME NEW type \in DocumentType, UploadDocument(u, type)
      PROVE  RowTyped /\ Commit /\ version < MaxVersion /\ NoApprovalRunning
  BY <1>4 DEF UploadDocument
<1>5. CASE UpdateCoordination(u) \/ AddComment(u) \/ UploadAttachment(u)
             \/ UploadDiscrepancyPhoto(u)
  BY <1>5 DEF UpdateCoordination, AddComment, UploadAttachment,
              UploadDiscrepancyPhoto
<1> QED BY <1>1, <1>2, <1>3, <1>4, <1>5 DEF Ordinary

LEMMA NextCases ==
  ASSUME [Next]_vars
  PROVE  \/ \E u \in Users : \/ Load(u) \/ LoadForApproval(u) \/ ApproveRequest(u)
                             \/ FinalizeStagedReceipt(u) \/ AbandonApproval(u)
                             \/ Ordinary(u)
         \/ CancelActiveReturn /\ Users # {}
         \/ UNCHANGED vars
<1>1. ASSUME NEW u \in Users, Operation(u)
      PROVE  \/ LoadForApproval(u) \/ ApproveRequest(u) \/ FinalizeStagedReceipt(u)
             \/ AbandonApproval(u) \/ Ordinary(u)
  BY <1>1 DEF Operation, Ordinary
<1>2. CancelActiveReturn => Users # {}
  BY RolesAssumption DEF CancelActiveReturn
<1> QED BY <1>1, <1>2 DEF Next

LEMMA StepTyped == TypeOK /\ [Next]_vars => TypeOK'
<1> SUFFICES ASSUME TypeOK, [Next]_vars PROVE TypeOK'
  OBVIOUS
<1>1. ASSUME NEW u \in Users, Ordinary(u) \/ CancelActiveReturn
      PROVE  TypeOK'
  BY <1>1, OrdinaryCommits, CommitTyped
<1>2. CASE UNCHANGED vars
  BY <1>2 DEF vars, TypeOK
<1> QED BY <1>1, <1>2, NextCases, LoadTyped, ApprovalTyped

\* Type correctness, overlapping approvals included.
THEOREM TypeCorrect == Spec => []TypeOK
BY InitTyped, StepTyped, PTL DEF Spec

-----------------------------------------------------------------------------
(* From here on nothing commits between the load and the lock of an        *)
(* approval.  The row's own invariant, and what a step does to the status: *)

\* A draft was never held, so what submits it starts without an exception.
DraftUnheld == status = "draft" => NoOpenException

RowInv == ExceptionIsRecoverable /\ TransportIsDocumented /\ DraftUnheld

FailureStep == exception.kind = "failed_delivery" =>
                 status' \in {status, "ready_for_transport", "cancelled"}

PhaseStep == [Phases!Next]_(PhaseOf(status))

LEMMA InitRow == Init => RowInv /\ Phases!Init
<1> SUFFICES ASSUME Init PROVE RowInv /\ Phases!Init
  OBVIOUS
<1>1. exception = NoException /\ status \in {"draft", "submitted", "completed"}
  BY DEF Init, Created
<1>2. status = "completed" => IsSelfReceipt
  BY DEF Init, Created, IsSelfReceipt
<1>3. RowInv
  BY <1>1, <1>2 DEF RowInv, ExceptionIsRecoverable, TransportIsDocumented,
                    DraftUnheld, NoOpenException, NoException
<1>4. Phases!Init
  BY <1>1 DEF Phases!Init, PhaseOf
<1> QED BY <1>3, <1>4

\* The shapes a step's effect on the row can have.
Stays ==
  /\ status' = status /\ header' = header /\ notes \subseteq notes'
  /\ \/ exception' \in {exception, NoException}
     \/ exception' = [kind |-> "hold", resume |-> status] /\ status # "draft"
     \/ exception'.kind = "failed_delivery" /\ status = "in_transit"

LEMMA StatusKept ==
  ASSUME RowInv, Stays
  PROVE  RowInv' /\ FailureStep /\ PhaseStep
<1>1. RowInv'
  BY DEF Stays, RowInv, ExceptionIsRecoverable, TransportIsDocumented, DraftUnheld,
         NoOpenException, NoException, RequiredNote, IsSelfReceipt, ActiveStatuses
<1>2. PhaseOf(status)' = PhaseOf(status)
  BY DEF PhaseOf, Stays
<1> QED BY <1>1, <1>2 DEF Stays, FailureStep, PhaseStep

Moves(from, to) == /\ status = from /\ status' = to
                   /\ UNCHANGED <<header, exception, notes>>

LEMMA SubmittedLeft ==
  ASSUME RowInv, NEW to \in {"approved", "rejected", "cancelled", "completed"},
         Moves("submitted", to), to = "completed" => IsSelfReceipt
  PROVE  RowInv' /\ FailureStep /\ PhaseStep
<1>1. RowInv'
  BY DEF RowInv, ExceptionIsRecoverable, TransportIsDocumented, DraftUnheld,
         RequiredNote, IsSelfReceipt, ActiveStatuses, Moves
<1>2. FailureStep
  BY DEF RowInv, ExceptionIsRecoverable, ActiveStatuses, FailureStep, Moves
<1>3. PhaseStep
  BY DEF Moves, PhaseStep, PhaseOf, Phases!Next, Phases!Withdraw, Phases!Finalize,
         Phases!Goes
<1> QED BY <1>1, <1>2, <1>3

LEMMA UnheldMove ==
  ASSUME RowInv, NoOpenException, NEW from, NEW to, Moves(from, to),
         \/ from = "draft" /\ to = "submitted"
         \/ from = "approved" /\ to = "preparing"
         \/ from = "preparing" /\ to = "ready_for_transport"
         \/ from = "ready_for_transport" /\ to = "in_transit" /\ RequiredNote \in notes
         \/ from = "in_transit" /\ to = "awaiting_confirmation"
         \/ from = "awaiting_confirmation" /\ to = "completed"
         \/ from \in {"approved", "preparing", "ready_for_transport"} /\ to = "cancelled"
  PROVE  RowInv' /\ FailureStep /\ PhaseStep
<1>1. RowInv'
  BY DEF RowInv, ExceptionIsRecoverable, TransportIsDocumented, DraftUnheld,
         RequiredNote, IsSelfReceipt, ActiveStatuses, Moves, NoOpenException, NoException
<1>2. FailureStep
  BY DEF FailureStep, NoOpenException, NoException
<1>3. PhaseStep
  BY DEF Moves, PhaseStep, PhaseOf, Phases!Next, Phases!Goes, Phases!Submit,
         Phases!Dispatch, Phases!Arrive, Phases!Complete, Phases!Withdraw
<1> QED BY <1>1, <1>2, <1>3

LEMMA Overridden ==
  ASSUME RowInv, CancelActiveReturn
  PROVE  RowInv' /\ FailureStep /\ PhaseStep
<1>1. RowInv' /\ FailureStep
  BY DEF RowInv, ExceptionIsRecoverable, TransportIsDocumented, DraftUnheld,
         RequiredNote, IsSelfReceipt, ActiveStatuses, CancelActiveReturn, Commit,
         FailureStep
<1>2. PhaseStep
  BY DEF CancelActiveReturn, ActiveStatuses, PhaseStep, PhaseOf, Phases!Next,
         Phases!Override, Phases!ActivePhases
<1> QED BY <1>1, <1>2

LEMMA Retried ==
  ASSUME RowInv, NEW u \in Users, RetryTransport(u)
  PROVE  RowInv' /\ FailureStep /\ PhaseStep
<1>1. RowInv' /\ FailureStep
  BY DEF RowInv, ExceptionIsRecoverable, TransportIsDocumented, DraftUnheld,
         RequiredNote, IsSelfReceipt, ActiveStatuses, RetryTransport, Commit,
         FailureStep, NoException
<1>2. PhaseStep
  BY DEF RetryTransport, PhaseStep, PhaseOf, Phases!Next, Phases!Retry, Phases!Goes
<1> QED BY <1>1, <1>2

LEMMA OrdinaryKeeps ==
  ASSUME RowInv, NEW u \in Users, Ordinary(u)
  PROVE  RowInv' /\ FailureStep /\ PhaseStep
<1>1. CASE SubmitFollowUpDraft(u)
  <2>1. NoOpenException /\ Moves("draft", "submitted")
    BY <1>1 DEF SubmitFollowUpDraft, Moves, Commit, RowInv, DraftUnheld
  <2> QED BY <2>1, UnheldMove
<1>2. CASE RejectRequest(u)
  <2>1. Moves("submitted", "rejected")
    BY <1>2 DEF RejectRequest, Moves, Commit
  <2> QED BY <2>1, SubmittedLeft
<1>3. CASE StartPreparation(u) \/ MarkReadyForTransport(u) \/ StartTransit(u)
             \/ MarkAwaitingConfirmation(u) \/ CompleteRequest(u)
  <2>1. /\ NoOpenException
        /\ \/ Moves("approved", "preparing")
           \/ Moves("preparing", "ready_for_transport")
           \/ Moves("ready_for_transport", "in_transit") /\ RequiredNote \in notes
           \/ Moves("in_transit", "awaiting_confirmation")
           \/ Moves("awaiting_confirmation", "completed")
    BY <1>3 DEF StartPreparation, MarkReadyForTransport, StartTransit,
                MarkAwaitingConfirmation, CompleteRequest, Advance, Commit, Moves
  <2> QED BY <2>1, UnheldMove
<1>4. CASE CancelRequest(u)
  <2>1. /\ NoOpenException
        /\ \/ Moves("submitted", "cancelled") \/ Moves("approved", "cancelled")
           \/ Moves("preparing", "cancelled") \/ Moves("ready_for_transport", "cancelled")
    BY <1>4 DEF CancelRequest, Commit, Moves
  <2> QED BY <2>1, UnheldMove, SubmittedLeft
<1>5. CASE HoldRequest(u) \/ ResumeRequest(u) \/ RescheduleRequest(u)
             \/ ReportFailedDelivery(u)
  <2>1. CASE HoldRequest(u)
    BY <2>1, StatusKept DEF Stays, HoldRequest, Commit, ActiveStatuses
  <2>2. CASE ResumeRequest(u) \/ RescheduleRequest(u)
    BY <2>2, StatusKept DEF Stays, ResumeRequest, RescheduleRequest, Commit
  <2>3. CASE ReportFailedDelivery(u)
    BY <2>3, StatusKept DEF Stays, ReportFailedDelivery, Commit
  <2> QED BY <1>5, <2>1, <2>2, <2>3
<1>6. ASSUME NEW type \in DocumentType, UploadDocument(u, type)
      PROVE  RowInv' /\ FailureStep /\ PhaseStep
  BY <1>6, StatusKept DEF Stays, UploadDocument, Commit
<1>7. CASE UpdateCoordination(u) \/ AddComment(u) \/ UploadAttachment(u)
             \/ UploadDiscrepancyPhoto(u)
  BY <1>7, StatusKept
      DEF Stays, UpdateCoordination, AddComment, UploadAttachment,
          UploadDiscrepancyPhoto, Commit
<1> QED BY <1>1, <1>2, <1>3, <1>4, <1>5, <1>6, <1>7, Retried DEF Ordinary

-----------------------------------------------------------------------------
(* The version's invariant: the approval that is running, if any, loaded   *)
(* the row as it is, and nobody has seen a version the row has not had.    *)

CandidateIsCurrent ==
  \A u \in Users : candidate[u] # NoCandidate =>
    candidate[u] = [status |-> status, version |-> version]

OneApproval ==
  \A u, v \in Users :
    candidate[u] # NoCandidate /\ candidate[v] # NoCandidate => u = v

SeenBehind == \A u \in Users : seen[u] <= version

VersionInv == CandidateIsCurrent /\ OneApproval /\ SeenBehind /\ VersionIdentifiesState

SerialInv == TypeOK /\ VersionInv /\ RowInv

LEMMA InitVersion == Init => VersionInv
<1> SUFFICES ASSUME Init PROVE VersionInv
  OBVIOUS
<1>1. CandidateIsCurrent /\ OneApproval
  BY DEF Init, CandidateIsCurrent, OneApproval
<1>2. SeenBehind /\ VersionIdentifiesState
  BY DEF Init, SeenBehind, VersionIdentifiesState
<1> QED BY <1>1, <1>2 DEF VersionInv

\* A commit leaves everyone's copy behind, and no approval is running.
LEMMA CommitKeepsVersion ==
  ASSUME ~OverlappingApprovals, TypeOK, VersionInv, NoApprovalRunning, Commit
  PROVE  VersionInv'
<1>1. \A u \in Users : candidate'[u] = NoCandidate
  BY DEF NoApprovalRunning, Commit
<1>2. \A u \in Users : seen'[u] < version' /\ seen'[u] <= version'
  BY VersionAssumption DEF Commit, VersionInv, SeenBehind, TypeOK
<1>3. \A u \in Users : seen'[u] # version'
  BY <1>2, VersionAssumption DEF Commit, TypeOK
<1> QED BY <1>1, <1>2, <1>3 DEF VersionInv, CandidateIsCurrent, OneApproval,
                                SeenBehind, VersionIdentifiesState

LEMMA LoadKeepsVersion ==
  ASSUME TypeOK, VersionInv, NEW u \in Users, Load(u)
  PROVE  VersionInv'
<1>1. CandidateIsCurrent' /\ OneApproval'
  BY DEF Load, VersionInv, CandidateIsCurrent, OneApproval
<1>2. SeenBehind'
  BY VersionAssumption DEF Load, VersionInv, SeenBehind, TypeOK
<1>3. VersionIdentifiesState'
  BY DEF Load, VersionInv, VersionIdentifiesState, TypeOK, Snapshot
<1> QED BY <1>1, <1>2, <1>3 DEF VersionInv

LEMMA LoadForApprovalKeepsVersion ==
  ASSUME ~OverlappingApprovals, TypeOK, VersionInv, NEW u \in Users, LoadForApproval(u)
  PROVE  VersionInv'
<1>1. \A v \in Users : candidate[v] = NoCandidate
  BY DEF LoadForApproval, NoApprovalRunning
<1>2. CandidateIsCurrent' /\ OneApproval'
  BY <1>1 DEF LoadForApproval, CandidateIsCurrent, OneApproval, TypeOK
<1>3. SeenBehind' /\ VersionIdentifiesState'
  BY DEF LoadForApproval, VersionInv, SeenBehind, VersionIdentifiesState, Snapshot
<1> QED BY <1>2, <1>3 DEF VersionInv

LEMMA AbandonKeepsVersion ==
  ASSUME TypeOK, VersionInv, NEW u \in Users, AbandonApproval(u)
  PROVE  VersionInv'
<1>1. \A v \in Users : candidate'[v] # NoCandidate => candidate'[v] = candidate[v]
  BY DEF AbandonApproval, TypeOK
<1>2. CandidateIsCurrent' /\ OneApproval'
  BY <1>1 DEF AbandonApproval, VersionInv, CandidateIsCurrent, OneApproval
<1>3. SeenBehind' /\ VersionIdentifiesState'
  BY DEF AbandonApproval, VersionInv, SeenBehind, VersionIdentifiesState, Snapshot
<1> QED BY <1>2, <1>3 DEF VersionInv

\* An approval commits on the row it loaded, so it is a commit like the others.
LEMMA ApprovalCommits ==
  ASSUME TypeOK, VersionInv, NEW u \in Users, NEW to, CommitApproval(u, to)
  PROVE  Moves("submitted", to) /\ VersionInv'
<1>1. candidate[u] # NoCandidate
  BY DEF CommitApproval, NoCandidate
<1>2. status = "submitted" /\ version = seen[u]
  <2>1. candidate[u] = [status |-> status, version |-> version]
    BY <1>1 DEF VersionInv, CandidateIsCurrent
  <2>2. candidate[u].status = status /\ candidate[u].version = version
    BY <2>1
  <2> QED BY <2>2 DEF CommitApproval
<1>3. Moves("submitted", to)
  BY <1>2 DEF CommitApproval, Moves
<1>4. \A v \in Users : candidate'[v] = NoCandidate
  BY <1>1 DEF CommitApproval, VersionInv, OneApproval, TypeOK
<1>5. version' = version + 1 /\ seen' = seen
  BY <1>2 DEF CommitApproval
<1>6. \A v \in Users : seen'[v] <= version' /\ seen'[v] # version'
  BY <1>5, VersionAssumption DEF VersionInv, SeenBehind, TypeOK
<1>7. VersionInv'
  BY <1>4, <1>6 DEF VersionInv, CandidateIsCurrent, OneApproval, SeenBehind,
                    VersionIdentifiesState
<1> QED BY <1>3, <1>7

LEMMA SerialStep ==
  ASSUME ~OverlappingApprovals, SerialInv, [Next]_vars
  PROVE  SerialInv' /\ FailureStep /\ PhaseStep
<1>1. TypeOK'
  BY StepTyped DEF SerialInv
<1>2. ASSUME NEW u \in Users, Ordinary(u)
      PROVE  VersionInv' /\ RowInv' /\ FailureStep /\ PhaseStep
  BY <1>2, OrdinaryCommits, OrdinaryKeeps, CommitKeepsVersion DEF SerialInv
<1>3. CASE CancelActiveReturn /\ Users # {}
  <2>1. PICK u \in Users : TRUE
    BY <1>3
  <2> QED BY <1>1, <1>3, <2>1, OrdinaryCommits, Overridden, CommitKeepsVersion DEF SerialInv
<1>4. ASSUME NEW u \in Users, ApproveRequest(u)
      PROVE  VersionInv' /\ RowInv' /\ FailureStep /\ PhaseStep
  BY <1>4, ApprovalCommits, SubmittedLeft DEF ApproveRequest, SerialInv
<1>5. ASSUME NEW u \in Users, FinalizeStagedReceipt(u)
      PROVE  VersionInv' /\ RowInv' /\ FailureStep /\ PhaseStep
  BY <1>5, ApprovalCommits, SubmittedLeft DEF FinalizeStagedReceipt, SerialInv
<1>6. ASSUME NEW u \in Users, Load(u) \/ LoadForApproval(u) \/ AbandonApproval(u)
      PROVE  VersionInv' /\ RowInv' /\ FailureStep /\ PhaseStep
  <2>1. Stays
    BY <1>6 DEF Stays, Load, LoadForApproval, AbandonApproval
  <2> QED BY <1>6, <2>1, StatusKept, LoadKeepsVersion, LoadForApprovalKeepsVersion,
             AbandonKeepsVersion DEF SerialInv
<1>7. CASE UNCHANGED vars
  <2>1. Stays
    BY <1>7 DEF Stays, vars
  <2>2. VersionInv'
    BY <1>7 DEF SerialInv, VersionInv, CandidateIsCurrent, OneApproval, SeenBehind,
                VersionIdentifiesState, Snapshot, vars
  <2> QED BY <1>1, <2>1, <2>2, StatusKept DEF SerialInv
<1> QED BY <1>1, <1>2, <1>3, <1>4, <1>5, <1>6, <1>7, NextCases DEF SerialInv

LEMMA SerialInvariant ==
  ASSUME ~OverlappingApprovals
  PROVE  Spec => []SerialInv
<1>1. Init => SerialInv
  BY InitTyped, InitVersion, InitRow DEF SerialInv
<1>2. SerialInv /\ [Next]_vars => SerialInv'
  BY SerialStep
<1> QED BY <1>1, <1>2, PTL DEF Spec

\* A version identifies a state: who quotes the current version has seen the
\* current status, exception and documents.
THEOREM VersionsIdentifyStates ==
  ASSUME ~OverlappingApprovals
  PROVE  Spec => []VersionIdentifiesState
<1>1. SerialInv => VersionIdentifiesState
  BY DEF SerialInv, VersionInv
<1> QED BY <1>1, SerialInvariant, PTL

\* An exception can always be resolved, whatever sequence of holds, failures,
\* retries and approvals came before (a hold of a submitted request apart).
THEOREM ExceptionsRecoverable ==
  ASSUME ~OverlappingApprovals
  PROVE  Spec => []ExceptionIsRecoverable
<1>1. SerialInv => ExceptionIsRecoverable
  BY DEF SerialInv, RowInv
<1> QED BY <1>1, SerialInvariant, PTL

\* A request in transport, or completed through one, carries its document.
THEOREM TransportsDocumented ==
  ASSUME ~OverlappingApprovals
  PROVE  Spec => []TransportIsDocumented
<1>1. SerialInv => TransportIsDocumented
  BY DEF SerialInv, RowInv
<1> QED BY <1>1, SerialInvariant, PTL

\* A failed transport is retried or overridden, never marked arrived.
THEOREM FailuresNeedRetry ==
  ASSUME ~OverlappingApprovals
  PROVE  Spec => FailureNeedsRetry
<1>1. SerialInv /\ [Next]_vars => [FailureStep]_vars
  BY SerialStep
<1> QED BY <1>1, SerialInvariant, PTL DEF Spec, FailureNeedsRetry, FailureStep

\* The lifecycle implements RequestPhases: every status step is a phase step or
\* leaves the phase alone.
THEOREM LifecycleImplementsPhases ==
  ASSUME ~OverlappingApprovals
  PROVE  Spec => PhaseRefinement
<1>1. Init => Phases!Init
  BY InitRow
<1>2. SerialInv /\ [Next]_vars
        => [Phases!Next]_(PhaseOf(status))
  BY SerialStep DEF PhaseStep
<1> QED BY <1>1, <1>2, SerialInvariant, PTL DEF Spec, PhaseRefinement, Phases!Spec

(***************************************************************************)
(*                       THE COMPLETION OF AN INBOUND REQUEST              *)
(*                                                                         *)
(* A completion works through the rows of its list with a fold over their  *)
(* set.  That the fold is defined, and what it has done after a set T of   *)
(* rows (WellPlaced), are shown by induction over the size of T.           *)
(***************************************************************************)

\* Induction over the numbers, for a set of them.
LEMMA AllNumbers ==
  ASSUME NEW S, 0 \in S, \A n \in Nat : n \in S => n + 1 \in S
  PROVE  Nat \subseteq S
<1> DEFINE T == Nat \ S
<1> SUFFICES ASSUME T # {} PROVE FALSE
  OBVIOUS
<1>1. PICK x \in T : \A y \in T : <<y, x>> \notin OpToRel(<, Nat)
  BY NatLessThanWellFounded, WFMin, T \subseteq Nat
<1>2. x - 1 \in Nat /\ x - 1 < x /\ (x - 1) + 1 = x
  <2>1. x \in Nat /\ x # 0
    OBVIOUS
  <2> QED BY <2>1
<1>3. x - 1 \in S
  BY <1>1, <1>2 DEF OpToRel
<1> QED BY <1>1, <1>2, <1>3

LEMMA MaxOf ==
  ASSUME NEW U \in SUBSET Nat, IsFiniteSet(U), U # {}
  PROVE  Max(U) \in U /\ \A y \in U : y <= Max(U)
<1> DEFINE Bounded(V) == \E x \in V : \A y \in V : x >= y
           S == {n \in Nat : \A V \in SUBSET U :
                   V # {} /\ Cardinality(V) <= n => Bounded(V)}
<1>0. \A V \in SUBSET U : IsFiniteSet(V) /\ Cardinality(V) \in Nat
  BY FS_Subset, FS_CardinalityType
<1>1. 0 \in S
  BY <1>0, FS_EmptySet
<1>2. ASSUME NEW n \in Nat, n \in S
      PROVE  n + 1 \in S
  <2> SUFFICES ASSUME NEW V \in SUBSET U, V # {}, Cardinality(V) <= n + 1
               PROVE  Bounded(V)
    OBVIOUS
  <2>1. PICK v : v \in V
    OBVIOUS
  <2>2. IsFiniteSet(V) /\ Cardinality(V \ {v}) = Cardinality(V) - 1
    BY <1>0, <2>1, FS_RemoveElement
  <2>3. V \ {v} # {} => Bounded(V \ {v})
    BY <1>0, <1>2, <2>2
  <2>4. CASE V \ {v} = {}
    BY <2>1, <2>4
  <2>5. CASE V \ {v} # {}
    <3>1. PICK x \in V \ {v} : \A y \in V \ {v} : x >= y
      BY <2>3, <2>5
    <3>2. CASE x >= v
      BY <3>1, <3>2
    <3>3. CASE ~(x >= v)
      BY <2>1, <3>1, <3>3
    <3> QED BY <3>2, <3>3
  <2> QED BY <2>4, <2>5
<1>3. Nat \subseteq S
  <2> HIDE DEF S
  <2> QED BY <1>1, <1>2, AllNumbers
<1>4. Bounded(U)
  BY <1>0, <1>3
<1> QED BY <1>4 DEF Max

LEMMA LastRow ==
  ASSUME NEW U, IsFiniteSet(U), NEW s \in SUBSET U, s # {}, U \subseteq Nat
  PROVE  /\ Max(s) \in s
         /\ Cardinality(s \ {Max(s)}) = Cardinality(s) - 1
         /\ Cardinality(s) \in Nat
BY MaxOf, FS_Subset, FS_CardinalityType, FS_RemoveElement

\* The function that a completion is the last value of.
RowByRow(g) ==
  g = [s \in SUBSET Rows(txn.lines) |->
         IF s = {} THEN Unplaced
         ELSE PlaceRow(g[s \ {Max(s)}], Max(s))]

LEMMA PlacedIsFold ==
  Placed = (CHOOSE g : RowByRow(g))[Rows(txn.lines)]
BY DEF Placed, MapThenFoldSet, RowByRow

LEMMA FoldExists ==
  ASSUME IsFiniteSet(Rows(txn.lines)), Rows(txn.lines) \subseteq Nat
  PROVE  \E g : RowByRow(g)
<1> DEFINE U == Rows(txn.lines)
           Next1(g, s) == IF s = {} THEN Unplaced
                          ELSE PlaceRow(g[s \ {Max(s)}], Max(s))
           Upto(g, n) == \A s \in SUBSET U : Cardinality(s) <= n => g[s] = Next1(g, s)
           S == {n \in Nat : \E g : Upto(g, n)}
<1>0. \A s \in SUBSET U : IsFiniteSet(s) /\ Cardinality(s) \in Nat
  BY FS_Subset, FS_CardinalityType
<1>1. 0 \in S
  <2> DEFINE g == [s \in SUBSET U |-> Unplaced]
  <2>1. \A s \in SUBSET U : Cardinality(s) <= 0 => s = {}
    BY <1>0, FS_EmptySet
  <2>2. Upto(g, 0)
    <3> SUFFICES ASSUME NEW s \in SUBSET U, Cardinality(s) <= 0
                 PROVE  g[s] = Next1(g, s)
      OBVIOUS
    <3> QED BY <2>1
  <2> HIDE DEF g, Upto
  <2> QED BY <2>2
<1>2. ASSUME NEW n \in Nat, n \in S
      PROVE  n + 1 \in S
  <2>1. PICK g : Upto(g, n)
    BY <1>2
  <2> DEFINE h == [s \in SUBSET U |-> Next1(g, s)]
  <2>2. ASSUME NEW s \in SUBSET U, Cardinality(s) <= n + 1
        PROVE  h[s] = Next1(h, s)
    <3>1. h[s] = Next1(g, s)
      OBVIOUS
    <3>2. CASE s = {}
      BY <3>1, <3>2
    <3>3. CASE s # {}
      <4> DEFINE r == s \ {Max(s)}
      <4>1. r \in SUBSET U /\ Cardinality(r) <= n
        BY <1>0, <2>2, <3>3, LastRow
      <4>2. g[r] = Next1(g, r) /\ h[r] = Next1(g, r)
        BY <2>1, <4>1
      <4>3. g[r] = h[r]
        BY <4>2
      <4> QED BY <3>1, <3>3, <4>3
    <3> QED BY <3>2, <3>3
  <2>3. Upto(h, n + 1)
    BY <2>2
  <2> HIDE DEF h, Upto
  <2> QED BY <2>3
<1>3. Nat \subseteq S
  <2> HIDE DEF S
  <2> QED BY <1>1, <1>2, AllNumbers
<1>4. PICK g : Upto(g, Cardinality(U))
  BY <1>0, <1>3
<1> DEFINE h == [s \in SUBSET U |-> g[s]]
<1>5. ASSUME NEW s \in SUBSET U
      PROVE  g[s] = Next1(h, s)
  <2>1. Cardinality(s) <= Cardinality(U)
    BY FS_Subset
  <2>2. g[s] = Next1(g, s)
    BY <1>4, <2>1
  <2>3. CASE s = {}
    BY <2>2, <2>3
  <2>4. CASE s # {}
    <3>1. h[s \ {Max(s)}] = g[s \ {Max(s)}]
      OBVIOUS
    <3> QED BY <2>2, <2>4, <3>1
  <2> QED BY <2>3, <2>4
<1>6. h = [s \in SUBSET U |-> Next1(h, s)]
  BY <1>5
<1>7. RowByRow(h)
  BY <1>6 DEF RowByRow
<1> HIDE DEF h
<1> QED BY <1>7

-----------------------------------------------------------------------------
(* A completion that runs has copied what it needs; review and call are of *)
(* a list that is tried.                                                   *)
CopiesInv ==
  txn # None =>
    /\ request.status = "awaiting"
    /\ txn.lines \in Deliveries
    /\ txn.key \in IdempotencyKeys
    /\ DOMAIN txn.box = Rows(txn.lines) \cap DOMAIN box
    /\ IsTable(txn.box, Boxes, BoxRow)
    /\ DOMAIN txn.pallet = DOMAIN pallet
    /\ IsTable(txn.pallet, Pallets, BOOLEAN)
ReviewInv == review # None => review.lines \in Deliveries
CompletionInv == CompletionTypeOK /\ CopiesInv /\ ReviewInv

LEMMA LinesTyped ==
  ASSUME NEW lines \in Deliveries
  PROVE  /\ lines \subseteq Line
         /\ IsFiniteSet(Rows(lines)) /\ Rows(lines) \subseteq Boxes
         /\ Rows(lines) \subseteq Nat
         /\ \A b \in Rows(lines) :
              /\ NamedPallet(lines, b) \in Pallets \cup {None}
              /\ NamedFiles(lines, b) \subseteq Files
<1>1. lines \subseteq Line /\ IsFiniteSet(lines) /\ Boxes \subseteq Nat
  BY CompletionAssumption
<1>2. IsFiniteSet(Rows(lines))
  <2> DEFINE f == [x \in lines |-> x.box]
  <2>1. f \in Surjection(lines, Rows(lines))
    BY DEF Rows, Surjection
  <2> QED BY <1>1, <2>1, FS_Surjection
<1>3. \A x \in lines : x.box \in Boxes /\ x.pallet \in Pallets \cup {None}
                        /\ x.files \subseteq Files
  BY <1>1 DEF Line
<1>4. Rows(lines) \subseteq Boxes
  BY <1>3 DEF Rows
<1>5. ASSUME NEW b \in Rows(lines)
      PROVE  NamedPallet(lines, b) \in Pallets \cup {None}
  <2>1. \E x \in lines : x.box = b
    BY DEF Rows
  <2>2. (CHOOSE x \in lines : x.box = b) \in lines
    BY <2>1
  <2> QED BY <1>3, <2>2 DEF NamedPallet
<1>6. ASSUME NEW b
      PROVE  NamedFiles(lines, b) \subseteq Files
  BY <1>3 DEF NamedFiles
<1> QED BY <1>1, <1>2, <1>4, <1>5, <1>6

WellPlaced(w, T) ==
  /\ DOMAIN w.box = DOMAIN box \cup T
  /\ \A b \in DOMAIN w.box : w.box[b] \in BoxRow
  /\ \A b \in DOMAIN box :
       /\ w.box[b].status = box[b].status
       /\ w.box[b].archived = box[b].archived
       /\ b \notin T => w.box[b].where = box[b].where
  /\ DOMAIN w.pallet
       = DOMAIN txn.pallet \cup ({NamedPallet(txn.lines, b) : b \in T} \ {None})
  /\ \A p \in DOMAIN w.pallet : w.pallet[p] \in BOOLEAN
  /\ DOMAIN w.file
       = DOMAIN file \cup UNION {NamedFiles(txn.lines, b) : b \in T}
  /\ \A f \in DOMAIN w.file :
       \/ f \in DOMAIN file /\ w.file[f] = file[f]
       \/ \E b \in T : /\ f \in NamedFiles(txn.lines, b)
                       /\ w.file[f] = [box |-> b, active |-> TRUE]

LEMMA NothingPlaced ==
  ASSUME CompletionInv, txn # None
  PROVE  WellPlaced(Unplaced, {})
<1>1. /\ Unplaced.box = box /\ Unplaced.pallet = txn.pallet
      /\ Unplaced.file = file
  BY DEF Unplaced
<1>2. /\ \A b \in DOMAIN box : box[b] \in BoxRow
      /\ \A p \in DOMAIN txn.pallet : txn.pallet[p] \in BOOLEAN
  BY DEF CompletionInv, CompletionTypeOK, CopiesInv, IsTable
<1>3. /\ {NamedPallet(txn.lines, b) : b \in {}} = {}
      /\ UNION {NamedFiles(txn.lines, b) : b \in {}} = {}
  OBVIOUS
<1> QED BY <1>1, <1>2, <1>3 DEF WellPlaced

LEMMA RowPlaced ==
  ASSUME CompletionInv, txn # None,
         NEW T \in SUBSET Rows(txn.lines), NEW b \in Rows(txn.lines),
         NEW w, WellPlaced(w, T)
  PROVE  WellPlaced(PlaceRow(w, b), T \cup {b})
<1> DEFINE named == NamedPallet(txn.lines, b)
           x == PlaceRow(w, b)
           boxes == PlacedBox(w, b, named)
           pallets == With(w.pallet, {named} \ {None}, TRUE)
<1>0. /\ txn.lines \in Deliveries
      /\ DOMAIN txn.box = Rows(txn.lines) \cap DOMAIN box
  BY DEF CompletionInv, CopiesInv
<1>1. /\ named \in Pallets \cup {None}
      /\ b \in Boxes
  BY <1>0, LinesTyped
<1>2. /\ x.box = boxes /\ x.file = PlacedFiles(w, b)
      /\ x.pallet = [p \in DOMAIN pallets |->
                       pallets[p] /\ p \notin Emptied(b, named, boxes)]
  BY DEF PlaceRow
<1>3. /\ DOMAIN boxes = DOMAIN box \cup (T \cup {b})
      /\ \A c \in DOMAIN boxes : boxes[c] \in BoxRow
      /\ \A c \in DOMAIN box :
           /\ boxes[c].status = box[c].status
           /\ boxes[c].archived = box[c].archived
           /\ c \notin T \cup {b} => boxes[c].where = box[c].where
  <2> DEFINE new == [where |-> "here", status |-> "received",
                     archived |-> FALSE, pallet |-> named]
  <2>1. CASE b \notin DOMAIN txn.box
    <3>1. boxes = [i \in DOMAIN w.box \cup {b} |->
                     IF i \in DOMAIN w.box THEN w.box[i] ELSE new]
      BY <2>1 DEF PlacedBox, With
    <3>2. new \in BoxRow
      BY <1>1 DEF BoxRow
    <3>3. b \notin DOMAIN box
      BY <1>0, <2>1
    <3> HIDE DEF new, boxes
    <3> QED BY <3>1, <3>2, <3>3 DEF WellPlaced
  <2>2. CASE b \in DOMAIN txn.box
    <3> DEFINE old == w.box[b]
               row == [old EXCEPT !.where = "here",
                                  !.pallet = IF StandsOn(b, named) = txn.box[b].pallet
                                             THEN @ ELSE named]
    <3>1. b \in DOMAIN box /\ b \in DOMAIN w.box /\ old \in BoxRow
      BY <1>0, <2>2 DEF WellPlaced
    <3>2. /\ row \in BoxRow /\ row.status = old.status
          /\ row.archived = old.archived
      BY <1>1, <3>1 DEF BoxRow
    <3>3. boxes = [w.box EXCEPT ![b] = row]
      BY <2>2, <3>1 DEF PlacedBox, BoxRow
    <3>4. /\ DOMAIN boxes = DOMAIN w.box /\ boxes[b] = row
          /\ \A c \in DOMAIN w.box \ {b} : boxes[c] = w.box[c]
      BY <3>1, <3>3
    <3> HIDE DEF row, boxes
    <3> QED BY <3>1, <3>2, <3>4 DEF WellPlaced
  <2> QED BY <2>1, <2>2
<1>4. /\ DOMAIN x.pallet = DOMAIN txn.pallet
             \cup ({NamedPallet(txn.lines, c) : c \in T \cup {b}} \ {None})
      /\ \A p \in DOMAIN x.pallet : x.pallet[p] \in BOOLEAN
  <2>1. DOMAIN x.pallet = DOMAIN w.pallet \cup ({named} \ {None})
    BY <1>2 DEF With
  <2>2. {NamedPallet(txn.lines, c) : c \in T \cup {b}}
          = {NamedPallet(txn.lines, c) : c \in T} \cup {named}
    OBVIOUS
  <2>3. \A p \in DOMAIN x.pallet : x.pallet[p] \in BOOLEAN
    BY <1>2
  <2> HIDE DEF x, named
  <2> QED BY <2>1, <2>2, <2>3 DEF WellPlaced
<1>5. /\ DOMAIN x.file = DOMAIN file
             \cup UNION {NamedFiles(txn.lines, c) : c \in T \cup {b}}
      /\ \A f \in DOMAIN x.file :
           \/ f \in DOMAIN file /\ x.file[f] = file[f]
           \/ \E c \in T \cup {b} : /\ f \in NamedFiles(txn.lines, c)
                                   /\ x.file[f] = [box |-> c, active |-> TRUE]
  <2>1. x.file = [f \in NamedFiles(txn.lines, b) \cup DOMAIN w.file |->
                    IF f \in NamedFiles(txn.lines, b)
                    THEN [box |-> b, active |-> TRUE] ELSE w.file[f]]
    BY <1>2 DEF PlacedFiles, AsCopied
  <2>2. \A f : f \in UNION {NamedFiles(txn.lines, c) : c \in T \cup {b}}
                <=> \/ f \in UNION {NamedFiles(txn.lines, c) : c \in T}
                    \/ f \in NamedFiles(txn.lines, b)
    OBVIOUS
  <2> HIDE DEF x
  <2>3. DOMAIN x.file = DOMAIN file
             \cup UNION {NamedFiles(txn.lines, c) : c \in T \cup {b}}
    BY <2>1, <2>2 DEF WellPlaced
  <2>4. ASSUME NEW f \in DOMAIN x.file
        PROVE  \/ f \in DOMAIN file /\ x.file[f] = file[f]
               \/ \E c \in T \cup {b} :
                    /\ f \in NamedFiles(txn.lines, c)
                    /\ x.file[f] = [box |-> c, active |-> TRUE]
    <3>1. CASE f \in NamedFiles(txn.lines, b)
      BY <2>1, <3>1
    <3>2. CASE f \notin NamedFiles(txn.lines, b)
      <4>1. f \in DOMAIN w.file /\ x.file[f] = w.file[f]
        BY <2>1, <3>2
      <4> QED BY <4>1 DEF WellPlaced
    <3> QED BY <3>1, <3>2
  <2> QED BY <2>3, <2>4
<1>6. WellPlaced(x, T \cup {b})
  <2> HIDE DEF x, boxes
  <2> QED BY <1>2, <1>3, <1>4, <1>5 DEF WellPlaced
<1> QED BY <1>6

\* Row by row the whole list is placed.
LEMMA AllPlaced ==
  ASSUME CompletionInv, txn # None
  PROVE  WellPlaced(Placed, Rows(txn.lines))
<1> DEFINE U == Rows(txn.lines)
           g == CHOOSE h : RowByRow(h)
           S == {n \in Nat : \A s \in SUBSET U :
                               Cardinality(s) <= n => WellPlaced(g[s], s)}
<1>0. IsFiniteSet(U) /\ U \subseteq Nat
  BY LinesTyped DEF CompletionInv, CopiesInv
<1>1. RowByRow(g)
  BY <1>0, FoldExists
<1>2. \A s \in SUBSET U :
        g[s] = IF s = {} THEN Unplaced ELSE PlaceRow(g[s \ {Max(s)}], Max(s))
  <2> HIDE DEF g
  <2> QED BY <1>1 DEF RowByRow
<1> HIDE DEF g
<1>3. \A s \in SUBSET U : IsFiniteSet(s) /\ Cardinality(s) \in Nat
  BY <1>0, FS_Subset, FS_CardinalityType
<1>4. 0 \in S
  <2> SUFFICES ASSUME NEW s \in SUBSET U, Cardinality(s) <= 0
               PROVE  WellPlaced(g[s], s)
    OBVIOUS
  <2>1. s = {}
    BY <1>3, FS_EmptySet
  <2> QED BY <1>2, <2>1, NothingPlaced
<1>5. ASSUME NEW n \in Nat, n \in S
      PROVE  n + 1 \in S
  <2> SUFFICES ASSUME NEW s \in SUBSET U, Cardinality(s) <= n + 1
               PROVE  WellPlaced(g[s], s)
    OBVIOUS
  <2>1. CASE s = {}
    BY <1>2, <2>1, NothingPlaced
  <2>2. CASE s # {}
    <3>1. PICK b \in s : b = Max(s) /\ Cardinality(s \ {b}) = Cardinality(s) - 1
      BY <1>0, <2>2, LastRow
    <3>2. PICK r \in SUBSET U : r = s \ {b}
      OBVIOUS
    <3>3. WellPlaced(g[r], r)
      BY <1>3, <1>5, <3>1, <3>2
    <3>4. PICK w : w = g[r]
      OBVIOUS
    <3>5. g[s] = PlaceRow(w, b)
      BY <1>2, <2>2, <3>1, <3>2, <3>4
    <3>6. WellPlaced(PlaceRow(w, b), r \cup {b})
      BY <3>3, <3>4, RowPlaced
    <3>7. r \cup {b} = s
      BY <3>2
    <3> QED BY <3>5, <3>6, <3>7
  <2> QED BY <2>1, <2>2
<1>6. Nat \subseteq S
  <2> HIDE DEF S
  <2> QED BY <1>4, <1>5, AllNumbers
<1>7. WellPlaced(g[U], U)
  BY <1>3, <1>6
<1> QED BY <1>7, PlacedIsFold DEF g

-----------------------------------------------------------------------------
(* What a completion that is not refused has checked and does.             *)
Seeing == Impact(Seen, txn.lines)
Granted ==
  /\ txn.signed # None => txn.signed = Seeing
  /\ CanComplete(Seeing) /\ AcceptsImpact(Seeing)
Done ==
  /\ box' = Placed.box /\ file' = Placed.file
  /\ pallet' = WrittenPallets(Placed)
  /\ request'.status = "completed"

LEMMA FinishCases ==
  ASSUME CompletionInv, FinishCompletion
  PROVE  /\ txn # None /\ txn' = None
         /\ answer' \in Answer
         /\ \/ Granted /\ Done
            \/ UNCHANGED <<box, file, pallet, request>>
<1> DEFINE outcome == Outcome(Seeing)
<1>1. /\ txn # None /\ txn' = None
      /\ answer' = [key |-> txn.key, result |-> outcome]
      /\ IF outcome = "completed"
         THEN Done
         ELSE UNCHANGED <<box, file, pallet, request>>
  BY DEF FinishCompletion, Answered, Done, Seeing
<1>2. outcome \in {"completed", "changed", "blocked", "unaccepted", "failed"}
  BY DEF Outcome
<1>3. outcome = "completed" => Granted
  <2> SUFFICES ASSUME outcome = "completed" PROVE Granted
    OBVIOUS
  <2> DEFINE fits == txn.signed = None \/ txn.signed = Seeing
  <2>1. fits
    BY DEF Outcome
  <2>2. CanComplete(Seeing)
    BY <2>1 DEF Outcome
  <2>3. AcceptsImpact(Seeing)
    BY <2>1, <2>2 DEF Outcome
  <2> QED BY <2>1, <2>2, <2>3 DEF Granted
<1>4. txn.key \in IdempotencyKeys
  BY <1>1 DEF CompletionInv, CopiesInv
<1>5. answer' \in Answer
  BY <1>1, <1>2, <1>4 DEF Answer
<1> QED BY <1>1, <1>3, <1>5

\* Box rows are created and relocated, never dropped, archived or restored.
LEMMA DoneTyped ==
  ASSUME CompletionInv, txn # None, Done, reserved' = reserved
  PROVE  /\ IsTable(box', Boxes, BoxRow)
         /\ IsTable(pallet', Pallets, BOOLEAN)
         /\ IsTable(file', Files, FileRow)
         /\ reserved' \subseteq {b \in DOMAIN box' : box'[b].status = "later"
                                                    /\ ~box'[b].archived}
<1> DEFINE w == Placed
           U == Rows(txn.lines)
<1>1. WellPlaced(w, U)
  BY AllPlaced
<1>2. /\ U \subseteq Boxes
      /\ \A b \in U : /\ NamedPallet(txn.lines, b) \in Pallets \cup {None}
                      /\ NamedFiles(txn.lines, b) \subseteq Files
  BY LinesTyped DEF CompletionInv, CopiesInv
<1>3. /\ box' = w.box /\ file' = w.file /\ pallet' = WrittenPallets(w)
  BY DEF Done
<1>4. /\ IsTable(box, Boxes, BoxRow) /\ IsTable(pallet, Pallets, BOOLEAN)
      /\ IsTable(file, Files, FileRow)
      /\ reserved \subseteq {b \in DOMAIN box : box[b].status = "later"
                                                /\ ~box[b].archived}
      /\ IsTable(txn.pallet, Pallets, BOOLEAN)
      /\ DOMAIN txn.pallet = DOMAIN pallet
  BY DEF CompletionInv, CompletionTypeOK, CopiesInv
<1> HIDE DEF w
<1>5. IsTable(box', Boxes, BoxRow)
  BY <1>1, <1>2, <1>3, <1>4 DEF WellPlaced, IsTable
<1>6. IsTable(pallet', Pallets, BOOLEAN)
  <2>1. DOMAIN w.pallet \subseteq Pallets
    BY <1>1, <1>2, <1>4 DEF WellPlaced, IsTable
  <2>2. \A p \in DOMAIN w.pallet : w.pallet[p] \in BOOLEAN
    BY <1>1 DEF WellPlaced
  <2>3. \A p \in DOMAIN txn.pallet : pallet[p] \in BOOLEAN
    BY <1>4 DEF IsTable
  <2> QED BY <1>3, <2>1, <2>2, <2>3 DEF WrittenPallets, IsTable
<1>7. IsTable(file', Files, FileRow)
  <2>1. DOMAIN w.file \subseteq Files
    BY <1>1, <1>2, <1>4 DEF WellPlaced, IsTable
  <2>2. ASSUME NEW f \in DOMAIN w.file
        PROVE  w.file[f] \in FileRow
    <3>1. CASE f \in DOMAIN file /\ w.file[f] = file[f]
      BY <1>4, <3>1 DEF IsTable
    <3>2. ASSUME NEW b \in U, w.file[f] = [box |-> b, active |-> TRUE]
          PROVE  w.file[f] \in FileRow
      BY <1>2, <3>2 DEF FileRow
    <3> QED BY <1>1, <3>1, <3>2 DEF WellPlaced
  <2> QED BY <1>3, <2>1, <2>2 DEF IsTable
<1>8. reserved' \subseteq {b \in DOMAIN box' : box'[b].status = "later"
                                                /\ ~box'[b].archived}
  BY <1>1, <1>3, <1>4 DEF WellPlaced
<1> QED BY <1>5, <1>6, <1>7, <1>8

LEMMA CopiesFramed ==
  ASSUME CopiesInv, UNCHANGED txn, request'.status = request.status,
         DOMAIN box' = DOMAIN box, DOMAIN pallet' = DOMAIN pallet
  PROVE  CopiesInv'
BY DEF CopiesInv, IsTable

\* What others may do while a completion runs leaves the rows of the tables.
LEMMA OverlapKept ==
  ASSUME CompletionInv, NEW b \in Boxes,
         UpdateBox(b) \/ ArchiveBox(b) \/ Reserve(b) \/ CancelReturn(b)
  PROVE  CompletionInv'
<1> USE DEF CompletionInv, CompletionTypeOK
<1>1. /\ UNCHANGED <<request, review, txn, answer>> /\ edits' \in 0..MaxEdits
      /\ UNCHANGED file
  BY CompletionAssumption DEF UpdateBox, ArchiveBox, Reserve, CancelReturn, Edit
<1>2. CASE Reserve(b) \/ CancelReturn(b)
  <2>1. /\ UNCHANGED <<box, pallet>>
        /\ reserved' \subseteq {c \in DOMAIN box : box[c].status = "later"
                                                   /\ ~box[c].archived}
    BY <1>2 DEF Reserve, CancelReturn, Free
  <2>2. CopiesInv'
    BY <1>1, <2>1, CopiesFramed
  <2> QED BY <1>1, <2>1, <2>2 DEF ReviewInv
<1>3. CASE ArchiveBox(b)
  <2>1. /\ b \in DOMAIN box /\ box' = [box EXCEPT ![b].archived = TRUE]
        /\ reserved' = reserved \ {b} /\ UNCHANGED pallet
    BY <1>3 DEF ArchiveBox
  <2>2. CopiesInv'
    BY <1>1, <2>1, CopiesFramed
  <2>3. IsTable(box', Boxes, BoxRow)
    BY <2>1 DEF IsTable, BoxRow
  <2>4. /\ DOMAIN box' = DOMAIN box
        /\ \A c \in DOMAIN box \ {b} : box'[c] = box[c]
    BY <2>1
  <2>5. reserved' \subseteq {c \in DOMAIN box' : box'[c].status = "later"
                                                 /\ ~box'[c].archived}
    BY <2>1, <2>4
  <2> QED BY <1>1, <2>1, <2>2, <2>3, <2>5 DEF ReviewInv
<1>4. CASE UpdateBox(b)
  <2>1. /\ b \in DOMAIN box /\ b \notin reserved /\ reserved' = reserved
    BY <1>4 DEF UpdateBox, Free
  <2>2. ASSUME NEW row \in BoxRow, box' = [box EXCEPT ![b] = row],
               DOMAIN pallet' = DOMAIN pallet,
               IsTable(pallet', Pallets, BOOLEAN)
        PROVE  CompletionInv'
    <3>1. IsTable(box', Boxes, BoxRow) /\ DOMAIN box' = DOMAIN box
      BY <2>1, <2>2 DEF IsTable
    <3>2. \A c \in DOMAIN box \ {b} : box'[c] = box[c]
      BY <2>2
    <3>3. reserved' \subseteq {c \in DOMAIN box' : box'[c].status = "later"
                                                   /\ ~box'[c].archived}
      BY <2>1, <3>1, <3>2
    <3>4. CopiesInv'
      BY <1>1, <2>2, <3>1, CopiesFramed
    <3> QED BY <1>1, <2>2, <3>1, <3>3, <3>4 DEF ReviewInv
  <2>3. box[b] \in BoxRow
    BY <2>1 DEF IsTable
  <2>4. CASE /\ box' = [box EXCEPT ![b].status = "later"]
             /\ UNCHANGED pallet
    <3>1. box' = [box EXCEPT ![b] = [box[b] EXCEPT !.status = "later"]]
      BY <2>1, <2>4
    <3>2. [box[b] EXCEPT !.status = "later"] \in BoxRow
      BY <2>3 DEF BoxRow
    <3> QED BY <2>2, <2>4, <3>1, <3>2
  <2>5. CASE /\ box' = [box EXCEPT ![b].where =
                          IF @ = "here" THEN "there" ELSE "here"]
             /\ UNCHANGED pallet
    <3> DEFINE row == [box[b] EXCEPT !.where =
                          IF @ = "here" THEN "there" ELSE "here"]
    <3>1. box' = [box EXCEPT ![b] = row]
      BY <2>1, <2>5
    <3>2. row \in BoxRow
      BY <2>3 DEF BoxRow
    <3> HIDE DEF row
    <3> QED BY <2>2, <2>5, <3>1, <3>2
  <2>6. ASSUME NEW p \in Pallets \cup {None},
               box' = [box EXCEPT ![b].pallet = p],
               pallet' = [q \in DOMAIN pallet |->
                            pallet[q] /\ (q = box[b].pallet
                                            => Occupants(box', q) # {})]
        PROVE  CompletionInv'
    <3>1. box' = [box EXCEPT ![b] = [box[b] EXCEPT !.pallet = p]]
      BY <2>1, <2>6
    <3>2. [box[b] EXCEPT !.pallet = p] \in BoxRow
      BY <2>3 DEF BoxRow
    <3>3. DOMAIN pallet' = DOMAIN pallet /\ IsTable(pallet', Pallets, BOOLEAN)
      BY <2>6 DEF IsTable
    <3> QED BY <2>2, <3>1, <3>2, <3>3
  <2> QED BY <1>4, <2>4, <2>5, <2>6 DEF UpdateBox
<1> QED BY <1>2, <1>3, <1>4

LEMMA OthersKept ==
  ASSUME CompletionInv, Others
  PROVE  CompletionInv'
<1> USE DEF CompletionInv, CompletionTypeOK
<1>1. ASSUME NEW b \in Boxes, NEW where \in {"here", "there"}, Receipt(b, where)
      PROVE  CompletionInv'
  <2> DEFINE new == [where |-> where, status |-> "received",
                     archived |-> FALSE, pallet |-> None]
  <2>1. /\ box' = With(box, {b}, new) /\ txn = None /\ b \notin DOMAIN box
        /\ UNCHANGED <<pallet, file, reserved, request, review, txn, answer>>
        /\ edits' \in 0..MaxEdits
    BY <1>1, CompletionAssumption DEF Receipt, Edit
  <2>2. new \in BoxRow
    BY DEF BoxRow
  <2> HIDE DEF new
  <2>3. IsTable(box', Boxes, BoxRow)
    BY <2>1, <2>2 DEF With, IsTable
  <2>4. \A c \in DOMAIN box : c \in DOMAIN box' /\ box'[c] = box[c]
    BY <2>1 DEF With
  <2>5. reserved' \subseteq {c \in DOMAIN box' : box'[c].status = "later"
                                                 /\ ~box'[c].archived}
    BY <2>1, <2>4
  <2> QED BY <2>1, <2>3, <2>5 DEF CopiesInv, ReviewInv
<1>2. ASSUME NEW b \in Boxes, NEW f \in Files, ChangeFile(f, b)
      PROVE  CompletionInv'
  <2>1. /\ txn = None /\ b \in DOMAIN box
        /\ UNCHANGED <<box, pallet, reserved, request, review, txn, answer>>
        /\ edits' \in 0..MaxEdits
    BY <1>2, CompletionAssumption DEF ChangeFile, Edit
  <2>2. IsTable(file', Files, FileRow)
    <3>1. CASE f \in DOMAIN file /\ file' = [file EXCEPT ![f].box = b]
      BY <3>1 DEF IsTable, FileRow
    <3>2. CASE file' = With(file, {f}, [box |-> b, active |-> TRUE])
      BY <3>2 DEF IsTable, FileRow, With
    <3>3. CASE f \in DOMAIN file /\ file' = [file EXCEPT ![f].active = ~@]
      BY <3>3 DEF IsTable, FileRow
    <3> QED BY <1>2, <3>1, <3>2, <3>3 DEF ChangeFile
  <2> QED BY <2>1, <2>2 DEF CopiesInv, ReviewInv
<1>3. ASSUME NEW p \in Pallets, SetPallet(p)
      PROVE  CompletionInv'
  <2>1. /\ p \in DOMAIN pallet /\ pallet' = [pallet EXCEPT ![p] = ~@]
        /\ UNCHANGED <<box, file, reserved, request, review, txn, answer>>
        /\ edits' \in 0..MaxEdits
    BY <1>3, CompletionAssumption DEF SetPallet, Edit
  <2>2. IsTable(pallet', Pallets, BOOLEAN) /\ DOMAIN pallet' = DOMAIN pallet
    BY <2>1 DEF IsTable
  <2>3. CopiesInv'
    BY <2>1, <2>2, CopiesFramed
  <2> QED BY <2>1, <2>2, <2>3 DEF ReviewInv
<1>4. CASE TouchRequest
  <2>1. /\ txn = None /\ UNCHANGED <<box, pallet, file, reserved, review, txn, answer>>
        /\ edits' \in 0..MaxEdits
        /\ request' = [request EXCEPT !.version = @ + 1]
    BY <1>4, CompletionAssumption DEF TouchRequest, stock
  <2>2. /\ request'.status = request.status /\ request'.key = request.key
        /\ request'.version \in Nat \ {0}
    BY <2>1
  <2> QED BY <2>1, <2>2 DEF CopiesInv, ReviewInv
<1> QED BY <1>1, <1>2, <1>3, <1>4, OverlapKept DEF Others

LEMMA CompletionKept ==
  ASSUME CompletionInv, [CompletionNext]_completionVars
  PROVE  CompletionInv'
<1> USE DEF CompletionInv, CompletionTypeOK
<1>1. ASSUME NEW lines \in Deliveries, Preview(lines)
      PROVE  CompletionInv'
  <2>1. /\ UNCHANGED <<box, pallet, file, reserved, request, txn, edits>>
        /\ review'.lines = lines /\ answer' = None
    BY <1>1 DEF Preview, stock
  <2> QED BY <2>1 DEF CopiesInv, ReviewInv
<1>2. CASE CloseReview
  BY <1>2 DEF CloseReview, stock, CopiesInv, ReviewInv
<1>3. ASSUME NEW k \in IdempotencyKeys, NEW lines \in Deliveries,
             NEW signed, NEW acceptBoxes, NEW acceptFiles,
             BeginCompletion(lines, signed, acceptBoxes, acceptFiles, k)
      PROVE  CompletionInv'
  <2>1. /\ UNCHANGED <<box, pallet, file, reserved, request, review, edits>>
        /\ request.status = "awaiting" /\ answer' = None
        /\ txn'.lines = lines /\ txn'.key = k /\ txn'.pallet = pallet
        /\ txn'.box = [b \in Rows(lines) \cap DOMAIN box |-> box[b]]
    BY <1>3 DEF BeginCompletion, stock, Restrict
  <2>2. IsTable(txn'.box, Boxes, BoxRow)
    BY <2>1 DEF IsTable
  <2>3. CopiesInv'
    BY <2>1, <2>2 DEF CopiesInv, IsTable
  <2> QED BY <2>1, <2>3 DEF ReviewInv
<1>4. ASSUME NEW k \in IdempotencyKeys, Confirm(k)
      PROVE  CompletionInv'
  <2>1. CASE \E lines \in Deliveries : BeginCompletion(lines, None, TRUE, TRUE, k)
    BY <1>3, <2>1
  <2>2. CASE /\ review # None
             /\ \E acceptBoxes, acceptFiles \in BOOLEAN :
                  BeginCompletion(review.lines, review.impact,
                                  acceptBoxes, acceptFiles, k)
    <3>1. PICK lines \in Deliveries : lines = review.lines
      BY <2>2 DEF ReviewInv
    <3>2. PICK signed : signed = review.impact
      OBVIOUS
    <3> QED BY <1>3, <2>2, <3>1, <3>2
  <2> QED BY <1>4, <2>1, <2>2 DEF Confirm
<1>5. ASSUME NEW k \in IdempotencyKeys, NEW v \in 1..request.version,
             AnswerAtOnce(k, v)
      PROVE  CompletionInv'
  <2>1. Reply(k) \in {"completed", "conflict"}
    BY DEF Reply
  <2>2. answer' \in Answer
    BY <1>5, <2>1 DEF AnswerAtOnce, Answered, Answer
  <2> QED BY <1>5, <2>2 DEF AnswerAtOnce, stock, CopiesInv, ReviewInv
<1>6. CASE FinishCompletion
  <2>1. /\ UNCHANGED <<reserved, review, edits>> /\ txn # None /\ txn' = None
        /\ answer' \in Answer
    BY <1>6, FinishCases DEF FinishCompletion
  <2>2. CASE UNCHANGED <<box, file, pallet, request>>
    BY <2>1, <2>2 DEF CopiesInv, ReviewInv
  <2>3. CASE Done
    <3>1. request' \in [status : {"awaiting", "completed"},
                        version : Nat \ {0},
                        key : IdempotencyKeys \cup {None}]
      BY <1>6, <2>1 DEF FinishCompletion, CopiesInv
    <3> QED BY <2>1, <2>3, <3>1, DoneTyped DEF CopiesInv, ReviewInv
  <2> QED BY <1>6, <2>2, <2>3, FinishCases
<1>7. CASE Others
  BY <1>7, OthersKept
<1>8. CASE UNCHANGED completionVars
  BY <1>8 DEF completionVars, stock, CopiesInv, ReviewInv
<1> QED BY <1>1, <1>2, <1>4, <1>5, <1>6, <1>7, <1>8 DEF CompletionNext

LEMMA CompletionStarts == CompletionInit => CompletionInv
<1> SUFFICES ASSUME CompletionInit PROVE CompletionInv
  OBVIOUS
<1>1. IsTable(box, Boxes, BoxRow)
  <2>1. PICK D \in SUBSET Boxes : box \in [D -> StoredRow]
    BY DEF CompletionInit, Tables
  <2>2. StoredRow \subseteq BoxRow
    BY DEF StoredRow, BoxRow
  <2> QED BY <2>1, <2>2 DEF IsTable
<1>2. IsTable(pallet, Pallets, BOOLEAN)
  <2>1. PICK D \in SUBSET Pallets : pallet \in [D -> BOOLEAN]
    BY DEF CompletionInit, Tables
  <2> QED BY <2>1 DEF IsTable
<1>3. IsTable(file, Files, FileRow)
  <2>1. PICK D \in SUBSET Files : file \in [D -> [box : Boxes, active : {TRUE}]]
    BY DEF CompletionInit, Tables
  <2> QED BY <2>1 DEF IsTable, FileRow
<1>4. \A b \in DOMAIN box : ~box[b].archived
  <2>1. PICK D \in SUBSET Boxes : box \in [D -> StoredRow]
    BY DEF CompletionInit, Tables
  <2> QED BY <2>1 DEF StoredRow
<1>5. reserved \subseteq {b \in DOMAIN box : box[b].status = "later"
                                             /\ ~box[b].archived}
  BY <1>4 DEF CompletionInit
<1>6. 0 \in 0..MaxEdits
  BY CompletionAssumption
<1> QED BY <1>1, <1>2, <1>3, <1>5, <1>6
        DEF CompletionInit, CompletionInv, CompletionTypeOK, CopiesInv, ReviewInv

LEMMA CompletionInvHolds == CompletionSpec => []CompletionInv
BY CompletionStarts, CompletionKept, PTL DEF CompletionSpec

\* The tables of a completion are well formed, and what an active return
\* has reserved is a box in stock that is past its receipt, also after a
\* completion has written back the copies it had read.
THEOREM CompletionTypeCorrect == CompletionSpec => []CompletionTypeOK
BY CompletionInvHolds, PTL DEF CompletionInv

-----------------------------------------------------------------------------
(* The effect of a completion on the stock.                                *)
LEMMA SeenTables ==
  ASSUME CompletionInv, txn # None
  PROVE  /\ Seen.reserved = reserved /\ Seen.file = file
         /\ Seen.pallet = txn.pallet /\ DOMAIN Seen.box = DOMAIN box
BY DEF Seen, Stock, AsCopied, CompletionInv, CopiesInv

LEMMA SeeingRows ==
  /\ DOMAIN Seeing.rows = Rows(txn.lines)
  /\ \A b \in Rows(txn.lines) :
       Seeing.rows[b] = RowImpact(Seen, txn.lines, b)
BY DEF Seeing, Impact

LEMMA RowShown ==
  ASSUME NEW b \in Rows(txn.lines)
  PROVE  /\ Seeing.rows[b].action = BoxAction(Seen, b)
         /\ Seeing.rows[b].named = NamedPallet(txn.lines, b)
         /\ Seeing.rows[b].pallet = Resolution(Seen, txn.lines, b)
         /\ Seeing.rows[b].files =
              [f \in NamedFiles(txn.lines, b) \cup HeldFiles(Seen, b) |->
                 FileImpact(Seen, f, b)]
<1> DEFINE r == RowImpact(Seen, txn.lines, b)
<1>1. Seeing.rows[b] = r
  BY SeeingRows
<1>2. /\ r.action = BoxAction(Seen, b)
      /\ r.named = NamedPallet(txn.lines, b)
      /\ r.pallet = Resolution(Seen, txn.lines, b)
      /\ r.files = [f \in NamedFiles(txn.lines, b) \cup HeldFiles(Seen, b) |->
                      FileImpact(Seen, f, b)]
  BY Zenon DEF RowImpact
<1> HIDE DEF r
<1> QED BY <1>1, <1>2

\* Only rows of the list that were to be relocated have moved.
LEMMA RelocatedShown ==
  ASSUME CompletionInv, txn # None, Done, CanComplete(Seeing)
  PROVE  \A b \in Relocated : /\ b \in Rows(txn.lines) /\ b \notin reserved
                              /\ Seeing.rows[b].action = "relocate"
<1> SUFFICES ASSUME NEW b \in Relocated
             PROVE  /\ b \in Rows(txn.lines) /\ b \notin reserved
                    /\ Seeing.rows[b].action = "relocate"
  OBVIOUS
<1>1. b \in DOMAIN box /\ Placed.box[b].where # box[b].where
  BY DEF Relocated, Done
<1>2. b \in Rows(txn.lines)
  BY <1>1, AllPlaced DEF WellPlaced
<1>3. Seeing.rows[b].action = BoxAction(Seen, b)
  BY <1>2, RowShown
<1>4. BoxAction(Seen, b) # "blocked"
  BY <1>2, <1>3, SeeingRows DEF CanComplete, RowBlocked
<1>5. b \in DOMAIN Seen.box /\ Seen.reserved = reserved
  BY <1>1, SeenTables
<1> QED BY <1>2, <1>3, <1>4, <1>5 DEF BoxAction

LEMMA CreatedShown ==
  ASSUME CompletionInv, txn # None, Done, CanComplete(Seeing)
  PROVE  DOMAIN box' \ DOMAIN box
           = {b \in Rows(txn.lines) : Seeing.rows[b].action = "create"}
<1>1. DOMAIN box' = DOMAIN box \cup Rows(txn.lines)
  BY AllPlaced DEF WellPlaced, Done
<1>2. \A b \in Rows(txn.lines) : Seeing.rows[b].action = BoxAction(Seen, b)
  BY RowShown
<1>3. \A b : BoxAction(Seen, b) = "create" <=> b \notin DOMAIN box
  BY SeenTables DEF BoxAction
<1> QED BY <1>1, <1>2, <1>3

LEMMA PalletsShown ==
  ASSUME CompletionInv, txn # None, Done
  PROVE  DOMAIN pallet' \ DOMAIN pallet
           = {Seeing.rows[b].named : b \in
                {c \in Rows(txn.lines) : Seeing.rows[c].pallet = "will_create"}}
<1> DEFINE named(b) == NamedPallet(txn.lines, b)
<1>1. DOMAIN pallet' = DOMAIN pallet
        \cup ({named(b) : b \in Rows(txn.lines)} \ {None})
  BY AllPlaced DEF WellPlaced, Done, WrittenPallets, CompletionInv, CopiesInv
<1>2. \A b \in Rows(txn.lines) :
        /\ Seeing.rows[b].named = named(b)
        /\ Seeing.rows[b].pallet = Resolution(Seen, txn.lines, b)
  BY RowShown
<1>3. Seen.pallet = txn.pallet /\ DOMAIN txn.pallet = DOMAIN pallet
  BY SeenTables DEF CompletionInv, CopiesInv
<1>4. \A b : Resolution(Seen, txn.lines, b) = "will_create"
               <=> named(b) # None /\ named(b) \notin DOMAIN pallet
  BY <1>3 DEF Resolution
<1> HIDE DEF named
<1> QED BY <1>1, <1>2, <1>4

\* A file that has moved was shown as one that moves, out of no reserved box.
LEMMA MovedShown ==
  ASSUME CompletionInv, txn # None, Done, CanComplete(Seeing),
         NEW f \in MovedFiles
  PROVE  /\ file[f].box \notin reserved
         /\ \E b \in Rows(txn.lines) :
              /\ f \in DOMAIN Seeing.rows[b].files
              /\ Seeing.rows[b].files[f].action = "move"
              /\ Seeing.rows[b].files[f].source = file[f].box
              /\ file'[f].box = b
<1>1. f \in DOMAIN file /\ Placed.file[f].box # file[f].box
  BY DEF MovedFiles, Done
<1>2. PICK b \in Rows(txn.lines) : /\ f \in NamedFiles(txn.lines, b)
                                   /\ Placed.file[f].box = b
  <2>1. /\ f \in DOMAIN Placed.file
        /\ \/ Placed.file[f] = file[f]
           \/ \E b \in Rows(txn.lines) :
                /\ f \in NamedFiles(txn.lines, b)
                /\ Placed.file[f] = [box |-> b, active |-> TRUE]
    BY <1>1, AllPlaced, Zenon DEF WellPlaced
  <2>2. PICK b \in Rows(txn.lines) :
          /\ f \in NamedFiles(txn.lines, b)
          /\ Placed.file[f] = [box |-> b, active |-> TRUE]
    BY <1>1, <2>1, Zenon
  <2> QED BY <2>2
<1>3. /\ f \in DOMAIN Seeing.rows[b].files
      /\ Seeing.rows[b].files[f] = FileImpact(Seen, f, b)
  BY <1>2, RowShown
<1>4. /\ Seeing.rows[b].files[f].action = FileAction(Seen, f, b)
      /\ Seeing.rows[b].files[f].source = file[f].box
  BY <1>1, <1>3, SeenTables DEF FileImpact
<1>5. FileAction(Seen, f, b) # "blocked"
  BY <1>2, <1>3, <1>4, SeeingRows DEF CanComplete, RowBlocked
<1>6. /\ f \in DOMAIN Seen.file /\ Seen.file[f].box # b
      /\ Seen.reserved = reserved
  BY <1>1, <1>2, SeenTables
<1>7. /\ FileAction(Seen, f, b) = "move"
      /\ file[f].box \notin reserved
  BY <1>5, <1>6, SeenTables DEF FileAction
<1> QED BY <1>2, <1>3, <1>4, <1>7 DEF Done

LEMMA GrantedAsReviewed ==
  ASSUME CompletionInv, txn # None, Done, Granted
  PROVE  AsReviewed
<1>1. CanComplete(Seeing)
  BY DEF Granted
<1>2. CASE txn.signed = None
  <2>1. ~Relocates(Seeing) /\ ~MovesFiles(Seeing)
    BY <1>2 DEF Granted, AcceptsImpact
  <2>2. Relocated = {}
    BY <1>1, <2>1, RelocatedShown, SeeingRows DEF Relocates
  <2>3. MovedFiles = {}
    BY <1>1, <2>1, MovedShown, SeeingRows DEF MovesFiles
  <2> QED BY <1>2, <2>2, <2>3 DEF AsReviewed
<1>3. CASE txn.signed # None
  <2>1. txn.signed = Seeing /\ DOMAIN Seeing.rows = Rows(txn.lines)
    BY <1>3, SeeingRows DEF Granted
  <2> QED BY <1>1, <1>3, <2>1, RelocatedShown, CreatedShown, PalletsShown,
             MovedShown DEF AsReviewed
<1> QED BY <1>2, <1>3

LEMMA CompletesOnce ==
  ASSUME CompletionInv, CompletionNext, Completes
  PROVE  txn # None /\ Done /\ Granted
<1>1. CASE FinishCompletion
  BY <1>1, FinishCases DEF Completes
<1>2. CASE ~FinishCompletion
  <2>1. request'.status = request.status
    <3>1. CASE Others
      <4>1. CASE TouchRequest
        BY <4>1 DEF TouchRequest, CompletionInv, CompletionTypeOK
      <4>2. CASE ~TouchRequest
        <5>1. request' = request
          BY <3>1, <4>2 DEF Others, Edit, UpdateBox, ArchiveBox, Reserve,
                CancelReturn, Receipt, ChangeFile, SetPallet
        <5> QED BY <5>1
      <4> QED BY <4>1, <4>2
    <3>2. CASE ~Others
      BY <1>2, <3>2 DEF CompletionNext, Preview, CloseReview, Confirm,
            BeginCompletion, AnswerAtOnce
    <3> QED BY <3>1, <3>2
  <2> QED BY <2>1 DEF Completes
<1> QED BY <1>1, <1>2

\* A completion does what its caller has reviewed and nothing else, for every
\* list, every stock and whatever overlaps it: boxes and pallets are created,
\* boxes relocated and files moved exactly where the signed preview said so.
\* (requests.py: the impact is worked out again under the locks and compared
\* with the signature.)
THEOREM ReviewedThenDone == CompletionSpec => CompletesAsReviewed
<1>1. CompletionInv /\ [CompletionNext]_completionVars
        => [Completes => AsReviewed]_completionVars
  BY CompletesOnce, GrantedAsReviewed DEF Completes
<1> QED BY <1>1, CompletionInvHolds, PTL DEF CompletionSpec, CompletesAsReviewed

\* No completion takes a box, or a file out of a box, that an active return
\* has reserved, also when the return was created while it ran.
THEOREM ReservedStays == CompletionSpec => ReservedUntouched
<1> DEFINE untouched == /\ Relocated \cap reserved = {}
                        /\ \A f \in MovedFiles : file[f].box \notin reserved
<1>1. ASSUME CompletionInv, txn # None, Done, Granted
      PROVE  untouched
  BY <1>1, RelocatedShown, MovedShown DEF Granted
<1>2. CompletionInv /\ [CompletionNext]_completionVars
        => [Completes => untouched]_completionVars
  BY <1>1, CompletesOnce
<1> QED BY <1>2, CompletionInvHolds, PTL DEF CompletionSpec, ReservedUntouched

-----------------------------------------------------------------------------
(* No completion runs once the request is completed.                       *)
AnswersInv ==
  /\ request.status \in {"awaiting", "completed"}
  /\ request.status = "completed" => txn = None
  /\ RepeatsAnswered

LEMMA AnswersKept == AnswersInv /\ [CompletionNext]_completionVars => AnswersInv'
<1> SUFFICES ASSUME AnswersInv, [CompletionNext]_completionVars PROVE AnswersInv'
  OBVIOUS
<1> USE DEF AnswersInv, RepeatsAnswered
<1>1. ASSUME NEW lines \in Deliveries, Preview(lines)
      PROVE  AnswersInv'
  BY <1>1 DEF Preview
<1>2. CASE CloseReview
  BY <1>2 DEF CloseReview
<1>3. ASSUME NEW k \in IdempotencyKeys, Confirm(k)
      PROVE  AnswersInv'
  BY <1>3 DEF Confirm, BeginCompletion
<1>4. ASSUME NEW k \in IdempotencyKeys, NEW v \in 1..request.version,
             AnswerAtOnce(k, v)
      PROVE  AnswersInv'
  BY <1>4 DEF AnswerAtOnce, Answered, Reply
<1>5. CASE FinishCompletion
  <2> DEFINE outcome == Outcome(Impact(Seen, txn.lines))
  <2>1. /\ answer' = [key |-> txn.key, result |-> outcome] /\ txn' = None
        /\ IF outcome = "completed"
           THEN request' = [status |-> "completed", key |-> txn.key,
                            version |-> request.version + 1]
           ELSE request' = request
        /\ txn # None
    BY <1>5 DEF FinishCompletion, Answered
  <2> HIDE DEF outcome
  <2> QED BY <2>1
<1>6. ASSUME request' = request, txn' = txn, answer' = answer
      PROVE  AnswersInv'
  BY <1>6
<1>7. CASE TouchRequest
  BY <1>7 DEF TouchRequest
<1>8. ASSUME NEW b \in Boxes,
             \/ UpdateBox(b) \/ ArchiveBox(b) \/ Reserve(b) \/ CancelReturn(b)
             \/ \E where \in {"here", "there"} : Receipt(b, where)
             \/ \E f \in Files : ChangeFile(f, b)
      PROVE  AnswersInv'
  <2>1. Edit
    BY <1>8 DEF UpdateBox, ArchiveBox, Reserve, CancelReturn, Receipt, ChangeFile
  <2> QED BY <1>6, <2>1 DEF Edit
<1>9. ASSUME NEW p \in Pallets, SetPallet(p)
      PROVE  AnswersInv'
  BY <1>6, <1>9 DEF SetPallet, Edit
<1>10. CASE UNCHANGED completionVars
  BY <1>6, <1>10 DEF completionVars
<1> QED BY <1>1, <1>2, <1>3, <1>4, <1>5, <1>7, <1>8, <1>9, <1>10 DEF CompletionNext, Others

\* Success is reported to the key that completed the request and to no
\* other, and that key is never refused afterwards, whatever version it
\* quotes and whatever else overlaps.
THEOREM RepeatsAreAnswered == CompletionSpec => []RepeatsAnswered
<1>1. CompletionInit => AnswersInv
  BY DEF CompletionInit, AnswersInv, RepeatsAnswered
<1>2. AnswersInv => RepeatsAnswered
  BY DEF AnswersInv
<1> QED BY <1>1, <1>2, AnswersKept, PTL DEF CompletionSpec
=============================================================================
