-------------------------- MODULE RequestLifecycle --------------------------
(***************************************************************************)
(* One box request row, its operational exception, its current documents   *)
(* and its version, under every request operation, issued by several users *)
(* who each act on the copy of the request they loaded last.               *)
(*                                                                         *)
(* Every operation but one locks the row, compares the caller's expected   *)
(* version with the row's, checks the role, the open exception and the     *)
(* status, and commits once: it is one atomic step here.  The exception is *)
(* approve_request, which loads the row before it locks it; the session    *)
(* keeps the attributes it loaded first, so the checks that follow the     *)
(* lock read the earlier row.  It is two steps, and OverlappingApprovals   *)
(* says whether anything may commit between them.                          *)
(*                                                                         *)
(* Warehouse access, free texts, windows and SLA dates are left out, and   *)
(* the warehouse's review policy stands still; the boxes a request moves   *)
(* are in BoxReservations.                                                 *)
(***************************************************************************)
EXTENDS Naturals

CONSTANTS Users,        \* users with access to the request's warehouse
          Admins,       \* those with the admin role
          Movers,       \* those with the warehouse_mover role
          OverlappingApprovals, \* may others commit while an approval runs?
          MaxVersion    \* bound: no operation commits past this version

ASSUME RolesAssumption == Admins \subseteq Users /\ Movers \subseteq Users
ASSUME OverlapAssumption == OverlappingApprovals \in BOOLEAN
ASSUME VersionAssumption == MaxVersion \in Nat \ {0}

VARIABLES header,       \* direction, origin, requester and review rules: fixed
          status,       \* BoxRequest.status
          exception,    \* the unresolved BoxRequestException, if any
          notes,        \* document types with a current document
          version,      \* BoxRequest.version
          candidate,    \* the row an approval in progress has loaded
          seen,         \* the version each user loaded last
          view          \* what that load showed (history, for the properties)

vars == <<header, status, exception, notes, version, candidate, seen, view>>

ActiveStatuses == {"submitted", "approved", "preparing", "ready_for_transport",
                   "in_transit", "awaiting_confirmation"}
ClosedStatuses == {"completed", "rejected", "cancelled"}
Status         == {"draft"} \union ActiveStatuses \union ClosedStatuses

DocumentType == {"delivery_note", "return_note"}

NoException == [kind |-> "none", resume |-> "none"]
Exception   == [kind : {"hold", "failed_delivery"}, resume : ActiveStatuses]

Header == [direction : {"inbound", "return"},
           origin    : {"workflow", "follow_up", "self_receipt"},
           requester : Users,
           document  : BOOLEAN,      \* receipt_document_required
           twoPerson : BOOLEAN]      \* quantity reaches the warehouse threshold

NoCandidate == [status |-> "none", version |-> 0]
Candidate   == [status : Status, version : 1..MaxVersion]

Snapshot == [status |-> status, exception |-> exception, notes |-> notes]

Snapshots == [status : Status, exception : Exception \union {NoException},
              notes : SUBSET DocumentType]

TypeOK ==
  /\ header \in Header
  /\ status \in Status
  /\ exception \in Exception \union {NoException}
  /\ notes \in SUBSET DocumentType
  /\ version \in 1..MaxVersion
  /\ candidate \in [Users -> Candidate \union {NoCandidate}]
  /\ seen \in [Users -> 0..MaxVersion]
  /\ view \in [Users -> Snapshots]

-----------------------------------------------------------------------------
\* The rows create_request, create_staged_receipt, create_completed_receipt
\* and _create_follow_up insert.
Created(h, s) ==
  \/ /\ h.origin = "workflow" /\ s = "submitted"
     /\ ~h.document /\ ~h.twoPerson
  \/ /\ h.origin = "self_receipt" /\ h.direction = "inbound"
     /\ s \in {"submitted", "completed"}
     /\ s = "completed" => ~h.document /\ ~h.twoPerson
  \/ /\ h.origin = "follow_up" /\ ~h.document /\ ~h.twoPerson
     /\ s = IF h.direction = "inbound" THEN "submitted" ELSE "draft"

Init ==
  /\ header \in Header /\ status \in Status /\ Created(header, status)
  /\ exception = NoException
  /\ notes = {}
  /\ version = 1
  /\ candidate = [u \in Users |-> NoCandidate]
  /\ seen = [u \in Users |-> 0]
  /\ view = [u \in Users |-> Snapshot]

-----------------------------------------------------------------------------
Coordinators == Admins \union Movers

Owns(u) == u \in Admins \/ u = header.requester

IsSelfReceipt == header.origin = "self_receipt"

\* A GET, or the body of a response: the user now holds the current version.
Load(u) ==
  /\ seen' = [seen EXCEPT ![u] = version]
  /\ view' = [view EXCEPT ![u] = Snapshot]
  /\ UNCHANGED <<header, status, exception, notes, version, candidate>>

\* No approval is between its load and its lock, unless such overlaps are on.
NoApprovalRunning ==
  OverlappingApprovals \/ \A u \in Users : candidate[u] = NoCandidate

\* The expected_version check, and the version every accepted operation writes.
Accepts(u) == NoApprovalRunning /\ seen[u] = version /\ version < MaxVersion

Commit == version' = version + 1 /\ UNCHANGED <<header, candidate, seen, view>>

NoOpenException == exception = NoException

\* Mutant: no lifecycle step looks for an open exception.
AdvanceAnyway(u, from, to) ==
  /\ Accepts(u) /\ u \in Coordinators
  /\ status = from /\ status' = to
  /\ Commit /\ UNCHANGED <<exception, notes>>

\* A lifecycle step of a coordinator that an open exception blocks.
Advance(u, from, to) ==
  /\ Accepts(u) /\ u \in Coordinators
  /\ NoOpenException
  /\ status = from /\ status' = to
  /\ Commit /\ UNCHANGED <<exception, notes>>

SubmitFollowUpDraft(u) ==
  /\ Accepts(u) /\ Owns(u)
  /\ status = "draft" /\ status' = "submitted"
  /\ Commit /\ UNCHANGED <<exception, notes>>

\* approve_request first loads the row without a lock, to tell a staged receipt
\* from a request.
LoadForApproval(u) ==
  /\ NoApprovalRunning /\ candidate[u] = NoCandidate
  /\ u \in Coordinators
  /\ candidate' = [candidate EXCEPT ![u] = [status |-> status, version |-> version]]
  /\ UNCHANGED <<header, status, exception, notes, version, seen, view>>

\* Under the lock, version and status are still those loaded: what is written
\* is the loaded version plus one.
CommitApproval(u, to) ==
  /\ candidate[u].status = "submitted" /\ candidate[u].version = seen[u]
  /\ seen[u] \in 1..(MaxVersion - 1)
  /\ status' = to
  /\ version' = seen[u] + 1
  /\ candidate' = [candidate EXCEPT ![u] = NoCandidate]
  /\ UNCHANGED <<header, exception, notes, seen, view>>

\* Neither approval nor rejection looks for an open exception.
ApproveRequest(u) ==
  /\ ~IsSelfReceipt
  /\ CommitApproval(u, "approved")

FinalizeStagedReceipt(u) ==
  /\ IsSelfReceipt /\ u \in Admins
  /\ header.twoPerson => u # header.requester
  /\ header.document => "delivery_note" \in notes
  /\ CommitApproval(u, "completed")

\* Any check fails, and the transaction is rolled back.
AbandonApproval(u) ==
  /\ candidate[u] # NoCandidate
  /\ candidate' = [candidate EXCEPT ![u] = NoCandidate]
  /\ UNCHANGED <<header, status, exception, notes, version, seen, view>>

RejectRequest(u) ==
  /\ Accepts(u)
  /\ IF IsSelfReceipt THEN u \in Admins ELSE u \in Coordinators
  /\ status = "submitted" /\ status' = "rejected"
  /\ Commit /\ UNCHANGED <<exception, notes>>

StartPreparation(u) == Advance(u, "approved", "preparing")

MarkReadyForTransport(u) == Advance(u, "preparing", "ready_for_transport")

RequiredNote ==
  IF header.direction = "inbound" THEN "delivery_note" ELSE "return_note"

StartTransit(u) ==
  /\ RequiredNote \in notes
  /\ Advance(u, "ready_for_transport", "in_transit")

\* Mutant: arrival is marked before the transport starts.
MarkAwaitingEarly(u) ==
  Advance(u, "ready_for_transport", "awaiting_confirmation")

MarkAwaitingConfirmation(u) ==
  Advance(u, "in_transit", "awaiting_confirmation")

CompleteRequest(u) ==
  /\ Accepts(u) /\ NoOpenException
  /\ status = "awaiting_confirmation"
  /\ IF header.direction = "inbound" THEN Owns(u) ELSE u \in Coordinators
  /\ status' = "completed"
  /\ Commit /\ UNCHANGED <<exception, notes>>

CancelRequest(u) ==
  /\ Accepts(u) /\ Owns(u)
  /\ NoOpenException
  /\ status \in {"submitted", "approved", "preparing", "ready_for_transport"}
  /\ status' = "cancelled"
  /\ Commit /\ UNCHANGED <<exception, notes>>

-----------------------------------------------------------------------------
(* Operational exceptions stay out of the lifecycle status.                *)

HoldRequest(u) ==
  /\ Accepts(u) /\ u \in Coordinators
  /\ NoOpenException
  /\ status \in ActiveStatuses
  /\ exception' = [kind |-> "hold", resume |-> status]
  /\ Commit /\ UNCHANGED <<status, notes>>

ResumeRequest(u) ==
  /\ Accepts(u) /\ u \in Coordinators
  /\ exception.kind = "hold"
  /\ exception.resume \in ActiveStatuses /\ exception.resume = status
  /\ exception' = NoException
  /\ Commit /\ UNCHANGED <<status, notes>>

\* The exception a reschedule records is resolved in the same transaction.
RescheduleRequest(u) ==
  /\ Accepts(u) /\ u \in Coordinators
  /\ NoOpenException
  /\ status \in ActiveStatuses
  /\ Commit /\ UNCHANGED <<status, exception, notes>>

ReportFailedDelivery(u) ==
  /\ Accepts(u) /\ u \in Coordinators
  /\ NoOpenException
  /\ status = "in_transit"
  /\ exception' = [kind |-> "failed_delivery", resume |-> "ready_for_transport"]
  /\ Commit /\ UNCHANGED <<status, notes>>

RetryTransport(u) ==
  /\ Accepts(u) /\ u \in Coordinators
  /\ exception.kind = "failed_delivery"
  /\ status = "in_transit" /\ exception.resume = "ready_for_transport"
  /\ exception' = NoException
  /\ status' = "ready_for_transport"
  /\ Commit /\ UNCHANGED notes

-----------------------------------------------------------------------------
\* Mutant: a new document does not move the version.
UploadDocumentSilently(u, type) ==
  /\ Accepts(u) /\ u \in Coordinators
  /\ status \in ActiveStatuses \ {"submitted"}
  /\ notes' = notes \union {type}
  /\ UNCHANGED <<header, status, exception, version, candidate, seen, view>>

UploadDocument(u, type) ==
  /\ Accepts(u)
  /\ \/ /\ IsSelfReceipt /\ status \in {"submitted", "completed"} /\ Owns(u)
     \/ /\ u \in Coordinators
        /\ status \in ActiveStatuses \ {"submitted"}
  /\ IsSelfReceipt => type = "delivery_note"
  /\ notes' = notes \union {type}
  /\ Commit /\ UNCHANGED <<status, exception>>

UpdateCoordination(u) ==
  /\ Accepts(u) /\ u \in Coordinators
  /\ status \notin ClosedStatuses
  /\ Commit /\ UNCHANGED <<status, exception, notes>>

AddComment(u) ==
  /\ Accepts(u)
  /\ Commit /\ UNCHANGED <<status, exception, notes>>

UploadAttachment(u) ==
  /\ Accepts(u) /\ (u \in Coordinators \/ u = header.requester)
  /\ Commit /\ UNCHANGED <<status, exception, notes>>

\* Discrepancies are recorded by complete_request, their photos come later.
UploadDiscrepancyPhoto(u) ==
  /\ Accepts(u) /\ (u \in Coordinators \/ u = header.requester)
  /\ status = "completed" /\ ~IsSelfReceipt
  /\ Commit /\ UNCHANGED <<status, exception, notes>>

\* An admin override of a reserved box: no expected version, any active status.
CancelActiveReturn ==
  /\ Admins # {} /\ NoApprovalRunning /\ version < MaxVersion
  /\ header.direction = "return" /\ status \in ActiveStatuses
  /\ status' = "cancelled"
  /\ Commit /\ UNCHANGED <<exception, notes>>

-----------------------------------------------------------------------------
Operation(u) ==
  \/ SubmitFollowUpDraft(u)
  \/ LoadForApproval(u) \/ ApproveRequest(u) \/ FinalizeStagedReceipt(u)
  \/ AbandonApproval(u)
  \/ RejectRequest(u) \/ StartPreparation(u) \/ MarkReadyForTransport(u)
  \/ StartTransit(u) \/ MarkAwaitingConfirmation(u) \/ CompleteRequest(u)
  \/ CancelRequest(u) \/ HoldRequest(u) \/ ResumeRequest(u)
  \/ RescheduleRequest(u) \/ ReportFailedDelivery(u) \/ RetryTransport(u)
  \/ \E type \in DocumentType : UploadDocument(u, type)
  \/ UpdateCoordination(u) \/ AddComment(u) \/ UploadAttachment(u)
  \/ UploadDiscrepancyPhoto(u)

Next == \/ \E u \in Users : Load(u) \/ Operation(u)
        \/ CancelActiveReturn

Spec == Init /\ [][Next]_vars

-----------------------------------------------------------------------------
(* Properties.                                                             *)

\* Optimistic concurrency: a user whose loaded version is the row's version
\* is looking at the row's status, exception and documents, so no operation
\* changes any of them without moving the version every caller must quote.
VersionIdentifiesState ==
  \A u \in Users : seen[u] = version => view[u] = Snapshot

\* A recorded exception can be resolved: a failed transport is still in
\* transit, and a hold placed after approval still names the request's own
\* status, which is what resume_request insists on.
ExceptionIsRecoverable ==
  status \in ActiveStatuses =>
    /\ exception.kind = "failed_delivery" => status = "in_transit"
    /\ exception.kind = "hold" /\ exception.resume # "submitted" =>
         exception.resume = status

\* A request that was ever put in transport carries the document its direction
\* requires, through retries, holds and completion.
TransportIsDocumented ==
  status \in {"in_transit", "awaiting_confirmation"}
    \/ (status = "completed" /\ ~IsSelfReceipt) => RequiredNote \in notes

\* While a transport failure is open the request can only be retried or be
\* cancelled by an admin override: it is never marked arrived or completed.
FailureNeedsRetry ==
  [][exception.kind = "failed_delivery" =>
       status' \in {status, "ready_for_transport", "cancelled"}]_vars

\* The lifecycle implements the phases the rest of the tracker relies on.
PhaseOf(s) ==
  CASE s = "draft" -> "draft"
    [] s \in {"submitted", "approved", "preparing", "ready_for_transport"} -> "open"
    [] s = "in_transit" -> "moving"
    [] s = "awaiting_confirmation" -> "awaiting"
    [] s = "completed" -> "completed"
    [] s \in {"rejected", "cancelled"} -> "closed"

Phases == INSTANCE RequestPhases WITH phase <- PhaseOf(status)

PhaseRefinement == Phases!Spec

\* USER_GUIDE_EL.md says of a hold that the lifecycle steps after it are
\* blocked: while an exception is open the status moves only with the
\* exception's own resolution, or by the admin override, which cancels.
HoldBlocksLifecycle ==
  [][exception # NoException /\ status' # status =>
       exception' = NoException \/ status' = "cancelled"]_vars

\* approve_request's own refusal, "only submitted requests can be approved": a
\* request that was cancelled, rejected or moved on is never approved again.
OnlySubmittedApproved ==
  [][status' # status /\ status' = "approved" => status = "submitted"]_vars

=============================================================================
