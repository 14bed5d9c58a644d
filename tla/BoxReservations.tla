-------------------------- MODULE BoxReservations --------------------------
(***************************************************************************)
(* Boxes, warehouses and the requests that move boxes between them: which  *)
(* request reserves which box, what completing a request does to the boxes *)
(* and to the unresolved quantity, and what may happen to a box or to a    *)
(* warehouse while a request needs it.                                     *)
(*                                                                         *)
(* A step is one committed operation.  Request statuses are reduced to the *)
(* phases of RequestPhases, which RequestLifecycle implements; roles and   *)
(* warehouse access are left out (somebody is always allowed to do what    *)
(* the rules allow), as are lots, pallets, files, contents and texts.      *)
(***************************************************************************)
EXTENDS Naturals, FiniteSets

CONSTANTS Boxes,        \* box identities: (lot, box number)
          Warehouses,
          NoWarehouse,  \* the warehouse of an absent box, the target of an inbound
          Capacity,     \* max_capacity, which finalising a receipt enforces
          MaxQuantity,  \* bound on the quantity of an inbound request
          MaxRequests   \* bound on the requests ever created

ASSUME BoxesAssumption == IsFiniteSet(Boxes)
ASSUME WarehousesAssumption == NoWarehouse \notin Warehouses
ASSUME BoundsAssumption == /\ Capacity \in Nat
                           /\ MaxQuantity \in Nat \ {0}
                           /\ MaxRequests \in Nat \ {0}

VARIABLES box,          \* the Box row of every identity
          request,      \* the BoxRequest rows with their items; 0 is no request
          active        \* Warehouse.is_active

vars == <<box, request, active>>

Phases == INSTANCE RequestPhases WITH phase <- "draft"

ActivePhases   == Phases!ActivePhases
BlockingPhases == Phases!BlockingPhases

Requests == 1..MaxRequests

-----------------------------------------------------------------------------
(* Rows.                                                                   *)

BoxStatus == {"quarantined", "received", "processing", "incomplete",
              "ready_to_return", "returned"}

OccupyingStatuses == BoxStatus \ {"returned"}

Absent == [status |-> "absent", warehouse |-> NoWarehouse, archived |-> FALSE]

BoxRow == [status : BoxStatus, warehouse : Warehouses, archived : BOOLEAN]

\* A self receipt may restore archived boxes only if it was staged to.
Origin == {"workflow", "follow_up", "receipt", "restoring_receipt"}

RequestRow == [phase     : Phases!Phase,
               direction : {"inbound", "return"},
               origin    : Origin,
               warehouse : Warehouses,
               target    : Warehouses \union {NoWarehouse},
               quantity  : Nat \ {0},
               items     : SUBSET Boxes,
               source    : 0..MaxRequests,    \* source_inbound_request_id
               root      : Requests,          \* root_request_id
               actual    : Nat]               \* actual_received_quantity

NoRequest == [phase |-> "none", direction |-> "inbound", origin |-> "workflow",
              warehouse |-> NoWarehouse, target |-> NoWarehouse, quantity |-> 0,
              items |-> {}, source |-> 0, root |-> 0, actual |-> 0]

TypeOK ==
  /\ box \in [Boxes -> BoxRow \union {Absent}]
  /\ request \in [Requests -> RequestRow \union {NoRequest}]
  /\ active \in [Warehouses -> BOOLEAN]

-----------------------------------------------------------------------------
(* Reading the rows.                                                       *)

Stored(b) == box[b] # Absent
Live(b)   == Stored(b) /\ ~box[b].archived

IsReceipt(i) == request[i].origin \in {"receipt", "restoring_receipt"}

IsActive(i) == request[i].phase \in ActivePhases

\* The items of a receipt under review name boxes that need not exist yet.
Links(i, b) == b \in request[i].items /\ ~(IsReceipt(i) /\ request[i].phase # "completed")

Linked(b) == \E i \in Requests : Links(i, b)

Reserves(i, b) ==
  request[i].direction = "return" /\ IsActive(i) /\ b \in request[i].items

Reserved(b) == \E i \in Requests : Reserves(i, b)

\* An inbound request boxes can be returned from.
IsSource(i) == /\ request[i].direction = "inbound" /\ request[i].phase = "completed"
               /\ active[request[i].warehouse]

\* Mutant: only the reservations of the same source inbound count.
CandidatesOfSource(i) ==
  {b \in request[i].items :
     /\ Live(b) /\ box[b].status = "ready_to_return"
     /\ box[b].warehouse = request[i].warehouse
     /\ ~ \E j \in Requests : Reserves(j, b) /\ request[j].source = i}

\* The allocated boxes are those of returns from the same warehouse.
Candidates(i) ==
  {b \in request[i].items :
     /\ Live(b) /\ box[b].status = "ready_to_return"
     /\ box[b].warehouse = request[i].warehouse
     /\ ~ \E j \in Requests : Reserves(j, b) /\ request[j].warehouse = request[i].warehouse}

\* The next id of the sequence.
IsFresh(i) == /\ request[i] = NoRequest
              /\ \A j \in Requests : j < i => request[j] # NoRequest

Occupied(w) == Cardinality({b \in Boxes : /\ Live(b) /\ box[b].warehouse = w
                                          /\ box[b].status \in OccupyingStatuses})

-----------------------------------------------------------------------------
(* Requests, up to their completion.                                       *)

\* Boxes of the releases before requests existed are named by none; what became
\* of their status and place since is reachable from received.
Legacy == [status : {"received"}, warehouse : Warehouses, archived : {FALSE}]

Init ==
  /\ box \in [Boxes -> Legacy \union {Absent}]
  /\ request = [i \in Requests |-> NoRequest]
  /\ active = [w \in Warehouses |-> TRUE]

CreateInbound(i, w, q) ==
  /\ IsFresh(i) /\ active[w]
  /\ request' = [request EXCEPT ![i] =
       [phase |-> "open", direction |-> "inbound", origin |-> "workflow",
        warehouse |-> w, target |-> NoWarehouse, quantity |-> q,
        items |-> {}, source |-> 0, root |-> i, actual |-> 0]]
  /\ UNCHANGED <<box, active>>

\* The target may be the source warehouse itself.
CreateReturn(i, src, target, selected) ==
  /\ IsFresh(i) /\ IsSource(src) /\ active[target]
  /\ selected # {} /\ selected \subseteq Candidates(src)
  /\ request' = [request EXCEPT ![i] =
       [phase |-> "open", direction |-> "return", origin |-> "workflow",
        warehouse |-> request[src].warehouse, target |-> target,
        quantity |-> Cardinality(selected), items |-> selected,
        source |-> src, root |-> i, actual |-> 0]]
  /\ UNCHANGED <<box, active>>

\* The lifecycle steps that leave boxes alone; a receipt under review is only
\* finalised or rejected or cancelled.
MovePhase(i, from, to) ==
  /\ request[i].phase = from
  /\ request' = [request EXCEPT ![i].phase = to]
  /\ UNCHANGED <<box, active>>

StartTransit(i)   == ~IsReceipt(i) /\ MovePhase(i, "open", "moving")
RetryTransport(i) == MovePhase(i, "moving", "open")
MarkArrived(i)    == MovePhase(i, "moving", "awaiting")
Withdraw(i)       == MovePhase(i, "open", "closed")

\* Mutant: the follow-up asks for the whole quantity again.
CompletionAskingAll(i, items, got, rest, phase) ==
  IF rest = 0
    THEN request' = [request EXCEPT ![i].phase = "completed", ![i].items = items,
                                    ![i].actual = got]
    ELSE \E k \in Requests :
           /\ IsFresh(k)
           /\ request' = [request EXCEPT
                ![i].phase = "completed", ![i].items = items, ![i].actual = got,
                ![k] = [phase |-> phase, direction |-> request[i].direction,
                        origin |-> "follow_up", warehouse |-> request[i].warehouse,
                        target |-> request[i].target, quantity |-> request[i].quantity,
                        items |-> {}, source |-> request[i].source,
                        root |-> request[i].root, actual |-> 0]]

\* The completed row, and the follow-up that carries the rest, if any is left.
Completion(i, items, got, rest, phase) ==
  IF rest = 0
    THEN request' = [request EXCEPT ![i].phase = "completed", ![i].items = items,
                                    ![i].actual = got]
    ELSE \E k \in Requests :
           /\ IsFresh(k)
           /\ request' = [request EXCEPT
                ![i].phase = "completed", ![i].items = items, ![i].actual = got,
                ![k] = [phase |-> phase, direction |-> request[i].direction,
                        origin |-> "follow_up", warehouse |-> request[i].warehouse,
                        target |-> request[i].target, quantity |-> rest,
                        items |-> {}, source |-> request[i].source,
                        root |-> request[i].root, actual |-> 0]]

\* Boxes received at a warehouse, in a status.
Received(boxes, w, s) ==
  [b \in Boxes |-> IF b \in boxes THEN [status |-> s, warehouse |-> w, archived |-> FALSE]
                                  ELSE box[b]]

\* Every row of the mapping creates a box or relocates one received elsewhere;
\* any other row blocks the whole completion.  More may arrive than was
\* ordered, and a shortage becomes a submitted backorder.
CompleteInbound(i, boxes) ==
  /\ request[i].phase = "awaiting" /\ request[i].direction = "inbound"
  /\ request[i].items = {} /\ active[request[i].warehouse]
  /\ \A b \in boxes :
       Stored(b) => /\ Live(b) /\ ~Reserved(b)
                    /\ box[b].status = "received"
                    /\ box[b].warehouse # request[i].warehouse
  /\ box' = Received(boxes, request[i].warehouse, "received")
  /\ LET got == Cardinality(boxes) IN
       Completion(i, boxes, got,
                  IF got < request[i].quantity THEN request[i].quantity - got ELSE 0,
                  "open")
  /\ UNCHANGED active

\* The collected boxes end at the target, returned; the rest are released and
\* their number becomes a draft that waits for a new selection.
CompleteReturn(i, collected) ==
  /\ request[i].phase = "awaiting" /\ request[i].direction = "return"
  /\ request[i].target # NoWarehouse /\ active[request[i].target]
  /\ Cardinality(request[i].items) = request[i].quantity
  /\ collected # {} /\ collected \subseteq request[i].items
  /\ \A b \in collected : /\ Live(b) /\ box[b].status = "ready_to_return"
                          /\ box[b].warehouse = request[i].warehouse
  /\ active[request[i].warehouse]
  /\ box' = Received(collected, request[i].target, "returned")
  /\ Completion(i, request[i].items, Cardinality(collected),
                Cardinality(request[i].items \ collected), "draft")
  /\ UNCHANGED active

\* Mutant: a draft may be submitted with any number of boxes.
SubmitAnyNumber(i, selected) ==
  /\ request[i].phase = "draft" /\ selected # {}
  /\ IsSource(request[i].source) /\ selected \subseteq Candidates(request[i].source)
  /\ request' = [request EXCEPT ![i].phase = "open", ![i].items = selected]
  /\ UNCHANGED <<box, active>>

SubmitFollowUpDraft(i, selected) ==
  /\ request[i].phase = "draft"
  /\ Cardinality(selected) = request[i].quantity
  /\ IsSource(request[i].source) /\ selected \subseteq Candidates(request[i].source)
  /\ request' = [request EXCEPT ![i].phase = "open", ![i].items = selected]
  /\ UNCHANGED <<box, active>>

-----------------------------------------------------------------------------
(* Receipts: boxes somebody enters or imports without a request.           *)

\* A manual entry or an import that needs no review.  Only an import restores.
CompletedReceipt(i, w, boxes) ==
  /\ IsFresh(i) /\ active[w] /\ boxes # {}
  /\ \A b \in boxes : Stored(b) => box[b].archived /\ ~Reserved(b)
  /\ box' = Received(boxes, w, "received")
  /\ request' = [request EXCEPT ![i] =
       [phase |-> "completed", direction |-> "inbound", origin |-> "receipt",
        warehouse |-> w, target |-> NoWarehouse, quantity |-> Cardinality(boxes),
        items |-> boxes, source |-> 0, root |-> i, actual |-> Cardinality(boxes)]]
  /\ UNCHANGED active

StageReceipt(i, w, boxes, origin) ==
  /\ IsFresh(i) /\ active[w] /\ boxes # {}
  /\ request' = [request EXCEPT ![i] =
       [phase |-> "open", direction |-> "inbound", origin |-> origin,
        warehouse |-> w, target |-> NoWarehouse, quantity |-> Cardinality(boxes),
        items |-> boxes, source |-> 0, root |-> i, actual |-> 0]]
  /\ UNCHANGED <<box, active>>

FinalizeReceipt(i, status) ==
  /\ IsReceipt(i) /\ request[i].phase = "open"
  /\ active[request[i].warehouse]
  /\ \A b \in request[i].items :
       Stored(b) => /\ box[b].archived /\ ~Reserved(b)
                    /\ request[i].origin = "restoring_receipt"
  /\ Occupied(request[i].warehouse) + Cardinality(request[i].items) <= Capacity
  /\ box' = Received(request[i].items, request[i].warehouse, status)
  /\ request' = [request EXCEPT ![i].phase = "completed",
                                ![i].actual = Cardinality(request[i].items)]
  /\ UNCHANGED active

-----------------------------------------------------------------------------
(* Boxes.                                                                  *)

NextStatuses(s) ==
  CASE s = "quarantined"     -> {"received"}
    [] s = "received"        -> {"processing"}
    [] s = "processing"      -> {"incomplete"}
    [] s = "incomplete"      -> {"ready_to_return"}
    [] s = "ready_to_return" -> {"returned"}
    [] s = "returned"        -> {}

\* Mutant: every request that names the box is closed, finished ones too.
OverriddenEverywhere(b) ==
  [i \in Requests |-> IF Links(i, b) THEN [request[i] EXCEPT !.phase = "closed"]
                                     ELSE request[i]]

\* The active returns of a box, cancelled by an admin override.
Overridden(b) ==
  [i \in Requests |-> IF Reserves(i, b) THEN [request[i] EXCEPT !.phase = "closed"]
                                        ELSE request[i]]

\* Mutant: only a move looks for a reservation.
UpdateBoxUnguarded(b, w, s) ==
  /\ Live(b) /\ active[box[b].warehouse]
  /\ w # box[b].warehouse => active[w] /\ ~Linked(b) /\ box[b].status # "returned"
  /\ w # box[b].warehouse => ~Reserved(b)
  /\ s # box[b].status => s \in NextStatuses(box[b].status)
  /\ box' = [box EXCEPT ![b].warehouse = w, ![b].status = s]
  /\ UNCHANGED <<request, active>>

\* An edit of the warehouse, the status or both (a move to the present one and
\* a change to the present one are no change).
UpdateBox(b, w, s) ==
  /\ Live(b) /\ active[box[b].warehouse]
  /\ w # box[b].warehouse => active[w] /\ ~Linked(b) /\ box[b].status # "returned"
  /\ <<w, s>> # <<box[b].warehouse, box[b].status>> => ~Reserved(b)
  /\ s # box[b].status => s \in NextStatuses(box[b].status)
  /\ box' = [box EXCEPT ![b].warehouse = w, ![b].status = s]
  /\ UNCHANGED <<request, active>>

ForceUpdateBox(b, w, s) ==
  /\ Live(b) /\ active[box[b].warehouse] /\ active[w]
  /\ <<w, s>> # <<box[b].warehouse, box[b].status>>
  /\ box' = [box EXCEPT ![b].warehouse = w, ![b].status = s]
  /\ request' = Overridden(b)
  /\ UNCHANGED active

\* Mutant: a box some request names is deleted too.
DeleteLinkedBox(b) ==
  /\ Stored(b) /\ active[box[b].warehouse] /\ ~Reserved(b)
  /\ \/ box' = [box EXCEPT ![b] = Absent]
     \/ box' = [box EXCEPT ![b].archived = TRUE]
  /\ UNCHANGED <<request, active>>

\* A box no request names is deleted, or archived when it has files or a pallet.
DeleteBox(b) ==
  /\ Stored(b) /\ active[box[b].warehouse] /\ ~Linked(b)
  /\ \/ box' = [box EXCEPT ![b] = Absent]
     \/ box' = [box EXCEPT ![b].archived = TRUE]
  /\ UNCHANGED <<request, active>>

ForceDeleteBox(b) ==
  /\ Stored(b) /\ active[box[b].warehouse] /\ Linked(b)
  /\ box' = [box EXCEPT ![b].archived = TRUE]
  /\ request' = Overridden(b)
  /\ UNCHANGED active

\* A forced file operation on a reserved box cancels its reservations only.
ForceFileChange(b) ==
  /\ Live(b) /\ Reserved(b)
  /\ request' = Overridden(b)
  /\ UNCHANGED <<box, active>>

-----------------------------------------------------------------------------
(* Warehouses.                                                             *)

\* Mutant: only the sources of requests count.
ArchiveTarget(w) ==
  /\ active[w] /\ \E v \in Warehouses \ {w} : active[v]
  /\ \A b \in Boxes : Live(b) /\ box[b].warehouse = w =>
                        box[b].status \notin OccupyingStatuses
  /\ \A i \in Requests : request[i].phase \in BlockingPhases =>
                           w # request[i].warehouse
  /\ active' = [active EXCEPT ![w] = FALSE]
  /\ UNCHANGED <<box, request>>

ArchiveWarehouse(w) ==
  /\ active[w] /\ \E v \in Warehouses \ {w} : active[v]
  /\ \A b \in Boxes : Live(b) /\ box[b].warehouse = w =>
                        box[b].status \notin OccupyingStatuses
  /\ \A i \in Requests : request[i].phase \in BlockingPhases =>
                           w \notin {request[i].warehouse, request[i].target}
  /\ active' = [active EXCEPT ![w] = FALSE]
  /\ UNCHANGED <<box, request>>

RestoreWarehouse(w) ==
  /\ ~active[w]
  /\ active' = [active EXCEPT ![w] = TRUE]
  /\ UNCHANGED <<box, request>>

-----------------------------------------------------------------------------
RequestStep(i) ==
  \/ \E w \in Warehouses, q \in 1..MaxQuantity : CreateInbound(i, w, q)
  \/ \E src \in Requests, t \in Warehouses, S \in SUBSET Boxes : CreateReturn(i, src, t, S)
  \/ StartTransit(i) \/ RetryTransport(i) \/ MarkArrived(i) \/ Withdraw(i)
  \/ \E S \in SUBSET Boxes : \/ CompleteInbound(i, S)
                             \/ CompleteReturn(i, S)
                             \/ SubmitFollowUpDraft(i, S)
  \/ \E w \in Warehouses, S \in SUBSET Boxes :
       \/ CompletedReceipt(i, w, S)
       \/ \E o \in {"receipt", "restoring_receipt"} : StageReceipt(i, w, S, o)
  \/ \E s \in {"received", "quarantined"} : FinalizeReceipt(i, s)

BoxStep(b) ==
  \/ \E w \in Warehouses, s \in BoxStatus : UpdateBox(b, w, s) \/ ForceUpdateBox(b, w, s)
  \/ DeleteBox(b) \/ ForceDeleteBox(b) \/ ForceFileChange(b)

Next == \/ \E i \in Requests : RequestStep(i)
        \/ \E b \in Boxes : BoxStep(b)
        \/ \E w \in Warehouses : ArchiveWarehouse(w) \/ RestoreWarehouse(w)

Spec == Init /\ [][Next]_vars

-----------------------------------------------------------------------------
(* Properties.                                                             *)

\* A box is reserved by at most one active return, whichever inbound request it
\* was selected through and whether it was selected at creation or as a
\* follow-up (the allocated boxes _return_candidate_stmt leaves out).
ReservationExclusive ==
  \A b \in Boxes, i, j \in Requests : Reserves(i, b) /\ Reserves(j, b) => i = j

\* A reserved box stays collectable until its return is over: present,
\* unarchived, ready_to_return, in the warehouse the return collects from.
\* complete_request refuses a return of which one collected box is not.
ReservedBoxesReady ==
  \A b \in Boxes, i \in Requests : Reserves(i, b) =>
    box[b] = [status |-> "ready_to_return", warehouse |-> request[i].warehouse,
              archived |-> FALSE]

\* An archived warehouse is quiet: no request that is not over names it, as
\* source or as target, and no box occupies it.
ArchivedWarehouseQuiet ==
  \A w \in Warehouses : ~active[w] =>
    /\ \A i \in Requests : request[i].phase \in BlockingPhases =>
                              w \notin {request[i].warehouse, request[i].target}
    /\ Occupied(w) = 0

\* What an active return has allocated is exactly its quantity, and all of it
\* came in through the completed inbound request it names.
AllocationComplete ==
  \A i \in Requests : request[i].direction = "return" /\ IsActive(i) =>
    LET src == request[i].source IN
      /\ Cardinality(request[i].items) = request[i].quantity
      /\ IsSource(src) /\ request[i].items \subseteq request[src].items

\* A box named by any request, finished or not, is never hard-deleted.
LinkedBoxesKept == \A b \in Boxes : Linked(b) => Stored(b)

Sum(f, S) ==
  LET sum[T \in SUBSET S] ==
        IF T = {} THEN 0
        ELSE LET x == CHOOSE y \in T : TRUE IN f[x] + sum[T \ {x}]
  IN sum[S]

\* What a request of a family settles: what it completed of its own quantity,
\* or its whole quantity while it is not completed (cancelled ones included).
Settled(i) ==
  IF request[i].phase = "completed" /\ request[i].actual < request[i].quantity
    THEN request[i].actual ELSE request[i].quantity

\* Partial completions neither lose nor double boxes: along a chain of
\* follow-ups the settled and the open quantities add up to the quantity first
\* requested.
QuantityConserved ==
  \A r \in Requests : request[r].root = r =>
    LET family == {i \in Requests : request[i].root = r} IN
      Sum([i \in family |-> Settled(i)], family) = request[r].quantity

\* Whoever moves a reserved box, changes its status or archives it ends the
\* reservation in the same step.
ReservedBoxesGuarded ==
  [][\A b \in Boxes, i \in Requests :
       Reserves(i, b) /\ box'[b] # box[b] => ~Reserves(i, b)']_vars

\* Every request follows the phases RequestLifecycle is shown to implement.
Row(i) == INSTANCE RequestPhases WITH phase <- request[i].phase

RequestsFollowPhases ==
  [][\A i \in Requests :
       /\ request[i] = NoRequest /\ request'[i] # NoRequest => Row(i)!Init'
       /\ request[i] # NoRequest => [Row(i)!Next]_(request[i].phase)]_vars

=============================================================================
