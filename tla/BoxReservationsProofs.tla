----------------------- MODULE BoxReservationsProofs -----------------------
(***************************************************************************)
(* Proofs about BoxReservations: type correctness; that a box is never     *)
(* reserved twice and stays collectable while it is reserved; and, from    *)
(* what a step may do to one row, that archived warehouses stay quiet,     *)
(* referenced boxes are kept, returns hold what they ask for, and every    *)
(* request follows RequestPhases; and that partial completions conserve    *)
(* the quantity of a family of requests.                                   *)
(***************************************************************************)
EXTENDS BoxReservations, FiniteSetTheorems, WellFoundedInduction, TLAPS

LEMMA BoxSets ==
  ASSUME NEW S \in SUBSET Boxes
  PROVE  /\ Cardinality(S) \in Nat
         /\ S # {} => Cardinality(S) \in Nat \ {0}
<1>1. IsFiniteSet(S)
  BY FS_Subset, BoxesAssumption
<1> QED BY <1>1, FS_CardinalityType, FS_EmptySet

\* Replacing rows by rows keeps the table typed.
LEMMA RowsTyped ==
  ASSUME request \in [Requests -> RequestRow \union {NoRequest}],
         NEW i \in Requests, NEW r \in RequestRow
  PROVE  [request EXCEPT ![i] = r] \in [Requests -> RequestRow \union {NoRequest}]
OBVIOUS

LEMMA ReceivedTyped ==
  ASSUME TypeOK, NEW S \in SUBSET Boxes, NEW w \in Warehouses, NEW s \in BoxStatus
  PROVE  Received(S, w, s) \in [Boxes -> BoxRow \union {Absent}]
BY DEF TypeOK, Received, BoxRow

LEMMA OverriddenTyped ==
  ASSUME TypeOK, NEW b \in Boxes
  PROVE  Overridden(b) \in [Requests -> RequestRow \union {NoRequest}]
<1> SUFFICES ASSUME NEW i \in Requests, Reserves(i, b)
             PROVE  [request[i] EXCEPT !.phase = "closed"] \in RequestRow
  BY DEF Overridden, TypeOK
<1>1. request[i] # NoRequest
  BY DEF Reserves, NoRequest
<1>2. request[i] \in RequestRow
  BY <1>1 DEF TypeOK
<1> QED BY <1>2 DEF RequestRow, Phases!Phase

LEMMA MovePhaseTyped ==
  ASSUME TypeOK, NEW i \in Requests, NEW from, NEW to \in Phases!Phase,
         from # "none", MovePhase(i, from, to)
  PROVE  TypeOK'
<1>1. request[i] \in RequestRow
  BY DEF TypeOK, MovePhase, NoRequest
<1>2. [request[i] EXCEPT !.phase = to] \in RequestRow
  BY <1>1 DEF RequestRow
<1>3. request' = [request EXCEPT ![i] = [request[i] EXCEPT !.phase = to]]
  BY DEF MovePhase
<1> QED BY <1>2, <1>3 DEF TypeOK, MovePhase

LEMMA CompletionTyped ==
  ASSUME TypeOK, NEW i \in Requests, request[i] \in RequestRow,
         NEW items \in SUBSET Boxes, NEW got \in Nat, NEW rest \in Nat,
         NEW phase \in Phases!Phase, Completion(i, items, got, rest, phase)
  PROVE  request' \in [Requests -> RequestRow \union {NoRequest}]
<1> DEFINE done == [request[i] EXCEPT !.phase = "completed", !.items = items,
                                      !.actual = got]
<1>1. done \in RequestRow
  BY DEF RequestRow, Phases!Phase
<1>2. CASE rest = 0
  <2>1. request' = [request EXCEPT ![i] = done]
    BY <1>2 DEF Completion, TypeOK
  <2> QED BY <1>1, <2>1 DEF TypeOK
<1>3. CASE rest # 0
  <2> DEFINE next == [phase |-> phase, direction |-> request[i].direction,
                      origin |-> "follow_up", warehouse |-> request[i].warehouse,
                      target |-> request[i].target, quantity |-> rest,
                      items |-> {}, source |-> request[i].source,
                      root |-> request[i].root, actual |-> 0]
  <2>1. PICK k \in Requests : /\ IsFresh(k)
                              /\ request' = [request EXCEPT ![i] = done, ![k] = next]
    <3>1. PICK k \in Requests :
            /\ IsFresh(k)
            /\ request' = [request EXCEPT
                 ![i].phase = "completed", ![i].items = items, ![i].actual = got,
                 ![k] = next]
      BY <1>3 DEF Completion
    <3>2. request' = [request EXCEPT ![i] = done, ![k] = next]
      BY <3>1 DEF TypeOK
    <3> QED BY <3>1, <3>2
  <2>2. next \in RequestRow
    BY <1>3 DEF RequestRow, Origin
  <2> QED BY <1>1, <2>1, <2>2 DEF TypeOK
<1> QED BY <1>2, <1>3

-----------------------------------------------------------------------------
LEMMA InitTyped == Init => TypeOK
BY DEF Init, TypeOK, Legacy, BoxRow, BoxStatus

LEMMA RequestStepTyped ==
  ASSUME TypeOK, NEW i \in Requests, RequestStep(i)
  PROVE  TypeOK'
<1> USE DEF TypeOK
<1>1. ASSUME NEW w \in Warehouses, NEW q \in 1..MaxQuantity, CreateInbound(i, w, q)
      PROVE  TypeOK'
  <2> DEFINE r == [phase |-> "open", direction |-> "inbound", origin |-> "workflow",
                   warehouse |-> w, target |-> NoWarehouse, quantity |-> q,
                   items |-> {}, source |-> 0, root |-> i, actual |-> 0]
  <2>1. r \in RequestRow
    BY BoundsAssumption DEF RequestRow, Origin, Phases!Phase, Requests
  <2> QED BY <1>1, <2>1, RowsTyped DEF CreateInbound
<1>2. ASSUME NEW src \in Requests, NEW t \in Warehouses, NEW S \in SUBSET Boxes,
             CreateReturn(i, src, t, S)
      PROVE  TypeOK'
  <2> DEFINE r == [phase |-> "open", direction |-> "return", origin |-> "workflow",
                   warehouse |-> request[src].warehouse, target |-> t,
                   quantity |-> Cardinality(S), items |-> S,
                   source |-> src, root |-> i, actual |-> 0]
  <2>1. request[src] \in RequestRow
    BY <1>2 DEF CreateReturn, IsSource, NoRequest
  <2>2. Cardinality(S) \in Nat \ {0}
    BY <1>2, BoxSets DEF CreateReturn
  <2>3. r \in RequestRow
    BY <2>1, <2>2, BoundsAssumption DEF RequestRow, Origin, Phases!Phase, Requests
  <2> QED BY <1>2, <2>3, RowsTyped DEF CreateReturn
<1>3. ASSUME StartTransit(i) \/ RetryTransport(i) \/ MarkArrived(i) \/ Withdraw(i)
      PROVE  TypeOK'
  BY <1>3, MovePhaseTyped
  DEF StartTransit, RetryTransport, MarkArrived, Withdraw, Phases!Phase
<1>4. ASSUME NEW S \in SUBSET Boxes, CompleteInbound(i, S)
      PROVE  TypeOK'
  <2> DEFINE got  == Cardinality(S)
             rest == IF got < request[i].quantity THEN request[i].quantity - got ELSE 0
  <2>1. request[i] \in RequestRow
    BY <1>4 DEF CompleteInbound, NoRequest
  <2>2. got \in Nat /\ rest \in Nat
    BY <2>1, BoxSets DEF RequestRow
  <2>3. request' \in [Requests -> RequestRow \union {NoRequest}]
    BY <1>4, <2>1, <2>2, CompletionTyped DEF CompleteInbound, Phases!Phase
  <2>4. box' \in [Boxes -> BoxRow \union {Absent}]
    BY <1>4, <2>1, ReceivedTyped DEF CompleteInbound, RequestRow, BoxStatus
  <2> QED BY <1>4, <2>3, <2>4 DEF CompleteInbound
<1>5. ASSUME NEW S \in SUBSET Boxes, CompleteReturn(i, S)
      PROVE  TypeOK'
  <2>1. request[i] \in RequestRow
    BY <1>5 DEF CompleteReturn, NoRequest
  <2>2. /\ request[i].items \in SUBSET Boxes
        /\ Cardinality(S) \in Nat
        /\ Cardinality(request[i].items \ S) \in Nat
    BY <2>1, BoxSets DEF RequestRow
  <2>3. request' \in [Requests -> RequestRow \union {NoRequest}]
    BY <1>5, <2>1, <2>2, CompletionTyped DEF CompleteReturn, Phases!Phase
  <2>4. request[i].target \in Warehouses
    BY <1>5, <2>1, WarehousesAssumption DEF CompleteReturn, RequestRow
  <2>5. box' \in [Boxes -> BoxRow \union {Absent}]
    BY <1>5, <2>4, ReceivedTyped DEF CompleteReturn, BoxStatus
  <2> QED BY <1>5, <2>3, <2>5 DEF CompleteReturn
<1>6. ASSUME NEW S \in SUBSET Boxes, SubmitFollowUpDraft(i, S)
      PROVE  TypeOK'
  <2> DEFINE r == [request[i] EXCEPT !.phase = "open", !.items = S]
  <2>1. request[i] \in RequestRow
    BY <1>6 DEF SubmitFollowUpDraft, NoRequest
  <2>2. r \in RequestRow
    BY <2>1 DEF RequestRow, Phases!Phase
  <2>3. request' = [request EXCEPT ![i] = r]
    BY <1>6 DEF SubmitFollowUpDraft
  <2> QED BY <1>6, <2>2, <2>3, RowsTyped DEF SubmitFollowUpDraft
<1>7. ASSUME NEW w \in Warehouses, NEW S \in SUBSET Boxes, CompletedReceipt(i, w, S)
      PROVE  TypeOK'
  <2> DEFINE r == [phase |-> "completed", direction |-> "inbound", origin |-> "receipt",
                   warehouse |-> w, target |-> NoWarehouse, quantity |-> Cardinality(S),
                   items |-> S, source |-> 0, root |-> i, actual |-> Cardinality(S)]
  <2>1. Cardinality(S) \in Nat \ {0}
    BY <1>7, BoxSets DEF CompletedReceipt
  <2>2. r \in RequestRow
    BY <2>1, BoundsAssumption DEF RequestRow, Origin, Phases!Phase, Requests
  <2>3. box' \in [Boxes -> BoxRow \union {Absent}]
    BY <1>7, ReceivedTyped DEF CompletedReceipt, BoxStatus
  <2> QED BY <1>7, <2>2, <2>3, RowsTyped DEF CompletedReceipt
<1>8. ASSUME NEW w \in Warehouses, NEW S \in SUBSET Boxes,
             NEW o \in {"receipt", "restoring_receipt"}, StageReceipt(i, w, S, o)
      PROVE  TypeOK'
  <2> DEFINE r == [phase |-> "open", direction |-> "inbound", origin |-> o,
                   warehouse |-> w, target |-> NoWarehouse, quantity |-> Cardinality(S),
                   items |-> S, source |-> 0, root |-> i, actual |-> 0]
  <2>1. Cardinality(S) \in Nat \ {0}
    BY <1>8, BoxSets DEF StageReceipt
  <2>2. r \in RequestRow
    BY <2>1, BoundsAssumption DEF RequestRow, Origin, Phases!Phase, Requests
  <2> QED BY <1>8, <2>2, RowsTyped DEF StageReceipt
<1>9. ASSUME NEW s \in {"received", "quarantined"}, FinalizeReceipt(i, s)
      PROVE  TypeOK'
  <2> DEFINE r == [request[i] EXCEPT !.phase = "completed",
                                     !.actual = Cardinality(request[i].items)]
  <2>1. request[i] \in RequestRow
    BY <1>9 DEF FinalizeReceipt, NoRequest
  <2>2. Cardinality(request[i].items) \in Nat
    BY <2>1, BoxSets DEF RequestRow
  <2>3. r \in RequestRow
    BY <2>1, <2>2 DEF RequestRow, Phases!Phase
  <2>4. request' = [request EXCEPT ![i] = r]
    BY <1>9 DEF FinalizeReceipt
  <2>5. box' \in [Boxes -> BoxRow \union {Absent}]
    BY <1>9, <2>1, ReceivedTyped DEF FinalizeReceipt, RequestRow, BoxStatus
  <2> QED BY <1>9, <2>3, <2>4, <2>5, RowsTyped DEF FinalizeReceipt
<1> QED
  BY <1>1, <1>2, <1>3, <1>4, <1>5, <1>6, <1>7, <1>8, <1>9 DEF RequestStep

LEMMA BoxStepTyped ==
  ASSUME TypeOK, NEW b \in Boxes, BoxStep(b)
  PROVE  TypeOK'
<1>1. ASSUME NEW r \in BoxRow, box' = [box EXCEPT ![b] = r]
      PROVE  box' \in [Boxes -> BoxRow \union {Absent}]
  BY <1>1 DEF TypeOK
<1>2. ASSUME Stored(b)
      PROVE  /\ box[b] \in BoxRow
             /\ \A w \in Warehouses, s \in BoxStatus :
                  [box[b] EXCEPT !.warehouse = w, !.status = s] \in BoxRow
             /\ [box[b] EXCEPT !.archived = TRUE] \in BoxRow
  BY <1>2 DEF TypeOK, Stored, BoxRow
<1>3. ASSUME NEW w \in Warehouses, NEW s \in BoxStatus,
             UpdateBox(b, w, s) \/ ForceUpdateBox(b, w, s)
      PROVE  TypeOK'
  <2>1. box' = [box EXCEPT ![b] = [box[b] EXCEPT !.warehouse = w, !.status = s]]
    BY <1>3 DEF UpdateBox, ForceUpdateBox, TypeOK
  <2>2. box' \in [Boxes -> BoxRow \union {Absent}]
    BY <1>1, <1>2, <1>3, <2>1 DEF UpdateBox, ForceUpdateBox, Live
  <2> QED BY <1>3, <2>2, OverriddenTyped DEF UpdateBox, ForceUpdateBox, TypeOK
<1>4. ASSUME DeleteBox(b) \/ ForceDeleteBox(b)
      PROVE  TypeOK'
  <2>1. \/ box' = [box EXCEPT ![b] = Absent]
        \/ box' = [box EXCEPT ![b] = [box[b] EXCEPT !.archived = TRUE]]
    BY <1>4 DEF DeleteBox, ForceDeleteBox
  <2>2. [box EXCEPT ![b] = Absent] \in [Boxes -> BoxRow \union {Absent}]
    BY DEF TypeOK
  <2>3. box' \in [Boxes -> BoxRow \union {Absent}]
    BY <1>1, <1>2, <1>4, <2>1, <2>2 DEF DeleteBox, ForceDeleteBox
  <2> QED BY <1>4, <2>3, OverriddenTyped DEF DeleteBox, ForceDeleteBox, TypeOK
<1>5. ASSUME ForceFileChange(b)
      PROVE  TypeOK'
  BY <1>5, OverriddenTyped DEF ForceFileChange, TypeOK
<1> QED BY <1>3, <1>4, <1>5 DEF BoxStep

\* Type correctness: every operation leaves well-formed rows, whatever the
\* boxes, the warehouses and the number of requests.
THEOREM TypeCorrect == Spec => []TypeOK
<1>1. TypeOK /\ [Next]_vars => TypeOK'
  <2> SUFFICES ASSUME TypeOK, [Next]_vars PROVE TypeOK'
    OBVIOUS
  <2>1. ASSUME NEW w \in Warehouses, ArchiveWarehouse(w) \/ RestoreWarehouse(w)
        PROVE  TypeOK'
    BY <2>1 DEF TypeOK, ArchiveWarehouse, RestoreWarehouse
  <2>2. CASE UNCHANGED vars
    BY <2>2 DEF TypeOK, vars
  <2> QED BY <2>1, <2>2, RequestStepTyped, BoxStepTyped DEF Next
<1> QED BY <1>1, InitTyped, PTL DEF Spec

-----------------------------------------------------------------------------
(* Reservations.  Neither property is inductive alone: a new selection      *)
(* skips the boxes allocated to returns from the warehouse of its source,  *)
(* so it is disjoint from every reservation only because a reserved box is *)
(* in the warehouse its request collects from; and a box selected again by *)
(* a follow-up is in that warehouse only because a return keeps the        *)
(* warehouse of the inbound request it names.                              *)

SourceKept ==
  \A i \in Requests : request[i].direction = "return" =>
    /\ request[i].source \in Requests
    /\ request[request[i].source] # NoRequest
    /\ request[request[i].source].warehouse = request[i].warehouse
    /\ ~IsReceipt(i)

IInv == TypeOK /\ ReservationExclusive /\ ReservedBoxesReady /\ SourceKept

\* What ReservedBoxesReady says of one reserved box, field by field.
LEMMA ReservedBox ==
  ASSUME IInv, NEW i \in Requests, NEW b \in Boxes, Reserves(i, b)
  PROVE  /\ Stored(b) /\ Reserved(b)
         /\ box[b].status = "ready_to_return"
         /\ box[b].warehouse = request[i].warehouse
         /\ box[b].archived = FALSE
<1>1. box[b] = [status |-> "ready_to_return", warehouse |-> request[i].warehouse,
                archived |-> FALSE]
  BY DEF IInv, ReservedBoxesReady
<1>2. Reserved(b)
  BY DEF Reserved
<1> QED BY <1>1, <1>2 DEF Stored, Absent

\* A step that reserves nothing new and touches no box that stays reserved.
NoNewReservations ==
  \A i \in Requests, b \in Boxes : Reserves(i, b)' =>
    /\ Reserves(i, b)
    /\ request'[i].warehouse = request[i].warehouse
    /\ box'[b] = box[b]

\* What stays reserved, or becomes so, is not touched by the step.
ReservedUntouched ==
  \A i \in Requests, b \in Boxes : Reserves(i, b)' => box'[b] = box[b]

LEMMA ReservationsFramed ==
  ASSUME IInv, NoNewReservations
  PROVE  ReservationExclusive' /\ ReservedBoxesReady' /\ ReservedUntouched
BY DEF ReservedUntouched, IInv, NoNewReservations, ReservationExclusive, ReservedBoxesReady

\* A step that keeps what identifies a request, and gives a new return the
\* warehouse of its source.
RowsKept ==
  \A i \in Requests :
    /\ request[i] # NoRequest =>
         /\ request'[i] # NoRequest
         /\ request'[i].direction = request[i].direction
         /\ request'[i].origin = request[i].origin
         /\ request'[i].source = request[i].source
         /\ request'[i].warehouse = request[i].warehouse
    /\ request[i] = NoRequest /\ request'[i].direction = "return" =>
         /\ request'[i].source \in Requests
         /\ request[request'[i].source] # NoRequest
         /\ request[request'[i].source].warehouse = request'[i].warehouse
         /\ request'[i].origin \notin {"receipt", "restoring_receipt"}

LEMMA SourcesFramed ==
  ASSUME IInv, RowsKept
  PROVE  SourceKept'
BY DEF IInv, SourceKept, RowsKept, IsReceipt

LEMMA MovePhaseKeeps ==
  ASSUME IInv, NEW i \in Requests, NEW from \in Phases!Phase, NEW to \in Phases!Phase,
         MovePhase(i, from, to), to \in ActivePhases => from \in ActivePhases
  PROVE  NoNewReservations /\ RowsKept
<1> USE DEF IInv, TypeOK, MovePhase
<1>1. NoNewReservations
  BY DEF NoNewReservations, Reserves, IsActive
<1>2. RowsKept
  BY DEF RowsKept, NoRequest, Phases!Phase
<1> QED BY <1>1, <1>2

LEMMA OverriddenKeeps ==
  ASSUME IInv, NEW b \in Boxes, request' = Overridden(b),
         \A c \in Boxes \ {b} : box'[c] = box[c]
  PROVE  NoNewReservations /\ RowsKept
<1>1. NoNewReservations
  <2> SUFFICES ASSUME NEW i \in Requests, NEW c \in Boxes, Reserves(i, c)'
               PROVE  /\ Reserves(i, c)
                      /\ request'[i].warehouse = request[i].warehouse
                      /\ box'[c] = box[c]
    BY DEF NoNewReservations
  <2>1. ~Reserves(i, b)
    BY DEF Overridden, Reserves, IsActive, ActivePhases, Phases!ActivePhases, IInv, TypeOK
  <2>2. request'[i] = request[i]
    BY <2>1 DEF Overridden
  <2>3. Reserves(i, c)
    BY <2>2 DEF Reserves, IsActive
  <2> QED BY <2>1, <2>2, <2>3
<1>2. RowsKept
  BY DEF RowsKept, Overridden, NoRequest, Reserves, IInv, TypeOK
<1> QED BY <1>1, <1>2

LEMMA CompletionKeeps ==
  ASSUME IInv, NEW i \in Requests, request[i] # NoRequest, NEW items, NEW got, NEW rest,
         NEW phase, Completion(i, items, got, rest, phase),
         request[i].direction = "return" => phase = "draft"
  PROVE  /\ RowsKept
         /\ \A j \in Requests, b \in Boxes : Reserves(j, b)' =>
              j # i /\ Reserves(j, b) /\ request'[j] = request[j]
<1> USE DEF IInv, TypeOK
<1> DEFINE done == [request[i] EXCEPT !.phase = "completed", !.items = items,
                                      !.actual = got]
           next == [phase |-> phase, direction |-> request[i].direction,
                    origin |-> "follow_up", warehouse |-> request[i].warehouse,
                    target |-> request[i].target, quantity |-> rest,
                    items |-> {}, source |-> request[i].source,
                    root |-> request[i].root, actual |-> 0]
<1>1. \/ request' = [request EXCEPT ![i] = done]
      \/ \E k \in Requests : IsFresh(k) /\ request' = [request EXCEPT ![i] = done, ![k] = next]
  BY DEF Completion
<1>2. request[i] \in RequestRow
  OBVIOUS
<1>3. /\ done.phase = "completed"
      /\ done.direction = request[i].direction
      /\ done.origin = request[i].origin
      /\ done.source = request[i].source
      /\ done.warehouse = request[i].warehouse
  BY <1>2 DEF RequestRow
<1>4. done # NoRequest
  BY <1>3 DEF NoRequest
<1>5. CASE request' = [request EXCEPT ![i] = done]
  <2>1. RowsKept
    BY <1>3, <1>4, <1>5 DEF RowsKept, NoRequest
  <2>2. ASSUME NEW j \in Requests, NEW b \in Boxes, Reserves(j, b)'
        PROVE  j # i /\ Reserves(j, b) /\ request'[j] = request[j]
    BY <1>3, <1>5, <2>2 DEF Reserves, IsActive, ActivePhases, Phases!ActivePhases
  <2> QED BY <2>1, <2>2
<1>6. ASSUME NEW k \in Requests, IsFresh(k),
             request' = [request EXCEPT ![i] = done, ![k] = next]
      PROVE  /\ RowsKept
             /\ \A j \in Requests, b \in Boxes : Reserves(j, b)' =>
                  j # i /\ Reserves(j, b) /\ request'[j] = request[j]
  <2>1. k # i /\ request[k] = NoRequest
    BY <1>6 DEF IsFresh
  <2>2. request'[k] = next /\ request'[i] = done
    BY <1>6, <2>1
  <2>3. \A j \in Requests \ {i, k} : request'[j] = request[j]
    BY <1>6
  <2>4. RowsKept
    <3> DEFINE Kept(j) ==
          /\ request[j] # NoRequest =>
               /\ request'[j] # NoRequest
               /\ request'[j].direction = request[j].direction
               /\ request'[j].origin = request[j].origin
               /\ request'[j].source = request[j].source
               /\ request'[j].warehouse = request[j].warehouse
          /\ request[j] = NoRequest /\ request'[j].direction = "return" =>
               /\ request'[j].source \in Requests
               /\ request[request'[j].source] # NoRequest
               /\ request[request'[j].source].warehouse = request'[j].warehouse
               /\ request'[j].origin \notin {"receipt", "restoring_receipt"}
    <3>1. Kept(i)
      BY <1>3, <1>4, <2>2
    <3>2. Kept(k)
      <4>1. /\ request'[k].direction = request[i].direction
            /\ request'[k].origin = "follow_up"
            /\ request'[k].source = request[i].source
            /\ request'[k].warehouse = request[i].warehouse
        BY <2>2
      <4> QED BY <2>1, <4>1 DEF SourceKept
    <3>3. \A j \in Requests \ {i, k} : Kept(j)
      BY <2>3 DEF NoRequest
    <3> QED BY <3>1, <3>2, <3>3 DEF RowsKept
  <2>5. ASSUME NEW j \in Requests, NEW b \in Boxes, Reserves(j, b)'
        PROVE  j # i /\ Reserves(j, b) /\ request'[j] = request[j]
    <3>1. j # i
      BY <1>3, <2>2, <2>5 DEF Reserves, IsActive, ActivePhases, Phases!ActivePhases
    <3>2. j # k
      BY <2>2, <2>5 DEF Reserves, IsActive
    <3> QED BY <2>3, <2>5, <3>1, <3>2 DEF Reserves, IsActive
  <2> QED BY <2>4, <2>5
<1> QED BY <1>1, <1>5, <1>6

\* A return that selects candidates of its source: newly created, or a draft.
LEMMA SelectionKeeps ==
  ASSUME IInv, NEW i \in Requests, ~IsActive(i), NEW src \in Requests,
         NEW S \in SUBSET Candidates(src), request[src] # NoRequest, box' = box,
         \A j \in Requests \ {i} : request'[j] = request[j],
         request'[i].items = S, request'[i].warehouse = request[src].warehouse
  PROVE  ReservationExclusive' /\ ReservedBoxesReady' /\ ReservedUntouched
<1>1. ASSUME NEW j \in Requests, j # i, NEW b \in Boxes
      PROVE  Reserves(j, b)' = Reserves(j, b)
  BY <1>1 DEF Reserves, IsActive
<1>2. ASSUME NEW b \in Boxes, Reserves(i, b)'
      PROVE  /\ b \in Candidates(src)
             /\ box[b] = [status |-> "ready_to_return",
                          warehouse |-> request[src].warehouse, archived |-> FALSE]
  <2>1. b \in Candidates(src)
    BY <1>2 DEF Reserves
  <2>2. box[b] \in BoxRow
    BY <2>1 DEF Candidates, Live, Stored, IInv, TypeOK
  <2> QED BY <2>1, <2>2 DEF Candidates, Live, BoxRow
<1>3. ASSUME NEW j \in Requests, j # i, NEW b \in Boxes, Reserves(j, b)', Reserves(i, b)'
      PROVE  FALSE
  <2>1. Reserves(j, b) /\ box[b].warehouse = request[j].warehouse
    BY <1>1, <1>3, ReservedBox
  <2>2. request[j].warehouse = request[src].warehouse
    BY <1>2, <1>3, <2>1
  <2> QED BY <1>2, <1>3, <2>1, <2>2 DEF Candidates
<1>4. ReservationExclusive'
  BY <1>1, <1>3 DEF IInv, ReservationExclusive
<1>5. ReservedBoxesReady'
  BY <1>1, <1>2 DEF IInv, ReservedBoxesReady
<1> QED BY <1>4, <1>5 DEF ReservedUntouched

LEMMA RequestStepKeeps ==
  ASSUME IInv, NEW i \in Requests, RequestStep(i)
  PROVE  IInv' /\ ReservedUntouched
<1> USE DEF IInv
<1>0. TypeOK'
  BY RequestStepTyped
<1>1. ASSUME NEW w \in Warehouses, NEW q \in 1..MaxQuantity, CreateInbound(i, w, q)
      PROVE  NoNewReservations /\ RowsKept
  <2>1. request[i] = NoRequest /\ box' = box
    BY <1>1 DEF CreateInbound, IsFresh
  <2>2. request'[i].direction = "inbound" /\ \A j \in Requests \ {i} : request'[j] = request[j]
    BY <1>1 DEF CreateInbound, TypeOK
  <2> QED BY <2>1, <2>2 DEF NoNewReservations, RowsKept, Reserves, IsActive, NoRequest
<1>2. ASSUME NEW src \in Requests, NEW t \in Warehouses, NEW S \in SUBSET Boxes,
             CreateReturn(i, src, t, S)
      PROVE  ReservationExclusive' /\ ReservedBoxesReady' /\ ReservedUntouched /\ RowsKept
  <2>1. /\ request[i] = NoRequest /\ ~IsActive(i) /\ box' = box
        /\ request[src] # NoRequest /\ S \in SUBSET Candidates(src)
    BY <1>2 DEF CreateReturn, IsFresh, IsSource, NoRequest, IsActive, ActivePhases,
                Phases!ActivePhases
  <2>2. /\ request'[i].items = S /\ request'[i].source = src
        /\ request'[i].origin = "workflow"
        /\ request'[i].warehouse = request[src].warehouse
        /\ \A j \in Requests \ {i} : request'[j] = request[j]
    BY <1>2 DEF CreateReturn, TypeOK
  <2>3. ReservationExclusive' /\ ReservedBoxesReady' /\ ReservedUntouched
    BY <2>1, <2>2, SelectionKeeps
  <2>4. RowsKept
    BY <2>1, <2>2 DEF RowsKept, NoRequest
  <2> QED BY <2>3, <2>4
<1>3. ASSUME StartTransit(i) \/ RetryTransport(i) \/ MarkArrived(i) \/ Withdraw(i)
      PROVE  NoNewReservations /\ RowsKept
  BY <1>3, MovePhaseKeeps
  DEF StartTransit, RetryTransport, MarkArrived, Withdraw, ActivePhases,
      Phases!ActivePhases, Phases!Phase
<1>4. ASSUME NEW S \in SUBSET Boxes, CompleteInbound(i, S)
      PROVE  NoNewReservations /\ RowsKept
  <2>1. request[i] # NoRequest /\ request[i].direction = "inbound"
    BY <1>4 DEF CompleteInbound, NoRequest
  <2>2. /\ RowsKept
        /\ \A j \in Requests, b \in Boxes : Reserves(j, b)' =>
             j # i /\ Reserves(j, b) /\ request'[j] = request[j]
    BY <1>4, <2>1, CompletionKeeps DEF CompleteInbound
  <2>3. ASSUME NEW j \in Requests, NEW b \in Boxes, Reserves(j, b)
        PROVE  box'[b] = box[b]
    <3>1. Stored(b) /\ Reserved(b)
      BY <2>3, ReservedBox
    <3>2. b \notin S
      BY <1>4, <3>1 DEF CompleteInbound
    <3> QED BY <1>4, <3>2 DEF CompleteInbound, Received
  <2> QED BY <2>2, <2>3 DEF NoNewReservations
<1>5. ASSUME NEW S \in SUBSET Boxes, CompleteReturn(i, S)
      PROVE  NoNewReservations /\ RowsKept
  <2>1. request[i] # NoRequest
    BY <1>5 DEF CompleteReturn, NoRequest
  <2>2. /\ RowsKept
        /\ \A j \in Requests, b \in Boxes : Reserves(j, b)' =>
             j # i /\ Reserves(j, b) /\ request'[j] = request[j]
    BY <1>5, <2>1, CompletionKeeps DEF CompleteReturn
  <2>3. \A b \in S : Reserves(i, b)
    BY <1>5 DEF CompleteReturn, Reserves, IsActive, ActivePhases, Phases!ActivePhases
  <2>4. ASSUME NEW j \in Requests, j # i, NEW b \in Boxes, Reserves(j, b)
        PROVE  box'[b] = box[b]
    <3>1. b \notin S
      BY <2>3, <2>4 DEF ReservationExclusive
    <3> QED BY <1>5, <3>1 DEF CompleteReturn, Received
  <2> QED BY <2>2, <2>4 DEF NoNewReservations
<1>6. ASSUME NEW S \in SUBSET Boxes, SubmitFollowUpDraft(i, S)
      PROVE  ReservationExclusive' /\ ReservedBoxesReady' /\ ReservedUntouched /\ RowsKept
  <2> DEFINE src == request[i].source
  <2>1. /\ request[i].phase = "draft" /\ request[i] \in RequestRow /\ box' = box
        /\ IsSource(src) /\ S \in SUBSET Candidates(src)
    BY <1>6 DEF SubmitFollowUpDraft, TypeOK, NoRequest
  <2>2. /\ request'[i].items = S
        /\ request'[i].direction = request[i].direction
        /\ request'[i].origin = request[i].origin
        /\ request'[i].source = request[i].source
        /\ request'[i].warehouse = request[i].warehouse
        /\ request'[i].phase = "open"
        /\ \A j \in Requests \ {i} : request'[j] = request[j]
    BY <1>6, <2>1 DEF SubmitFollowUpDraft, TypeOK, RequestRow
  <2>3. RowsKept
    BY <2>1, <2>2 DEF RowsKept, NoRequest
  <2>4. CASE request[i].direction = "return"
    <3>1. /\ src \in Requests /\ request[src] # NoRequest
          /\ request[src].warehouse = request[i].warehouse
      BY <2>4 DEF SourceKept
    <3>2. ~IsActive(i)
      BY <2>1 DEF IsActive, ActivePhases, Phases!ActivePhases
    <3> HIDE DEF src
    <3>3. ReservationExclusive' /\ ReservedBoxesReady' /\ ReservedUntouched
      BY <2>1, <2>2, <3>1, <3>2, SelectionKeeps
    <3> QED BY <2>3, <3>3
  <2>5. CASE request[i].direction # "return"
    <3>1. NoNewReservations
      BY <2>1, <2>2, <2>5 DEF NoNewReservations, Reserves, IsActive
    <3> QED BY <2>3, <3>1, ReservationsFramed
  <2> QED BY <2>4, <2>5
<1>7. ASSUME NEW w \in Warehouses, NEW S \in SUBSET Boxes, CompletedReceipt(i, w, S)
      PROVE  NoNewReservations /\ RowsKept
  <2>1. request[i] = NoRequest
    BY <1>7 DEF CompletedReceipt, IsFresh
  <2>2. request'[i].direction = "inbound" /\ \A j \in Requests \ {i} : request'[j] = request[j]
    BY <1>7 DEF CompletedReceipt, TypeOK
  <2>3. ASSUME NEW j \in Requests, NEW b \in Boxes, Reserves(j, b)
        PROVE  box'[b] = box[b]
    <3>1. Stored(b) /\ ~box[b].archived
      BY <2>3, ReservedBox
    <3>2. b \notin S
      BY <1>7, <3>1 DEF CompletedReceipt
    <3> QED BY <1>7, <3>2 DEF CompletedReceipt, Received
  <2> QED BY <2>1, <2>2, <2>3 DEF NoNewReservations, RowsKept, Reserves, IsActive, NoRequest
<1>8. ASSUME NEW w \in Warehouses, NEW S \in SUBSET Boxes,
             NEW o \in {"receipt", "restoring_receipt"}, StageReceipt(i, w, S, o)
      PROVE  NoNewReservations /\ RowsKept
  <2>1. request[i] = NoRequest /\ box' = box
    BY <1>8 DEF StageReceipt, IsFresh
  <2>2. request'[i].direction = "inbound" /\ \A j \in Requests \ {i} : request'[j] = request[j]
    BY <1>8 DEF StageReceipt, TypeOK
  <2> QED BY <2>1, <2>2 DEF NoNewReservations, RowsKept, Reserves, IsActive, NoRequest
<1>9. ASSUME NEW s \in {"received", "quarantined"}, FinalizeReceipt(i, s)
      PROVE  NoNewReservations /\ RowsKept
  <2>1. request[i] \in RequestRow
    BY <1>9 DEF FinalizeReceipt, TypeOK, NoRequest
  <2>2. /\ request'[i].direction = request[i].direction
        /\ request'[i].origin = request[i].origin
        /\ request'[i].source = request[i].source
        /\ request'[i].warehouse = request[i].warehouse
        /\ request'[i].phase = "completed"
        /\ \A j \in Requests \ {i} : request'[j] = request[j]
    BY <1>9, <2>1 DEF FinalizeReceipt, TypeOK, RequestRow
  <2>3. ASSUME NEW j \in Requests, NEW b \in Boxes, Reserves(j, b)
        PROVE  box'[b] = box[b]
    <3>1. Stored(b) /\ ~box[b].archived
      BY <2>3, ReservedBox
    <3>2. b \notin request[i].items
      BY <1>9, <3>1 DEF FinalizeReceipt
    <3> QED BY <1>9, <3>2 DEF FinalizeReceipt, Received
  <2>4. NoNewReservations
    BY <2>2, <2>3 DEF NoNewReservations, Reserves, IsActive, ActivePhases, Phases!ActivePhases
  <2>5. RowsKept
    BY <2>2 DEF RowsKept, NoRequest
  <2> QED BY <2>4, <2>5
<1>10. ReservationExclusive' /\ ReservedBoxesReady' /\ ReservedUntouched /\ RowsKept
  BY <1>1, <1>2, <1>3, <1>4, <1>5, <1>6, <1>7, <1>8, <1>9, ReservationsFramed DEF RequestStep
<1> QED BY <1>0, <1>10, SourcesFramed

LEMMA BoxStepKeeps ==
  ASSUME IInv, NEW b \in Boxes, BoxStep(b)
  PROVE  IInv' /\ ReservedUntouched
<1> USE DEF IInv
<1>0. TypeOK'
  BY BoxStepTyped
<1>1. ASSUME request' = request,
             \A c \in Boxes : Reserved(c) => box'[c] = box[c]
      PROVE  NoNewReservations /\ RowsKept
  BY <1>1 DEF NoNewReservations, RowsKept, Reserved, Reserves, IsActive, NoRequest
<1>2. ASSUME NEW w \in Warehouses, NEW s \in BoxStatus, UpdateBox(b, w, s)
      PROVE  NoNewReservations /\ RowsKept
  <2>1. ASSUME NEW c \in Boxes, Reserved(c)
        PROVE  box'[c] = box[c]
    <3>1. CASE c # b
      BY <1>2, <3>1 DEF UpdateBox, TypeOK
    <3>2. CASE c = b
      <4>1. w = box[b].warehouse /\ s = box[b].status
        BY <1>2, <2>1, <3>2 DEF UpdateBox
      <4>2. box[b] \in BoxRow
        BY <1>2 DEF UpdateBox, Live, Stored, TypeOK
      <4> QED BY <1>2, <3>2, <4>1, <4>2 DEF UpdateBox, TypeOK, BoxRow
    <3> QED BY <3>1, <3>2
  <2> QED BY <1>1, <1>2, <2>1 DEF UpdateBox
<1>3. ASSUME NEW w \in Warehouses, NEW s \in BoxStatus, ForceUpdateBox(b, w, s)
      PROVE  NoNewReservations /\ RowsKept
  BY <1>3, OverriddenKeeps DEF ForceUpdateBox, TypeOK
<1>4. ASSUME DeleteBox(b)
      PROVE  NoNewReservations /\ RowsKept
  <2>1. ASSUME NEW c \in Boxes, Reserved(c)
        PROVE  box'[c] = box[c]
    <3>1. c # b
      <4>1. PICK i \in Requests : Reserves(i, c)
        BY <2>1 DEF Reserved
      <4>2. Links(i, c) \/ IsReceipt(i)
        BY <4>1 DEF Reserves, Links
      <4>3. ~IsReceipt(i)
        BY <4>1 DEF Reserves, SourceKept
      <4> QED BY <1>4, <4>2, <4>3 DEF DeleteBox, Linked
    <3> QED BY <1>4, <3>1 DEF DeleteBox, TypeOK
  <2> QED BY <1>1, <1>4, <2>1 DEF DeleteBox
<1>5. ASSUME ForceDeleteBox(b)
      PROVE  NoNewReservations /\ RowsKept
  BY <1>5, OverriddenKeeps DEF ForceDeleteBox, TypeOK
<1>6. ASSUME ForceFileChange(b)
      PROVE  NoNewReservations /\ RowsKept
  BY <1>6, OverriddenKeeps DEF ForceFileChange
<1> QED
  BY <1>0, <1>2, <1>3, <1>4, <1>5, <1>6, ReservationsFramed, SourcesFramed DEF BoxStep

LEMMA StepKeeps ==
  ASSUME IInv, [Next]_vars
  PROVE  IInv' /\ ReservedUntouched
<1>1. CASE UNCHANGED <<box, request>> /\ active' \in [Warehouses -> BOOLEAN]
  <2>1. TypeOK' /\ NoNewReservations /\ RowsKept
    BY <1>1 DEF IInv, TypeOK, NoNewReservations, RowsKept, Reserves, IsActive, NoRequest
  <2> QED BY <2>1, ReservationsFramed, SourcesFramed DEF IInv
<1>2. ASSUME NEW w \in Warehouses, ArchiveWarehouse(w) \/ RestoreWarehouse(w)
      PROVE  UNCHANGED <<box, request>> /\ active' \in [Warehouses -> BOOLEAN]
  BY <1>2 DEF IInv, TypeOK, ArchiveWarehouse, RestoreWarehouse
<1>3. CASE UNCHANGED vars
  BY <1>1, <1>3 DEF vars, IInv, TypeOK
<1> QED BY <1>1, <1>2, <1>3, RequestStepKeeps, BoxStepKeeps DEF Next

\* No box is ever allocated to two active returns, for any number of boxes,
\* warehouses and requests: selecting boxes at creation, selecting again after
\* a partial collection, overriding, restoring and relocating all keep it.
THEOREM ReservationsExclusive == Spec => [](ReservationExclusive /\ ReservedBoxesReady)
<1>1. Init => IInv
  BY InitTyped DEF Init, IInv, ReservationExclusive, ReservedBoxesReady, SourceKept,
                   Reserves, NoRequest
<1>2. IInv /\ [Next]_vars => IInv'
  BY StepKeeps
<1>3. IInv => ReservationExclusive /\ ReservedBoxesReady
  BY DEF IInv
<1> QED BY <1>1, <1>2, <1>3, PTL DEF Spec

\* A box allocated to an active return stays where the return collects it:
\* ready to return, not archived, in the warehouse of the request, whatever
\* operations follow the reservation.
THEOREM ReservedStayReady == Spec => []ReservedBoxesReady
  BY ReservationsExclusive, PTL

\* Whatever moves, changes or archives a reserved box ends its reservation in
\* the same transaction.
THEOREM ReservationsGuarded == Spec => ReservedBoxesGuarded
<1>1. Init => IInv
  BY InitTyped DEF Init, IInv, ReservationExclusive, ReservedBoxesReady, SourceKept,
                   Reserves, NoRequest
<1>2. IInv /\ [Next]_vars => IInv'
  BY StepKeeps
<1>3. IInv /\ [Next]_vars =>
        [\A b \in Boxes, i \in Requests :
           Reserves(i, b) /\ box'[b] # box[b] => ~Reserves(i, b)']_vars
  BY StepKeeps DEF ReservedUntouched
<1> QED BY <1>1, <1>2, <1>3, PTL DEF Spec, ReservedBoxesGuarded

-----------------------------------------------------------------------------
(* The effect of a step on one row.  Every operation is reduced once to the *)
(* shapes below; what follows no longer speaks of operations.              *)

\* What identifies a request, and what it asks for.
SameRequest(i) ==
  /\ request'[i].direction = request[i].direction
  /\ request'[i].origin = request[i].origin
  /\ request'[i].warehouse = request[i].warehouse
  /\ request'[i].target = request[i].target
  /\ request'[i].quantity = request[i].quantity
  /\ request'[i].source = request[i].source

PhaseMoved(i) ==
  /\ SameRequest(i) /\ request'[i].items = request[i].items
  /\ <<request[i].phase, request'[i].phase>> \in
       {<<"open", "moving">>, <<"moving", "open">>, <<"moving", "awaiting">>,
        <<"open", "closed">>, <<"moving", "closed">>, <<"awaiting", "closed">>}

Finished(i) ==
  /\ SameRequest(i)
  /\ request[i].phase \in {"open", "awaiting"} /\ request'[i].phase = "completed"
  /\ \A b \in request'[i].items : Links(i, b) \/ Stored(b)'

Selection(i, src) ==
  /\ IsSource(src) /\ request'[i].phase = "open"
  /\ request'[i].items \subseteq Candidates(src)
  /\ Cardinality(request'[i].items) = request'[i].quantity

Selected(i) ==
  SameRequest(i) /\ request[i].phase = "draft" /\ Selection(i, request[i].source)

NewInbound(i) ==
  /\ request'[i].direction = "inbound" /\ request'[i].phase \in {"open", "completed"}
  /\ active[request'[i].warehouse] /\ request'[i].target = NoWarehouse
  /\ \A b \in Boxes : Links(i, b)' => Stored(b)'

NewReturn(i) ==
  /\ \E src \in Requests :
       /\ Selection(i, src) /\ request'[i].source = src
       /\ request'[i].warehouse = request[src].warehouse
  /\ active[request'[i].warehouse] /\ active[request'[i].target]

FollowUp(i, k) ==
  /\ request[k].phase = "awaiting" /\ request'[i].items = {}
  /\ request'[i].direction = request[k].direction
  /\ request'[i].warehouse = request[k].warehouse
  /\ request'[i].target = request[k].target
  /\ request'[i].source = request[k].source
  /\ request'[i].phase = IF request[k].direction = "return" THEN "draft" ELSE "open"

Created(i) ==
  /\ request[i] = NoRequest /\ request'[i] # NoRequest
  /\ NewInbound(i) \/ NewReturn(i) \/ \E k \in Requests : FollowUp(i, k)

\* All that a step does to a row of requests ...
RowEffect(i) ==
  \/ request'[i] = request[i]
  \/ request[i] # NoRequest /\ (PhaseMoved(i) \/ Finished(i) \/ Selected(i))
  \/ Created(i)

\* ... and to a box.
BoxEffect(b) ==
  \/ box'[b] = box[b]
  \/ box'[b] = Absent /\ ~Linked(b)
  \/ /\ Stored(b)'
     /\ Live(b)' => box'[b].status = "returned" \/ active[box'[b].warehouse]

Effects == (\A i \in Requests : RowEffect(i)) /\ (\A b \in Boxes : BoxEffect(b))

-----------------------------------------------------------------------------
LEMMA ReceivedEffect ==
  ASSUME TypeOK, NEW S \in SUBSET Boxes, NEW w \in Warehouses, NEW s \in BoxStatus,
         s = "returned" \/ active[w], box' = Received(S, w, s)
  PROVE  /\ \A b \in Boxes : BoxEffect(b)
         /\ \A b \in S : Stored(b)'
<1>1. ASSUME NEW b \in S
      PROVE  box'[b] = [status |-> s, warehouse |-> w, archived |-> FALSE]
  BY DEF Received
<1>2. ASSUME NEW b \in Boxes \ S
      PROVE  box'[b] = box[b]
  BY DEF Received
<1>3. \A b \in S : Stored(b)'
  BY <1>1 DEF Stored, Absent, BoxStatus
<1>4. ASSUME NEW b \in S
      PROVE  BoxEffect(b)
  BY <1>1, <1>3 DEF BoxEffect
<1> QED BY <1>2, <1>3, <1>4 DEF BoxEffect

LEMMA OverriddenEffect ==
  ASSUME IInv, NEW b \in Boxes, request' = Overridden(b)
  PROVE  \A i \in Requests : RowEffect(i)
<1> SUFFICES ASSUME NEW i \in Requests, Reserves(i, b)
             PROVE  RowEffect(i)
  BY DEF Overridden, RowEffect
<1>1. request[i] \in RequestRow /\ request[i] # NoRequest
  BY DEF Reserves, NoRequest, IInv, TypeOK
<1>2. request'[i] = [request[i] EXCEPT !.phase = "closed"]
  BY DEF Overridden
<1>3. SameRequest(i) /\ request'[i].items = request[i].items /\ request'[i].phase = "closed"
  BY <1>1, <1>2 DEF SameRequest, RequestRow
<1>4. request[i].phase \in {"open", "moving", "awaiting"}
  BY DEF Reserves, IsActive, ActivePhases, Phases!ActivePhases
<1> QED BY <1>1, <1>3, <1>4 DEF RowEffect, PhaseMoved

LEMMA MovePhaseEffect ==
  ASSUME IInv, NEW i \in Requests, NEW from, NEW to, MovePhase(i, from, to),
         <<from, to>> \in {<<"open", "moving">>, <<"moving", "open">>,
                           <<"moving", "awaiting">>, <<"open", "closed">>}
  PROVE  Effects
<1>1. from # "none" /\ request[i].phase = from /\ box' = box
  BY DEF MovePhase
<1>2. request[i] \in RequestRow /\ request[i] # NoRequest
  BY <1>1 DEF NoRequest, IInv, TypeOK
<1>3. /\ request'[i] = [request[i] EXCEPT !.phase = to]
      /\ \A j \in Requests \ {i} : request'[j] = request[j]
  BY DEF MovePhase, IInv, TypeOK
<1>4. SameRequest(i) /\ request'[i].items = request[i].items /\ request'[i].phase = to
  BY <1>2, <1>3 DEF SameRequest, RequestRow
<1>5. PhaseMoved(i)
  BY <1>1, <1>4 DEF PhaseMoved
<1> QED BY <1>1, <1>2, <1>3, <1>5 DEF Effects, RowEffect, BoxEffect

LEMMA CompletionEffect ==
  ASSUME IInv, NEW i \in Requests, request[i].phase = "awaiting",
         NEW items \in SUBSET Boxes, NEW got, NEW rest, NEW phase,
         Completion(i, items, got, rest, phase),
         \A b \in items : Links(i, b) \/ Stored(b)',
         phase = (IF request[i].direction = "return" THEN "draft" ELSE "open")
  PROVE  \A j \in Requests : RowEffect(j)
<1> USE DEF IInv, TypeOK
<1> DEFINE done == [request[i] EXCEPT !.phase = "completed", !.items = items,
                                      !.actual = got]
           next == [phase |-> phase, direction |-> request[i].direction,
                    origin |-> "follow_up", warehouse |-> request[i].warehouse,
                    target |-> request[i].target, quantity |-> rest,
                    items |-> {}, source |-> request[i].source,
                    root |-> request[i].root, actual |-> 0]
<1>1. \/ request' = [request EXCEPT ![i] = done]
      \/ \E k \in Requests : IsFresh(k) /\ request' = [request EXCEPT ![i] = done, ![k] = next]
  BY DEF Completion
<1>2. request[i] \in RequestRow /\ request[i] # NoRequest
  BY DEF NoRequest
<1>3. ASSUME request'[i] = done
      PROVE  RowEffect(i)
  <2>1. SameRequest(i) /\ request'[i].items = items /\ request'[i].phase = "completed"
    BY <1>2, <1>3 DEF SameRequest, RequestRow
  <2> HIDE DEF done
  <2>2. Finished(i)
    BY <2>1 DEF Finished
  <2> QED BY <1>2, <2>2 DEF RowEffect
<1>4. CASE request' = [request EXCEPT ![i] = done]
  <2>1. request'[i] = done /\ \A j \in Requests \ {i} : request'[j] = request[j]
    BY <1>4
  <2> HIDE DEF done
  <2> QED BY <1>3, <2>1 DEF RowEffect
<1>5. ASSUME NEW k \in Requests, IsFresh(k),
             request' = [request EXCEPT ![i] = done, ![k] = next]
      PROVE  \A j \in Requests : RowEffect(j)
  <2>1. k # i /\ request[k] = NoRequest
    BY <1>2, <1>5 DEF IsFresh
  <2>2. /\ request'[k] = next /\ request'[i] = done
        /\ \A j \in Requests \ {i, k} : request'[j] = request[j]
    BY <1>5, <2>1
  <2>3. /\ FollowUp(k, i) /\ request'[k] # NoRequest
    BY <1>2, <2>2 DEF FollowUp, NoRequest, RequestRow
  <2> HIDE DEF done, next
  <2>4. RowEffect(k)
    BY <2>1, <2>3 DEF RowEffect, Created
  <2> QED BY <1>3, <2>2, <2>4 DEF RowEffect
<1> QED BY <1>1, <1>4, <1>5

LEMMA RequestStepEffect ==
  ASSUME IInv, NEW i \in Requests, RequestStep(i)
  PROVE  Effects
<1> USE DEF IInv
<1>0. ASSUME box' = box
      PROVE  \A b \in Boxes : BoxEffect(b)
  BY <1>0 DEF BoxEffect
<1>a. ASSUME NEW r \in RequestRow, request' = [request EXCEPT ![i] = r]
      PROVE  request'[i] = r /\ \A j \in Requests \ {i} : RowEffect(j)
  BY <1>a DEF TypeOK, RowEffect
<1>1. ASSUME NEW w \in Warehouses, NEW q \in 1..MaxQuantity, CreateInbound(i, w, q)
      PROVE  Effects
  <2> DEFINE r == [phase |-> "open", direction |-> "inbound", origin |-> "workflow",
                   warehouse |-> w, target |-> NoWarehouse, quantity |-> q,
                   items |-> {}, source |-> 0, root |-> i, actual |-> 0]
  <2>1. r \in RequestRow
    BY BoundsAssumption DEF RequestRow, Origin, Phases!Phase, Requests
  <2>2. /\ request'[i] = r /\ request[i] = NoRequest /\ active[w] /\ box' = box
        /\ \A j \in Requests \ {i} : RowEffect(j)
    BY <1>1, <1>a, <2>1 DEF CreateInbound, IsFresh
  <2>3. NewInbound(i) /\ request'[i] # NoRequest
    BY <2>2 DEF NewInbound, NoRequest, Links
  <2> QED BY <1>0, <2>2, <2>3 DEF Effects, RowEffect, Created
<1>2. ASSUME NEW src \in Requests, NEW t \in Warehouses, NEW S \in SUBSET Boxes,
             CreateReturn(i, src, t, S)
      PROVE  Effects
  <2> DEFINE r == [phase |-> "open", direction |-> "return", origin |-> "workflow",
                   warehouse |-> request[src].warehouse, target |-> t,
                   quantity |-> Cardinality(S), items |-> S,
                   source |-> src, root |-> i, actual |-> 0]
  <2>1. request[src] \in RequestRow
    BY <1>2 DEF CreateReturn, IsSource, NoRequest, TypeOK
  <2>2. Cardinality(S) \in Nat \ {0}
    BY <1>2, BoxSets DEF CreateReturn
  <2>3. r \in RequestRow
    BY <2>1, <2>2, BoundsAssumption DEF RequestRow, Origin, Phases!Phase, Requests
  <2>4. /\ request'[i] = r /\ request[i] = NoRequest /\ active[t] /\ box' = box
        /\ \A j \in Requests \ {i} : RowEffect(j)
        /\ IsSource(src) /\ S \subseteq Candidates(src)
    BY <1>2, <1>a, <2>3 DEF CreateReturn, IsFresh
  <2>5. request'[i] # NoRequest
    BY <2>4 DEF NoRequest
  <2>6. NewReturn(i)
    <3>1. active[request[src].warehouse]
      BY <2>4 DEF IsSource
    <3> QED BY <2>4, <3>1 DEF NewReturn, Selection
  <2> QED BY <1>0, <2>4, <2>5, <2>6 DEF Effects, RowEffect, Created
<1>3. ASSUME StartTransit(i) \/ RetryTransport(i) \/ MarkArrived(i) \/ Withdraw(i)
      PROVE  Effects
  BY <1>3, MovePhaseEffect DEF StartTransit, RetryTransport, MarkArrived, Withdraw
<1>4. ASSUME NEW S \in SUBSET Boxes, CompleteInbound(i, S)
      PROVE  Effects
  <2>1. request[i] \in RequestRow /\ request[i].phase = "awaiting"
        /\ request[i].direction = "inbound"
    BY <1>4 DEF CompleteInbound, NoRequest, TypeOK
  <2>2. (\A b \in Boxes : BoxEffect(b)) /\ (\A b \in S : Stored(b)')
    BY <1>4, <2>1, ReceivedEffect DEF CompleteInbound, RequestRow, BoxStatus
  <2> DEFINE got  == Cardinality(S)
             rest == IF got < request[i].quantity THEN request[i].quantity - got ELSE 0
  <2>3. Completion(i, S, got, rest, "open")
    BY <1>4 DEF CompleteInbound
  <2> HIDE DEF got, rest
  <2>4. \A j \in Requests : RowEffect(j)
    BY <2>1, <2>2, <2>3, CompletionEffect
  <2> QED BY <2>2, <2>4 DEF Effects
<1>5. ASSUME NEW S \in SUBSET Boxes, CompleteReturn(i, S)
      PROVE  Effects
  <2>1. /\ request[i] \in RequestRow /\ request[i].phase = "awaiting"
        /\ request[i].direction = "return"
        /\ request[i].target \in Warehouses
    BY <1>5, WarehousesAssumption DEF CompleteReturn, NoRequest, TypeOK, RequestRow
  <2>2. \A b \in Boxes : BoxEffect(b)
    BY <1>5, <2>1, ReceivedEffect DEF CompleteReturn, BoxStatus
  <2>3. request[i].items \in SUBSET Boxes
    BY <2>1 DEF RequestRow
  <2>4. \A b \in request[i].items : Links(i, b)
    BY <2>1, <2>3 DEF Links, SourceKept
  <2>5. Completion(i, request[i].items, Cardinality(S),
                   Cardinality(request[i].items \ S), "draft")
    BY <1>5 DEF CompleteReturn
  <2>6. \A j \in Requests : RowEffect(j)
    BY <2>1, <2>3, <2>4, <2>5, CompletionEffect
  <2> QED BY <2>2, <2>6 DEF Effects
<1>6. ASSUME NEW S \in SUBSET Boxes, SubmitFollowUpDraft(i, S)
      PROVE  Effects
  <2> DEFINE r == [request[i] EXCEPT !.phase = "open", !.items = S]
  <2>1. request[i] \in RequestRow /\ request[i].phase = "draft" /\ request[i] # NoRequest
    BY <1>6 DEF SubmitFollowUpDraft, NoRequest, TypeOK
  <2>2. r \in RequestRow
    BY <2>1 DEF RequestRow, Phases!Phase
  <2>3. request'[i] = r /\ box' = box /\ \A j \in Requests \ {i} : RowEffect(j)
    BY <1>6, <1>a, <2>2 DEF SubmitFollowUpDraft
  <2>4. SameRequest(i) /\ request'[i].items = S /\ request'[i].phase = "open"
    BY <2>1, <2>3 DEF SameRequest, RequestRow
  <2>5. Selected(i)
    BY <1>6, <2>1, <2>4 DEF Selected, Selection, SubmitFollowUpDraft, SameRequest
  <2> QED BY <1>0, <2>1, <2>3, <2>5 DEF Effects, RowEffect
<1>7. ASSUME NEW w \in Warehouses, NEW S \in SUBSET Boxes, CompletedReceipt(i, w, S)
      PROVE  Effects
  <2> DEFINE r == [phase |-> "completed", direction |-> "inbound", origin |-> "receipt",
                   warehouse |-> w, target |-> NoWarehouse, quantity |-> Cardinality(S),
                   items |-> S, source |-> 0, root |-> i, actual |-> Cardinality(S)]
  <2>1. Cardinality(S) \in Nat \ {0}
    BY <1>7, BoxSets DEF CompletedReceipt
  <2>2. r \in RequestRow
    BY <2>1, BoundsAssumption DEF RequestRow, Origin, Phases!Phase, Requests
  <2>3. (\A b \in Boxes : BoxEffect(b)) /\ (\A b \in S : Stored(b)')
    BY <1>7, ReceivedEffect DEF CompletedReceipt, BoxStatus
  <2>4. /\ request'[i] = r /\ request[i] = NoRequest /\ active[w]
        /\ \A j \in Requests \ {i} : RowEffect(j)
    BY <1>7, <1>a, <2>2 DEF CompletedReceipt, IsFresh
  <2>5. request'[i] # NoRequest
    BY <2>4 DEF NoRequest
  <2>6. NewInbound(i)
    BY <2>3, <2>4 DEF NewInbound, Links
  <2> QED BY <2>3, <2>4, <2>5, <2>6 DEF Effects, RowEffect, Created
<1>8. ASSUME NEW w \in Warehouses, NEW S \in SUBSET Boxes,
             NEW o \in {"receipt", "restoring_receipt"}, StageReceipt(i, w, S, o)
      PROVE  Effects
  <2> DEFINE r == [phase |-> "open", direction |-> "inbound", origin |-> o,
                   warehouse |-> w, target |-> NoWarehouse, quantity |-> Cardinality(S),
                   items |-> S, source |-> 0, root |-> i, actual |-> 0]
  <2>1. Cardinality(S) \in Nat \ {0}
    BY <1>8, BoxSets DEF StageReceipt
  <2>2. r \in RequestRow
    BY <2>1, BoundsAssumption DEF RequestRow, Origin, Phases!Phase, Requests
  <2>3. /\ request'[i] = r /\ request[i] = NoRequest /\ active[w] /\ box' = box
        /\ \A j \in Requests \ {i} : RowEffect(j)
    BY <1>8, <1>a, <2>2 DEF StageReceipt, IsFresh
  <2>4. request'[i] # NoRequest
    BY <2>3 DEF NoRequest
  <2>5. NewInbound(i)
    BY <2>3 DEF NewInbound, Links, IsReceipt
  <2> QED BY <1>0, <2>3, <2>4, <2>5 DEF Effects, RowEffect, Created
<1>9. ASSUME NEW s \in {"received", "quarantined"}, FinalizeReceipt(i, s)
      PROVE  Effects
  <2> DEFINE r == [request[i] EXCEPT !.phase = "completed",
                                     !.actual = Cardinality(request[i].items)]
  <2>1. request[i] \in RequestRow /\ request[i].phase = "open" /\ request[i] # NoRequest
    BY <1>9 DEF FinalizeReceipt, NoRequest, TypeOK
  <2>2. request[i].items \in SUBSET Boxes /\ Cardinality(request[i].items) \in Nat
    BY <2>1, BoxSets DEF RequestRow
  <2>3. r \in RequestRow
    BY <2>1, <2>2 DEF RequestRow, Phases!Phase
  <2>4. (\A b \in Boxes : BoxEffect(b)) /\ (\A b \in request[i].items : Stored(b)')
    BY <1>9, <2>1, <2>2, ReceivedEffect DEF FinalizeReceipt, RequestRow, BoxStatus
  <2>5. request'[i] = r /\ \A j \in Requests \ {i} : RowEffect(j)
    BY <1>9, <1>a, <2>3 DEF FinalizeReceipt
  <2>6. SameRequest(i) /\ request'[i].items = request[i].items /\ request'[i].phase = "completed"
    BY <2>1, <2>5 DEF SameRequest, RequestRow
  <2>7. Finished(i)
    BY <2>1, <2>4, <2>6 DEF Finished
  <2> QED BY <2>1, <2>4, <2>5, <2>7 DEF Effects, RowEffect
<1> QED
  BY <1>1, <1>2, <1>3, <1>4, <1>5, <1>6, <1>7, <1>8, <1>9 DEF RequestStep

LEMMA BoxStepEffect ==
  ASSUME IInv, NEW b \in Boxes, BoxStep(b)
  PROVE  Effects
<1> USE DEF IInv
<1>1. ASSUME NEW r \in BoxRow \union {Absent}, box' = [box EXCEPT ![b] = r],
             \/ r = Absent /\ ~Linked(b)
             \/ r \in BoxRow /\ (r.archived \/ active[r.warehouse])
      PROVE  \A c \in Boxes : BoxEffect(c)
  <2>1. box'[b] = r /\ \A c \in Boxes \ {b} : box'[c] = box[c]
    BY <1>1 DEF TypeOK
  <2>2. r \in BoxRow => r # Absent
    BY DEF BoxRow, Absent, BoxStatus
  <2>3. BoxEffect(b)
    BY <1>1, <2>1, <2>2 DEF BoxEffect, Stored, Live
  <2> QED BY <2>1, <2>3 DEF BoxEffect
<1>2. ASSUME Stored(b)
      PROVE  box[b] \in BoxRow
  BY <1>2 DEF TypeOK, Stored
<1>3. ASSUME request' = request
      PROVE  \A i \in Requests : RowEffect(i)
  BY <1>3 DEF RowEffect
<1>4. ASSUME NEW w \in Warehouses, NEW s \in BoxStatus,
             UpdateBox(b, w, s) \/ ForceUpdateBox(b, w, s)
      PROVE  Effects
  <2> DEFINE r == [box[b] EXCEPT !.warehouse = w, !.status = s]
  <2>1. box[b] \in BoxRow
    BY <1>2, <1>4 DEF UpdateBox, ForceUpdateBox, Live
  <2>2. r \in BoxRow /\ r.warehouse = w
    BY <2>1 DEF BoxRow
  <2>3. box' = [box EXCEPT ![b] = r]
    BY <1>4, <2>1 DEF UpdateBox, ForceUpdateBox, TypeOK
  <2>4. active[w]
    BY <1>4 DEF UpdateBox, ForceUpdateBox
  <2> HIDE DEF r
  <2>5. \A c \in Boxes : BoxEffect(c)
    BY <1>1, <2>2, <2>3, <2>4
  <2>6. \A i \in Requests : RowEffect(i)
    BY <1>3, <1>4, OverriddenEffect DEF UpdateBox, ForceUpdateBox
  <2> QED BY <2>5, <2>6 DEF Effects
<1>5. ASSUME DeleteBox(b) \/ ForceDeleteBox(b)
      PROVE  Effects
  <2> DEFINE r == [box[b] EXCEPT !.archived = TRUE]
  <2>1. box[b] \in BoxRow
    BY <1>2, <1>5 DEF DeleteBox, ForceDeleteBox
  <2>2. r \in BoxRow /\ r.archived = TRUE
    BY <2>1 DEF BoxRow
  <2>3. \/ box' = [box EXCEPT ![b] = Absent] /\ ~Linked(b)
        \/ box' = [box EXCEPT ![b] = r]
    BY <1>5 DEF DeleteBox, ForceDeleteBox
  <2> HIDE DEF r
  <2>4. \A c \in Boxes : BoxEffect(c)
    BY <1>1, <2>2, <2>3
  <2>5. \A i \in Requests : RowEffect(i)
    BY <1>3, <1>5, OverriddenEffect DEF DeleteBox, ForceDeleteBox
  <2> QED BY <2>4, <2>5 DEF Effects
<1>6. ASSUME ForceFileChange(b)
      PROVE  Effects
  BY <1>6, OverriddenEffect DEF ForceFileChange, Effects, BoxEffect
<1> QED BY <1>4, <1>5, <1>6 DEF BoxStep

\* A warehouse is closed by a step only where nothing is left to do and stays.
WarehouseEffect(w) ==
  ~active'[w] =>
    \/ ~active[w]
    \/ /\ request' = request /\ box' = box
       /\ \A i \in Requests : request[i].phase \in BlockingPhases =>
                                w \notin {request[i].warehouse, request[i].target}
       /\ \A b \in Boxes : Live(b) /\ box[b].warehouse = w =>
                             box[b].status \notin OccupyingStatuses

LEMMA StepEffect ==
  ASSUME IInv, [Next]_vars
  PROVE  Effects /\ \A w \in Warehouses : WarehouseEffect(w)
<1>1. ASSUME box' = box, request' = request
      PROVE  Effects
  BY <1>1 DEF Effects, RowEffect, BoxEffect
<1>2. ASSUME active' = active
      PROVE  \A w \in Warehouses : WarehouseEffect(w)
  BY <1>2 DEF WarehouseEffect
<1>3. ASSUME NEW i \in Requests, RequestStep(i)
      PROVE  active' = active
  BY <1>3 DEF RequestStep, CreateInbound, CreateReturn, StartTransit, RetryTransport,
    MarkArrived, Withdraw, MovePhase, CompleteInbound, CompleteReturn,
    SubmitFollowUpDraft, CompletedReceipt, StageReceipt, FinalizeReceipt
<1>4. ASSUME NEW b \in Boxes, BoxStep(b)
      PROVE  active' = active
  BY <1>4 DEF BoxStep, UpdateBox, ForceUpdateBox, DeleteBox, ForceDeleteBox, ForceFileChange
<1>5. ASSUME NEW v \in Warehouses, ArchiveWarehouse(v) \/ RestoreWarehouse(v)
      PROVE  Effects /\ \A w \in Warehouses : WarehouseEffect(w)
  <2>1. box' = box /\ request' = request
    BY <1>5 DEF ArchiveWarehouse, RestoreWarehouse
  <2>2. ASSUME NEW w \in Warehouses
        PROVE  WarehouseEffect(w)
    BY <1>5, <2>1 DEF IInv, TypeOK, WarehouseEffect, ArchiveWarehouse, RestoreWarehouse
  <2> QED BY <1>1, <2>1, <2>2
<1>6. CASE UNCHANGED vars
  BY <1>1, <1>2, <1>6 DEF vars
<1> QED
  BY <1>2, <1>3, <1>4, <1>5, <1>6, RequestStepEffect, BoxStepEffect DEF Next

-----------------------------------------------------------------------------
(* Warehouses, boxes that are kept, and what a return has allocated.        *)

\* ArchivedWarehouseQuiet without the count.
QuietWarehouse(w) ==
  /\ \A i \in Requests : request[i].phase \in BlockingPhases =>
                            w \notin {request[i].warehouse, request[i].target}
  /\ \A b \in Boxes : Live(b) /\ box[b].warehouse = w =>
                        box[b].status \notin OccupyingStatuses

Quiet == \A w \in Warehouses : ~active[w] => QuietWarehouse(w)

\* A return comes from a completed inbound, whose boxes no step changes again,
\* and holds what it asked for while it is active.
AllocatedFromSource ==
  \A i \in Requests : request[i].direction = "return" =>
    LET src == request[i].source IN
      /\ request[src].direction = "inbound" /\ request[src].phase = "completed"
      /\ IsActive(i) => /\ Cardinality(request[i].items) = request[i].quantity
                        /\ request[i].items \subseteq request[src].items

\* Only a partial collection leaves a draft.
DraftsAreReturns ==
  \A i \in Requests : request[i].phase = "draft" => request[i].direction = "return"

KeptInv == IInv /\ Quiet /\ DraftsAreReturns /\ LinkedBoxesKept /\ AllocatedFromSource

LEMMA QuietCounts ==
  ASSUME Quiet
  PROVE  ArchivedWarehouseQuiet
<1> SUFFICES ASSUME NEW w \in Warehouses, ~active[w]
             PROVE  Occupied(w) = 0
  BY DEF ArchivedWarehouseQuiet, Quiet, QuietWarehouse
<1>1. {b \in Boxes : /\ Live(b) /\ box[b].warehouse = w
                     /\ box[b].status \in OccupyingStatuses} = {}
  BY DEF Quiet, QuietWarehouse
<1> QED BY <1>1, FS_EmptySet DEF Occupied

LEMMA QuietKept ==
  ASSUME IInv, Quiet, Effects, NEW w \in Warehouses, WarehouseEffect(w), ~active'[w]
  PROVE  QuietWarehouse(w)'
<1>1. CASE active[w]
  BY <1>1 DEF WarehouseEffect, QuietWarehouse, Live, Stored
<1>2. CASE ~active[w]
  <2>0. QuietWarehouse(w)
    BY <1>2 DEF Quiet
  <2>1. ASSUME NEW i \in Requests, request'[i].phase \in BlockingPhases
        PROVE  w \notin {request'[i].warehouse, request'[i].target}
    <3>1. CASE request'[i] = request[i]
      BY <2>0, <2>1, <3>1 DEF QuietWarehouse
    <3>2. CASE PhaseMoved(i)
      BY <2>0, <3>2 DEF QuietWarehouse, PhaseMoved, SameRequest, BlockingPhases,
                        Phases!BlockingPhases, Phases!ActivePhases
    <3>3. CASE Finished(i)
      BY <2>1, <3>3 DEF Finished, BlockingPhases, Phases!BlockingPhases, Phases!ActivePhases
    <3>4. CASE Selected(i)
      BY <2>0, <3>4 DEF QuietWarehouse, Selected, SameRequest, BlockingPhases,
                        Phases!BlockingPhases
    <3>5. CASE NewInbound(i)
      BY <1>2, <3>5, WarehousesAssumption DEF NewInbound
    <3>6. CASE NewReturn(i)
      BY <1>2, <3>6 DEF NewReturn
    <3>7. ASSUME NEW k \in Requests, FollowUp(i, k)
          PROVE  w \notin {request'[i].warehouse, request'[i].target}
      BY <2>0, <3>7 DEF QuietWarehouse, FollowUp, BlockingPhases, Phases!BlockingPhases,
                        Phases!ActivePhases
    <3> QED BY <3>1, <3>2, <3>3, <3>4, <3>5, <3>6, <3>7 DEF Effects, RowEffect, Created
  <2>2. ASSUME NEW b \in Boxes, Live(b)', box'[b].warehouse = w
        PROVE  box'[b].status \notin OccupyingStatuses
    <3>1. CASE box'[b] = box[b]
      BY <2>0, <2>2, <3>1 DEF QuietWarehouse, Live, Stored
    <3>2. CASE box'[b] # box[b]
      <4>1. box'[b].status = "returned"
        BY <1>2, <2>2, <3>2 DEF Effects, BoxEffect, Live, Stored
      <4> QED BY <4>1 DEF OccupyingStatuses
    <3> QED BY <3>1, <3>2
  <2> QED BY <2>1, <2>2 DEF QuietWarehouse
<1> QED BY <1>1, <1>2

LEMMA DraftsKept ==
  ASSUME DraftsAreReturns, Effects
  PROVE  DraftsAreReturns'
<1> SUFFICES ASSUME NEW i \in Requests, request'[i].phase = "draft"
             PROVE  request'[i].direction = "return"
  BY DEF DraftsAreReturns
<1> QED
  BY DEF DraftsAreReturns, Effects, RowEffect, PhaseMoved, Finished, Selected, Selection,
         Created, NewInbound, NewReturn, FollowUp

LEMMA LinkedKept ==
  ASSUME IInv, DraftsAreReturns, LinkedBoxesKept, Effects
  PROVE  LinkedBoxesKept'
<1> SUFFICES ASSUME NEW b \in Boxes, NEW i \in Requests, Links(i, b)'
             PROVE  Stored(b)'
  BY DEF LinkedBoxesKept, Linked
<1>1. ASSUME Links(i, b)
      PROVE  Stored(b)'
  <2>1. Linked(b) /\ Stored(b)
    BY <1>1 DEF Linked, LinkedBoxesKept
  <2> QED BY <2>1 DEF Effects, BoxEffect, Stored
<1>2. ASSUME NEW src \in Requests, IsSource(src), b \in Candidates(src)
      PROVE  Stored(b)'
  <2>1. Stored(b) /\ Linked(b)
    BY <1>2 DEF Candidates, Live, IsSource, Linked, Links
  <2> QED BY <2>1 DEF Effects, BoxEffect, Stored
<1>3. CASE request'[i] = request[i]
  BY <1>1, <1>3 DEF Links, IsReceipt
<1>4. CASE PhaseMoved(i)
  BY <1>1, <1>4 DEF PhaseMoved, SameRequest, Links, IsReceipt
<1>5. CASE Finished(i)
  BY <1>1, <1>5 DEF Finished, Links
<1>6. CASE Selected(i)
  <2>1. request[i].source \in Requests
    BY <1>6 DEF Selected, DraftsAreReturns, IInv, SourceKept
  <2> QED BY <1>2, <1>6, <2>1 DEF Selected, Selection, Links
<1>7. CASE NewInbound(i)
  BY <1>7 DEF NewInbound
<1>8. CASE NewReturn(i)
  BY <1>2, <1>8 DEF NewReturn, Selection, Links
<1>9. ASSUME NEW k \in Requests, FollowUp(i, k)
      PROVE  Stored(b)'
  BY <1>9 DEF FollowUp, Links
<1> QED
  BY <1>3, <1>4, <1>5, <1>6, <1>7, <1>8, <1>9 DEF Effects, RowEffect, Created

\* A completed request is final, whatever happens to its boxes.
LEMMA CompletedFrozen ==
  ASSUME Effects, NEW i \in Requests, request[i].phase = "completed"
  PROVE  request'[i] = request[i]
BY DEF Effects, RowEffect, PhaseMoved, Finished, Selected, Created, NoRequest

LEMMA AllocationKept ==
  ASSUME IInv, AllocatedFromSource, Effects
  PROVE  AllocatedFromSource'
<1> DEFINE FromSource(j, s) ==
      /\ s \in Requests
      /\ request[s].direction = "inbound" /\ request[s].phase = "completed"
      /\ IsActive(j)' => /\ Cardinality(request'[j].items) = request'[j].quantity
                         /\ request'[j].items \subseteq request[s].items
<1> SUFFICES ASSUME NEW i \in Requests, request'[i].direction = "return"
             PROVE  FromSource(i, request'[i].source)
  BY CompletedFrozen DEF AllocatedFromSource
<1>1. ASSUME NEW j \in Requests, request[j].direction = "return"
      PROVE  /\ request[j].source \in Requests
             /\ request[request[j].source].direction = "inbound"
             /\ request[request[j].source].phase = "completed"
             /\ IsActive(j) =>
                  /\ Cardinality(request[j].items) = request[j].quantity
                  /\ request[j].items \subseteq request[request[j].source].items
  BY <1>1 DEF AllocatedFromSource, IInv, SourceKept
<1>2. CASE request'[i] = request[i]
  BY <1>1, <1>2 DEF IsActive
<1>3. CASE PhaseMoved(i)
  BY <1>1, <1>3 DEF PhaseMoved, SameRequest, IsActive, ActivePhases, Phases!ActivePhases
<1>4. CASE Finished(i)
  BY <1>1, <1>4 DEF Finished, SameRequest, IsActive, ActivePhases, Phases!ActivePhases
<1>5. CASE Selected(i)
  BY <1>1, <1>5 DEF Selected, SameRequest, Selection, Candidates
<1>6. CASE NewInbound(i)
  BY <1>6 DEF NewInbound
<1>7. CASE NewReturn(i)
  BY <1>7 DEF NewReturn, Selection, Candidates, IsSource
<1>8. ASSUME NEW k \in Requests, FollowUp(i, k)
      PROVE  FromSource(i, request'[i].source)
  BY <1>1, <1>8 DEF FollowUp, IsActive, ActivePhases, Phases!ActivePhases
<1> QED
  BY <1>2, <1>3, <1>4, <1>5, <1>6, <1>7, <1>8 DEF Effects, RowEffect, Created

LEMMA KeptInvHolds == Spec => []KeptInv
<1>1. Init => KeptInv
  <2> SUFFICES ASSUME Init PROVE KeptInv
    OBVIOUS
  <2>1. IInv
    BY InitTyped DEF Init, IInv, ReservationExclusive, ReservedBoxesReady, SourceKept,
                     Reserves, NoRequest
  <2>2. Quiet
    BY DEF Init, Quiet
  <2>3. DraftsAreReturns /\ LinkedBoxesKept /\ AllocatedFromSource
    BY DEF Init, NoRequest, DraftsAreReturns, LinkedBoxesKept, Linked, Links,
           AllocatedFromSource
  <2> QED BY <2>1, <2>2, <2>3 DEF KeptInv
<1>2. KeptInv /\ [Next]_vars => KeptInv'
  <2> SUFFICES ASSUME KeptInv, [Next]_vars PROVE KeptInv'
    OBVIOUS
  <2>1. IInv /\ IInv'
    BY StepKeeps DEF KeptInv
  <2>2. Effects /\ \A w \in Warehouses : WarehouseEffect(w)
    BY <2>1, StepEffect
  <2>3. Quiet'
    BY <2>1, <2>2, QuietKept DEF KeptInv, Quiet
  <2> QED BY <2>1, <2>2, <2>3, DraftsKept, LinkedKept, AllocationKept DEF KeptInv
<1> QED BY <1>1, <1>2, PTL DEF Spec

\* Archiving a warehouse leaves nothing behind in it, and nothing arrives while
\* it stays archived: no request that is not over names it, no box occupies it.
THEOREM WarehousesQuiet == Spec => []ArchivedWarehouseQuiet
<1>1. KeptInv => ArchivedWarehouseQuiet
  BY QuietCounts DEF KeptInv
<1> QED BY <1>1, KeptInvHolds, PTL

\* A box some request names, finished or not, is never hard-deleted.
THEOREM ReferencedBoxesKept == Spec => []LinkedBoxesKept
<1>1. KeptInv => LinkedBoxesKept
  BY DEF KeptInv
<1> QED BY <1>1, KeptInvHolds, PTL

\* An active return holds as many boxes as it asked for, all of them received
\* through the completed inbound it names, whose warehouse is still active.
THEOREM AllocationsComplete == Spec => []AllocationComplete
<1>1. KeptInv => AllocationComplete
  <2> SUFFICES ASSUME KeptInv, NEW i \in Requests, request[i].direction = "return",
                      IsActive(i)
               PROVE  LET src == request[i].source IN
                        /\ Cardinality(request[i].items) = request[i].quantity
                        /\ IsSource(src) /\ request[i].items \subseteq request[src].items
    BY DEF AllocationComplete
  <2>1. request[i] \in RequestRow /\ request[i].phase \in BlockingPhases
    BY DEF KeptInv, IInv, TypeOK, NoRequest, IsActive, ActivePhases, BlockingPhases,
           Phases!BlockingPhases
  <2>2. request[i].warehouse \in Warehouses
    BY <2>1 DEF RequestRow
  <2>3. active[request[i].warehouse]
    BY <2>1, <2>2 DEF KeptInv, Quiet, QuietWarehouse
  <2>4. request[request[i].source].warehouse = request[i].warehouse
    BY DEF KeptInv, IInv, SourceKept
  <2> QED BY <2>3, <2>4 DEF KeptInv, AllocatedFromSource, IsSource
<1> QED BY <1>1, KeptInvHolds, PTL

\* Every row of the request table goes through the phases RequestPhases
\* promises, overrides and follow-ups included.
THEOREM RowsFollowPhases == Spec => RequestsFollowPhases
<1>1. ASSUME IInv, [Next]_vars, NEW i \in Requests
      PROVE  /\ request[i] = NoRequest /\ request'[i] # NoRequest => Row(i)!Init'
             /\ request[i] # NoRequest => [Row(i)!Next]_(request[i].phase)
  <2>1. RowEffect(i)
    BY <1>1, StepEffect DEF Effects
  <2>2. ASSUME Created(i)
        PROVE  request'[i].phase \in {"draft", "open", "completed"}
    BY <2>2 DEF Created, NewInbound, NewReturn, Selection, FollowUp
  <2>3. request[i] = NoRequest /\ request'[i] # NoRequest => Row(i)!Init'
    BY <2>1, <2>2 DEF Row!Init, RowEffect
  <2>4. request[i] # NoRequest => [Row(i)!Next]_(request[i].phase)
    BY <2>1 DEF RowEffect, Created, PhaseMoved, Finished, Selected, Selection, Row!Next,
       Row!Submit, Row!Dispatch, Row!Retry, Row!Arrive, Row!Complete, Row!Finalize,
       Row!Withdraw, Row!Override, Row!Goes, Row!ActivePhases
  <2> QED BY <2>3, <2>4
<1>2. IInv /\ [Next]_vars =>
        [\A i \in Requests :
           /\ request[i] = NoRequest /\ request'[i] # NoRequest => Row(i)!Init'
           /\ request[i] # NoRequest => [Row(i)!Next]_(request[i].phase)]_vars
  BY <1>1
<1>3. KeptInv => IInv
  BY DEF KeptInv
<1> QED BY <1>2, <1>3, KeptInvHolds, PTL DEF Spec, RequestsFollowPhases

-----------------------------------------------------------------------------
(* Sums.  Sum is a recursive function; it counts units, f[x] of them for   *)
(* every x of the set, so what a sum gains or loses is told by cardinals.  *)

Units(f, S) == {u \in S \X Nat : u[2] \in 1..f[u[1]]}

\* The defining equation of the recursive function in Sum.
IsSum(g, f, S) ==
  g = [T \in SUBSET S |->
         IF T = {} THEN 0
         ELSE LET x == CHOOSE y \in T : TRUE IN f[x] + g[T \ {x}]]

LEMMA UnitsOfOne ==
  ASSUME NEW x, NEW n \in Nat
  PROVE  IsFiniteSet({x} \X (1..n)) /\ Cardinality({x} \X (1..n)) = n
<1>1. IsFiniteSet({x}) /\ Cardinality({x}) = 1
  BY FS_Singleton
<1>2. IsFiniteSet(1..n) /\ Cardinality(1..n) = n
  BY FS_Interval
<1>3. /\ IsFiniteSet({x} \X (1..n))
      /\ Cardinality({x} \X (1..n)) = Cardinality({x}) * Cardinality(1..n)
  BY <1>1, <1>2, FS_Product
<1> QED BY <1>1, <1>2, <1>3

LEMMA UnitsFinite ==
  ASSUME NEW S, IsFiniteSet(S), NEW f \in [S -> Nat]
  PROVE  IsFiniteSet(Units(f, S))
<1> DEFINE part == [x \in S |-> {x} \X (1..f[x])]
           parts == {part[x] : x \in S}
<1>1. part \in Surjection(S, parts)
  BY DEF Surjection
<1>2. IsFiniteSet(parts)
  BY <1>1, FS_Surjection
<1>3. ASSUME NEW T \in parts
      PROVE  IsFiniteSet(T)
  <2>1. PICK x \in S : T = {x} \X (1..f[x])
    OBVIOUS
  <2>2. f[x] \in Nat
    OBVIOUS
  <2> QED BY <2>1, <2>2, UnitsOfOne
<1>4. IsFiniteSet(UNION parts)
  BY <1>2, <1>3, FS_UNION
<1>5. Units(f, S) \subseteq UNION parts
  <2> SUFFICES ASSUME NEW u \in Units(f, S) PROVE u \in UNION parts
    OBVIOUS
  <2>1. PICK x \in S, n \in Nat : u = <<x, n>>
    BY DEF Units
  <2>2. u \in part[x]
    BY <2>1 DEF Units
  <2> QED BY <2>2
<1> QED BY <1>4, <1>5, FS_Subset

LEMMA UnitsSplit ==
  ASSUME NEW S, IsFiniteSet(S), NEW f \in [S -> Nat], NEW x \in S,
         NEW g \in [S \ {x} -> Nat], \A y \in S \ {x} : g[y] = f[y]
  PROVE  Cardinality(Units(f, S)) = f[x] + Cardinality(Units(g, S \ {x}))
<1> DEFINE one == {x} \X (1..f[x])
           rest == Units(g, S \ {x})
<1>1. IsFiniteSet(one) /\ Cardinality(one) = f[x]
  BY UnitsOfOne
<1>2. IsFiniteSet(rest) /\ Cardinality(rest) \in Nat
  <2>1. IsFiniteSet(S \ {x})
    BY FS_RemoveElement
  <2> QED BY <2>1, UnitsFinite, FS_CardinalityType
<1>3. Units(f, S) = one \cup rest
  BY DEF Units
<1>4. one \cap rest = {}
  BY DEF Units
<1>5. Cardinality({}) = 0
  BY FS_EmptySet
<1>a. f[x] \in Nat
  OBVIOUS
<1> HIDE DEF one, rest
<1>6. Cardinality(one \cup rest) = Cardinality(one) + Cardinality(rest) - Cardinality(one \cap rest)
  BY <1>1, <1>2, FS_Union
<1>7. Cardinality(one \cup rest) = f[x] + Cardinality(rest)
  BY <1>a, <1>1, <1>2, <1>4, <1>5, <1>6
<1> QED BY <1>3, <1>7 DEF rest

LEMMA CountIsSum ==
  ASSUME NEW S, IsFiniteSet(S), NEW f \in [S -> Nat]
  PROVE  \E g : IsSum(g, f, S)
<1> DEFINE Of(T) == [y \in T |-> f[y]]
           count == [T \in SUBSET S |-> Cardinality(Units(f, T))]
<1>1. ASSUME NEW T \in SUBSET S, T # {}
      PROVE  LET x == CHOOSE y \in T : TRUE IN count[T] = f[x] + count[T \ {x}]
  <2> DEFINE x == CHOOSE y \in T : TRUE
  <2>1. x \in T
    BY <1>1
  <2> HIDE DEF x
  <2>2. IsFiniteSet(T) /\ T \ {x} \in SUBSET S
    BY FS_Subset
  <2>3. Cardinality(Units(Of(T), T)) = Of(T)[x] + Cardinality(Units(Of(T \ {x}), T \ {x}))
    BY <2>1, <2>2, UnitsSplit
  <2>4. Units(Of(T), T) = Units(f, T) /\ Units(Of(T \ {x}), T \ {x}) = Units(f, T \ {x})
    BY DEF Units
  <2> QED BY <2>1, <2>2, <2>3, <2>4 DEF x
<1>2. count[{}] = 0
  <2>1. Units(f, {}) = {}
    BY DEF Units
  <2> QED BY <2>1, FS_EmptySet
<1> HIDE DEF count
<1>3. count = [T \in SUBSET S |-> count[T]]
  BY DEF count
<1>4. IsSum(count, f, S)
  BY <1>1, <1>2, <1>3 DEF IsSum
<1> QED BY <1>4

LEMMA SumCounts ==
  ASSUME NEW S, IsFiniteSet(S), NEW f \in [S -> Nat], NEW g, IsSum(g, f, S)
  PROVE  g[S] = Cardinality(Units(f, S))
<1> DEFINE Of(T) == [y \in T |-> f[y]]
           Wrong == {T \in SUBSET S : g[T] # Cardinality(Units(f, T))}
<1> SUFFICES ASSUME Wrong # {} PROVE FALSE
  OBVIOUS
<1>1. Wrong \subseteq FiniteSubsetsOf(S)
  BY FS_Subset DEF FiniteSubsetsOf
<1>2. PICK T \in Wrong : \A U \in Wrong : <<U, T>> \notin StrictSubsetOrdering(S)
  BY <1>1, FS_StrictSubsetOrderingWellFounded, WFMin
<1>3. T # {}
  <2>1. Units(f, {}) = {} /\ g[{}] = 0
    BY DEF Units, IsSum
  <2> QED BY <2>1, FS_EmptySet
<1> DEFINE x == CHOOSE y \in T : TRUE
<1>4. x \in T
  BY <1>3
<1>5. g[T] = f[x] + g[T \ {x}]
  BY <1>3 DEF IsSum
<1> HIDE DEF x
<1>6. IsFiniteSet(T) /\ T \ {x} \in SUBSET S /\ T \in SUBSET S
  BY FS_Subset
<1>7. g[T \ {x}] = Cardinality(Units(f, T \ {x}))
  <2>1. <<T \ {x}, T>> \in StrictSubsetOrdering(S)
    BY <1>4, <1>6 DEF StrictSubsetOrdering
  <2> QED BY <1>2, <1>6, <2>1
<1>8. Cardinality(Units(Of(T), T)) = Of(T)[x] + Cardinality(Units(Of(T \ {x}), T \ {x}))
  BY <1>4, <1>6, UnitsSplit
<1>9. Units(Of(T), T) = Units(f, T) /\ Units(Of(T \ {x}), T \ {x}) = Units(f, T \ {x})
  BY DEF Units
<1> QED BY <1>4, <1>5, <1>6, <1>7, <1>8, <1>9

LEMMA SumIsCount ==
  ASSUME NEW S, IsFiniteSet(S), NEW f \in [S -> Nat]
  PROVE  Sum(f, S) = Cardinality(Units(f, S))
<1> DEFINE sum == CHOOSE g : IsSum(g, f, S)
<1>1. IsSum(sum, f, S)
  BY CountIsSum
<1>2. Sum(f, S) = sum[S]
  BY DEF Sum, IsSum
<1> QED BY <1>1, <1>2, SumCounts

\* What a sum over a family loses or gains with one request.
LEMMA SumSplit ==
  ASSUME NEW S, IsFiniteSet(S), NEW f \in [S -> Nat], NEW x \in S,
         NEW g \in [S \ {x} -> Nat], \A y \in S \ {x} : g[y] = f[y]
  PROVE  /\ Sum(f, S) = f[x] + Sum(g, S \ {x})
         /\ Sum(g, S \ {x}) \in Nat
<1>1. IsFiniteSet(S \ {x})
  BY FS_RemoveElement
<1>2. IsFiniteSet(Units(g, S \ {x}))
  BY <1>1, UnitsFinite
<1> QED BY <1>1, <1>2, SumIsCount, UnitsSplit, FS_CardinalityType

LEMMA SumOfOne ==
  ASSUME NEW x, NEW f \in [{x} -> Nat]
  PROVE  Sum(f, {x}) = f[x]
<1>1. IsFiniteSet({x})
  BY FS_Singleton
<1>2. Units(f, {x}) = {x} \X (1..f[x])
  BY DEF Units
<1>3. Sum(f, {x}) = Cardinality(Units(f, {x}))
  BY <1>1, SumIsCount
<1>4. f[x] \in Nat
  OBVIOUS
<1> QED BY <1>2, <1>3, <1>4, UnitsOfOne

-----------------------------------------------------------------------------
(* Families of requests and what they settle.                              *)

Family(r) == {i \in Requests : request[i].root = r}
Accounts(r) == [i \in Family(r) |-> Settled(i)]

\* The first request of a family is its own root, and a receipt names as many
\* boxes as it counts.
RootsStored ==
  \A i \in Requests : request[i] # NoRequest =>
    request[request[i].root].root = request[i].root

ReceiptsCounted ==
  \A i \in Requests : request[i] # NoRequest /\ IsReceipt(i) =>
    /\ request[i].direction = "inbound"
    /\ Cardinality(request[i].items) = request[i].quantity

\* What a step does to the accounts: nothing, ...
AccountKept(i) ==
  /\ request'[i].root = request[i].root
  /\ request'[i].quantity = request[i].quantity
  /\ Settled(i)' = Settled(i)

\* ... a request that opens a family, ...
FamilyOpened(i) ==
  /\ request[i] = NoRequest /\ request'[i].root = i
  /\ Settled(i)' = request'[i].quantity
  /\ \A j \in Requests \ {i} : AccountKept(j)

\* ... or a completed request that leaves a rest to a follow-up.
AccountSplit(i, k) ==
  /\ i # k /\ request[i] # NoRequest /\ request[k] = NoRequest
  /\ request'[i].root = request[i].root /\ request'[k].root = request[i].root
  /\ request'[i].quantity = request[i].quantity
  /\ Settled(i)' + Settled(k)' = Settled(i)
  /\ \A j \in Requests \ {i, k} : AccountKept(j)

AccountEffect ==
  \/ \A i \in Requests : AccountKept(i)
  \/ \E i \in Requests : FamilyOpened(i)
  \/ \E i, k \in Requests : AccountSplit(i, k)

SettledTypes ==
  \A i \in Requests :
    /\ Settled(i) \in Nat
    /\ request[i].root \in Requests <=> request[i] # NoRequest
    /\ request[i].root \in Nat

LEMMA SettledTyped == TypeOK => SettledTypes
<1> SUFFICES ASSUME TypeOK, NEW i \in Requests
             PROVE  /\ Settled(i) \in Nat
                    /\ request[i].root \in Requests <=> request[i] # NoRequest
                    /\ request[i].root \in Nat
  BY DEF SettledTypes
<1>1. CASE request[i] = NoRequest
  BY <1>1 DEF NoRequest, Settled, Requests
<1>2. CASE request[i] \in RequestRow
  <2>1. /\ request[i].root \in Requests /\ request[i].quantity \in Nat \ {0}
        /\ request[i].actual \in Nat
    BY <1>2 DEF RequestRow
  <2>2. request[i] # NoRequest
    BY <2>1 DEF NoRequest
  <2> QED BY <2>1, <2>2 DEF Settled, Requests
<1> QED BY <1>1, <1>2 DEF TypeOK

LEMMA SettledTypedNext == TypeOK' => SettledTypes'
BY SettledTyped, PTL

LEMMA FamilyTyped ==
  ASSUME TypeOK, NEW r
  PROVE  IsFiniteSet(Family(r)) /\ Accounts(r) \in [Family(r) -> Nat]
<1>1. IsFiniteSet(Requests)
  BY BoundsAssumption, FS_Interval DEF Requests
<1>2. IsFiniteSet(Family(r))
  BY <1>1, FS_Subset DEF Family
<1>3. \A i \in Family(r) : Settled(i) \in Nat
  BY SettledTyped DEF SettledTypes, Family
<1> QED BY <1>2, <1>3 DEF Accounts

LEMMA KeptAccounts ==
  ASSUME QuantityConserved, NEW r \in Requests, request[r].root = r,
         Family(r)' = Family(r), \A i \in Family(r) : Settled(i)' = Settled(i),
         request'[r].quantity = request[r].quantity
  PROVE  Sum(Accounts(r), Family(r))' = request'[r].quantity
<1>1. Accounts(r)' = Accounts(r)
  BY DEF Accounts
<1>2. Sum(Accounts(r), Family(r)) = request[r].quantity
  BY DEF QuantityConserved, Accounts, Family
<1> QED BY <1>1, <1>2

LEMMA OpenedAccounts ==
  ASSUME TypeOK, TypeOK', RootsStored, QuantityConserved,
         NEW i \in Requests, FamilyOpened(i),
         NEW r \in Requests, request'[r].root = r
  PROVE  Sum(Accounts(r), Family(r))' = request'[r].quantity
<1>1. i \notin Family(i) /\ request[i].root = 0
  BY DEF FamilyOpened, NoRequest, Family, Requests
<1>2. CASE r = i
  <2>1. Family(i)' = {i}
    <3>1. ASSUME NEW j \in Requests, j # i, request'[j].root = i
          PROVE  FALSE
      <4>1. request[j].root = i
        BY <3>1 DEF FamilyOpened, AccountKept
      <4>2. request[j] # NoRequest
        BY <4>1 DEF NoRequest, Requests
      <4> QED BY <1>1, <4>1, <4>2 DEF RootsStored, Requests
    <3> QED BY <3>1 DEF Family, FamilyOpened
  <2>2. Accounts(i)' \in [{i} -> Nat] /\ Accounts(i)'[i] = request'[i].quantity
    BY <2>1, SettledTypedNext DEF SettledTypes, Accounts, FamilyOpened
  <2>3. Sum(Accounts(i)', {i}) = request'[i].quantity
    BY <2>2, SumOfOne
  <2> QED BY <1>2, <2>1, <2>3
<1>3. CASE r # i
  <2>1. Family(r)' = Family(r) /\ i \notin Family(r)
    BY <1>1, <1>3 DEF Family, FamilyOpened, AccountKept, Requests
  <2>2. \A j \in Family(r) : Settled(j)' = Settled(j)
    BY <2>1 DEF Family, FamilyOpened, AccountKept
  <2> QED BY <1>3, <2>1, <2>2, KeptAccounts DEF FamilyOpened, AccountKept
<1> QED BY <1>2, <1>3

LEMMA SplitAccounts ==
  ASSUME TypeOK, TypeOK', RootsStored, QuantityConserved,
         NEW i \in Requests, NEW k \in Requests, AccountSplit(i, k),
         NEW r \in Requests, request'[r].root = r
  PROVE  Sum(Accounts(r), Family(r))' = request'[r].quantity
<1>1. /\ request[k].root = 0 /\ request[i].root \in Requests
      /\ request[request[i].root].root = request[i].root
  BY SettledTyped DEF SettledTypes, AccountSplit, NoRequest, RootsStored
<1>2. request[i].root # k
  BY <1>1 DEF Requests
<1>3. r # k
  BY <1>2 DEF AccountSplit
<1>4. request[r].root = r /\ request'[r].quantity = request[r].quantity
  BY <1>3 DEF AccountSplit, AccountKept
<1>5. CASE r # request[i].root
  <2>1. Family(r)' = Family(r) /\ i \notin Family(r) /\ k \notin Family(r)
    BY <1>1, <1>5 DEF Family, AccountSplit, AccountKept, Requests
  <2>2. \A j \in Family(r) : Settled(j)' = Settled(j)
    BY <2>1 DEF Family, AccountSplit, AccountKept
  <2> QED BY <1>4, <2>1, <2>2, KeptAccounts
<1>6. CASE r = request[i].root
  <2> DEFINE F == Family(r)
             f == Accounts(r)
             h == Accounts(r)'
             hF == [j \in F |-> h[j]]
             rest == [j \in F \ {i} |-> f[j]]
  <2>1. i \in F /\ k \notin F /\ Family(r)' = F \cup {k}
    BY <1>1, <1>6 DEF Family, AccountSplit, AccountKept, Requests
  <2>2. IsFiniteSet(F) /\ f \in [F -> Nat]
    BY FamilyTyped
  <2>3. IsFiniteSet(F \cup {k}) /\ h \in [F \cup {k} -> Nat]
    <3>1. \A j \in Family(r)' : Settled(j)' \in Nat
      BY SettledTypedNext DEF SettledTypes, Family
    <3> QED BY <2>1, <2>2, <3>1, FS_AddElement DEF Accounts
  <2>4. /\ \A j \in F \ {i} : h[j] = f[j]
        /\ h[i] + h[k] = f[i]
    BY <2>1 DEF Accounts, AccountSplit, AccountKept, Family
  <2>5. Sum(f, F) = request[r].quantity
    BY <1>4 DEF QuantityConserved, Accounts, Family
  <2> HIDE DEF F, f, h
  <2>6. hF \in [F -> Nat] /\ rest \in [F \ {i} -> Nat]
    BY <2>2, <2>3
  <2>7. (F \cup {k}) \ {k} = F
    BY <2>1
  <2>8. Sum(h, F \cup {k}) = h[k] + Sum(hF, F)
    <3>1. \A j \in F : hF[j] = h[j]
      OBVIOUS
    <3> HIDE DEF hF
    <3>2. Sum(h, F \cup {k}) = h[k] + Sum(hF, (F \cup {k}) \ {k})
      BY <2>3, <2>6, <2>7, <3>1, SumSplit
    <3> QED BY <2>7, <3>2
  <2>9. Sum(hF, F) = h[i] + Sum(rest, F \ {i})
    <3>1. hF[i] = h[i] /\ \A j \in F \ {i} : rest[j] = hF[j]
      BY <2>1, <2>4
    <3> HIDE DEF hF, rest
    <3> QED BY <2>1, <2>2, <2>6, <3>1, SumSplit
  <2>10. Sum(f, F) = f[i] + Sum(rest, F \ {i}) /\ Sum(rest, F \ {i}) \in Nat
    <3>1. \A j \in F \ {i} : rest[j] = f[j]
      OBVIOUS
    <3> HIDE DEF rest
    <3> QED BY <2>1, <2>2, <2>6, <3>1, SumSplit
  <2>11. h[i] \in Nat /\ h[k] \in Nat
    BY <2>1, <2>3
  <2>12. Sum(h, F \cup {k}) = request[r].quantity
    <3> HIDE DEF hF, rest
    <3> QED BY <2>4, <2>5, <2>8, <2>9, <2>10, <2>11
  <2> QED BY <1>4, <2>1, <2>12 DEF F, h
<1> QED BY <1>5, <1>6

LEMMA ConservedKept ==
  ASSUME TypeOK, TypeOK', RootsStored, QuantityConserved, AccountEffect
  PROVE  QuantityConserved' /\ RootsStored'
<1>1. ASSUME NEW r \in Requests, request'[r].root = r
      PROVE  Sum(Accounts(r), Family(r))' = request'[r].quantity
  <2>1. CASE \A i \in Requests : AccountKept(i)
    <3>1. Family(r)' = Family(r) /\ \A i \in Family(r) : Settled(i)' = Settled(i)
      BY <2>1 DEF Family, AccountKept
    <3> QED BY <1>1, <2>1, <3>1, KeptAccounts DEF AccountKept
  <2> QED BY <1>1, <2>1, OpenedAccounts, SplitAccounts DEF AccountEffect
<1>2. QuantityConserved'
  BY <1>1 DEF QuantityConserved, Accounts, Family
<1>3. ASSUME NEW j \in Requests, request'[j] # NoRequest
      PROVE  request'[request'[j].root].root = request'[j].root
  <2>0. request'[j].root \in Requests
    BY <1>3, SettledTypedNext DEF SettledTypes
  <2>1. ASSUME NEW l \in Requests, request[l] # NoRequest
        PROVE  /\ request[l].root \in Requests
               /\ request[request[l].root].root = request[l].root
    BY <2>1, SettledTyped DEF SettledTypes, RootsStored
  <2>2. ASSUME NEW l \in Requests, request[l].root \in Requests
        PROVE  request[l] # NoRequest
    BY <2>2, SettledTyped DEF SettledTypes
  <2>3. CASE \A i \in Requests : AccountKept(i)
    BY <2>0, <2>1, <2>2, <2>3 DEF AccountKept
  <2>4. ASSUME NEW i \in Requests, FamilyOpened(i)
        PROVE  request'[request'[j].root].root = request'[j].root
    BY <2>0, <2>1, <2>2, <2>4 DEF FamilyOpened, AccountKept
  <2>5. ASSUME NEW i \in Requests, NEW k \in Requests, AccountSplit(i, k)
        PROVE  request'[request'[j].root].root = request'[j].root
    <3>1. request[k].root = 0 /\ 0 \notin Requests
      BY <2>5 DEF AccountSplit, NoRequest, Requests
    <3>2. \A l \in Requests \ {k} : request'[l].root = request[l].root
      BY <2>5 DEF AccountSplit, AccountKept
    <3>3. request[i].root \in Requests /\ request'[k].root = request[i].root
          /\ request[request[i].root].root = request[i].root
      BY <2>1, <2>5 DEF AccountSplit
    <3>4. CASE j = k
      BY <3>1, <3>2, <3>3, <3>4
    <3>5. CASE j # k
      BY <2>0, <2>1, <2>2, <3>1, <3>2, <3>5
    <3> QED BY <3>4, <3>5
  <2> QED BY <2>3, <2>4, <2>5 DEF AccountEffect
<1> QED BY <1>2, <1>3 DEF RootsStored

\* ReceiptsCounted for one row.
Counted(i) ==
  request[i] # NoRequest /\ IsReceipt(i) =>
    /\ request[i].direction = "inbound"
    /\ Cardinality(request[i].items) = request[i].quantity

\* A step that writes one row, or none.
LEMMA OneRowAccounts ==
  ASSUME TypeOK, ReceiptsCounted, NEW i \in Requests,
         \A j \in Requests \ {i} : request'[j] = request[j],
         \/ AccountKept(i)
         \/ /\ request[i] = NoRequest /\ request'[i].root = i
            /\ Settled(i)' = request'[i].quantity,
         Counted(i)'
  PROVE  AccountEffect /\ ReceiptsCounted'
<1>2. \A j \in Requests \ {i} : AccountKept(j) /\ Counted(j)'
  BY DEF AccountKept, Settled, ReceiptsCounted, Counted, IsReceipt
<1>3. ReceiptsCounted'
  BY <1>2 DEF ReceiptsCounted, Counted
<1> QED BY <1>2, <1>3 DEF AccountEffect, FamilyOpened

LEMMA MovePhaseAccounts ==
  ASSUME KeptInv, ReceiptsCounted, NEW i \in Requests, NEW from, NEW to,
         MovePhase(i, from, to), from \notin {"none", "completed"}, to # "completed"
  PROVE  AccountEffect /\ ReceiptsCounted'
<1>0. TypeOK
  BY DEF KeptInv, IInv
<1> DEFINE r == [request[i] EXCEPT !.phase = to]
<1>1. request[i] \in RequestRow /\ request[i] # NoRequest /\ request[i].phase = from
  BY <1>0 DEF MovePhase, NoRequest, TypeOK
<1>2. request'[i] = r /\ \A j \in Requests \ {i} : request'[j] = request[j]
  BY <1>0 DEF MovePhase, TypeOK
<1>3. /\ r.root = request[i].root /\ r.quantity = request[i].quantity
      /\ r.items = request[i].items /\ r.origin = request[i].origin
      /\ r.direction = request[i].direction /\ r.phase = to
  BY <1>1 DEF RequestRow
<1> HIDE DEF r
<1>4. AccountKept(i)
  BY <1>1, <1>2, <1>3 DEF AccountKept, Settled
<1>5. Counted(i)'
  BY <1>1, <1>2, <1>3 DEF Counted, ReceiptsCounted, IsReceipt
<1> QED BY <1>0, <1>2, <1>4, <1>5, OneRowAccounts

LEMMA OverriddenAccounts ==
  ASSUME KeptInv, ReceiptsCounted, NEW b \in Boxes, request' = Overridden(b)
  PROVE  AccountEffect /\ ReceiptsCounted'
<1>1. ASSUME NEW i \in Requests
      PROVE  AccountKept(i) /\ Counted(i)'
  <2>1. CASE Reserves(i, b)
    <3>1. request[i] \in RequestRow /\ request[i].phase # "completed" /\ request[i] # NoRequest
      BY <2>1 DEF Reserves, NoRequest, KeptInv, IInv, TypeOK, IsActive, ActivePhases,
                  Phases!ActivePhases
    <3>2. request'[i] = [request[i] EXCEPT !.phase = "closed"]
      BY <2>1 DEF Overridden
    <3>3. /\ request'[i].root = request[i].root /\ request'[i].quantity = request[i].quantity
          /\ request'[i].items = request[i].items /\ request'[i].origin = request[i].origin
          /\ request'[i].direction = request[i].direction /\ request'[i].phase = "closed"
      BY <3>1, <3>2 DEF RequestRow
    <3> QED BY <3>1, <3>3 DEF AccountKept, Settled, Counted, ReceiptsCounted, IsReceipt
  <2>2. CASE ~Reserves(i, b)
    <3>1. request'[i] = request[i]
      BY <2>2 DEF Overridden
    <3> QED BY <3>1 DEF AccountKept, Settled, Counted, ReceiptsCounted, IsReceipt
  <2> QED BY <2>1, <2>2
<1> QED BY <1>1 DEF AccountEffect, ReceiptsCounted, Counted

\* What a completion settles and what it leaves to the follow-up add up to
\* what was asked for.
LEMMA CompletionAccounts ==
  ASSUME KeptInv, ReceiptsCounted, NEW i \in Requests, request[i].phase = "awaiting",
         NEW items \in SUBSET Boxes, NEW got \in Nat, NEW rest \in Nat, NEW phase,
         phase # "completed", ~IsReceipt(i),
         rest = (IF got < request[i].quantity THEN request[i].quantity - got ELSE 0),
         Completion(i, items, got, rest, phase)
  PROVE  AccountEffect /\ ReceiptsCounted'
<1>0. TypeOK
  BY DEF KeptInv, IInv
<1> DEFINE done == [request[i] EXCEPT !.phase = "completed", !.items = items,
                                      !.actual = got]
           next == [phase |-> phase, direction |-> request[i].direction,
                    origin |-> "follow_up", warehouse |-> request[i].warehouse,
                    target |-> request[i].target, quantity |-> rest,
                    items |-> {}, source |-> request[i].source,
                    root |-> request[i].root, actual |-> 0]
<1>1. IF rest = 0 THEN request' = [request EXCEPT ![i] = done]
      ELSE \E k \in Requests :
             IsFresh(k) /\ request' = [request EXCEPT ![i] = done, ![k] = next]
  BY <1>0 DEF Completion, TypeOK
<1>2. request[i] \in RequestRow /\ request[i] # NoRequest
  BY <1>0 DEF NoRequest, TypeOK
<1>3. /\ done.root = request[i].root /\ done.quantity = request[i].quantity
      /\ done.origin = request[i].origin /\ done.actual = got /\ done.phase = "completed"
      /\ request[i].quantity \in Nat
  BY <1>2 DEF RequestRow
<1>4. /\ next.origin = "follow_up" /\ next.root = request[i].root /\ next.quantity = rest
      /\ next.phase = phase
  OBVIOUS
<1>5. Settled(i) = request[i].quantity
  BY DEF Settled
<1> HIDE DEF done, next
<1>6. CASE rest = 0 /\ request' = [request EXCEPT ![i] = done]
  <2>1. request'[i] = done /\ \A j \in Requests \ {i} : request'[j] = request[j]
    BY <1>0, <1>6 DEF TypeOK
  <2>2. AccountKept(i)
    BY <1>3, <1>5, <1>6, <2>1 DEF AccountKept, Settled
  <2>3. Counted(i)'
    BY <1>3, <2>1 DEF Counted, IsReceipt
  <2> QED BY <1>0, <2>1, <2>2, <2>3, OneRowAccounts
<1>7. ASSUME NEW k \in Requests, rest # 0, IsFresh(k),
             request' = [request EXCEPT ![i] = done, ![k] = next]
      PROVE  AccountEffect /\ ReceiptsCounted'
  <2>1. k # i /\ request[k] = NoRequest
    BY <1>2, <1>7 DEF IsFresh
  <2>2. /\ request'[k] = next /\ request'[i] = done
        /\ \A j \in Requests \ {i, k} : request'[j] = request[j]
    BY <1>0, <1>7, <2>1 DEF TypeOK
  <2>3. \A j \in Requests \ {i, k} : AccountKept(j) /\ Counted(j)'
    BY <2>2 DEF AccountKept, Settled, ReceiptsCounted, Counted, IsReceipt
  <2>4. got < request[i].quantity /\ rest = request[i].quantity - got
    BY <1>7
  <2>5. Settled(i)' = got /\ Settled(k)' = rest
    BY <1>3, <1>4, <2>2, <2>4 DEF Settled
  <2>6. AccountSplit(i, k)
    BY <1>2, <1>3, <1>4, <1>5, <2>1, <2>2, <2>3, <2>4, <2>5 DEF AccountSplit
  <2>7. Counted(i)' /\ Counted(k)'
    BY <1>3, <1>4, <2>2 DEF Counted, IsReceipt
  <2>8. ReceiptsCounted'
    BY <2>3, <2>7 DEF ReceiptsCounted, Counted
  <2> QED BY <2>6, <2>8 DEF AccountEffect
<1> QED BY <1>1, <1>6, <1>7

LEMMA RequestStepAccounts ==
  ASSUME KeptInv, ReceiptsCounted, NEW i \in Requests, RequestStep(i)
  PROVE  AccountEffect /\ ReceiptsCounted'
<1>0. TypeOK
  BY DEF KeptInv, IInv
<1>a. ASSUME NEW r, request' = [request EXCEPT ![i] = r], request[i] = NoRequest,
             r.root = i, r.phase = "completed" => r.actual = r.quantity,
             r.origin \in {"receipt", "restoring_receipt"} =>
               r.direction = "inbound" /\ Cardinality(r.items) = r.quantity,
             r.quantity \in Nat
      PROVE  AccountEffect /\ ReceiptsCounted'
  <2>1. request'[i] = r /\ \A j \in Requests \ {i} : request'[j] = request[j]
    BY <1>0, <1>a DEF TypeOK
  <2>2. Settled(i)' = r.quantity
    BY <1>a, <2>1 DEF Settled
  <2>3. Counted(i)'
    BY <1>a, <2>1 DEF Counted, IsReceipt
  <2> QED BY <1>0, <1>a, <2>1, <2>2, <2>3, OneRowAccounts
<1>b. ASSUME request[i].phase # "none"
      PROVE  request[i] \in RequestRow /\ request[i] # NoRequest
  BY <1>0, <1>b DEF NoRequest, TypeOK
<1>1. ASSUME NEW w \in Warehouses, NEW q \in 1..MaxQuantity, CreateInbound(i, w, q)
      PROVE  AccountEffect /\ ReceiptsCounted'
  <2> DEFINE r == [phase |-> "open", direction |-> "inbound", origin |-> "workflow",
                   warehouse |-> w, target |-> NoWarehouse, quantity |-> q,
                   items |-> {}, source |-> 0, root |-> i, actual |-> 0]
  <2>1. request' = [request EXCEPT ![i] = r] /\ request[i] = NoRequest
    BY <1>1 DEF CreateInbound, IsFresh
  <2>2. /\ r.root = i /\ r.phase = "open" /\ r.origin = "workflow" /\ r.quantity \in Nat
    BY BoundsAssumption
  <2> HIDE DEF r
  <2> QED BY <1>a, <2>1, <2>2
<1>2. ASSUME NEW src \in Requests, NEW t \in Warehouses, NEW S \in SUBSET Boxes,
             CreateReturn(i, src, t, S)
      PROVE  AccountEffect /\ ReceiptsCounted'
  <2> DEFINE r == [phase |-> "open", direction |-> "return", origin |-> "workflow",
                   warehouse |-> request[src].warehouse, target |-> t,
                   quantity |-> Cardinality(S), items |-> S,
                   source |-> src, root |-> i, actual |-> 0]
  <2>1. request' = [request EXCEPT ![i] = r] /\ request[i] = NoRequest
    BY <1>2 DEF CreateReturn, IsFresh
  <2>2. /\ r.root = i /\ r.phase = "open" /\ r.origin = "workflow" /\ r.quantity \in Nat
    BY BoxSets
  <2> HIDE DEF r
  <2> QED BY <1>a, <2>1, <2>2
<1>3. ASSUME StartTransit(i) \/ RetryTransport(i) \/ MarkArrived(i) \/ Withdraw(i)
      PROVE  AccountEffect /\ ReceiptsCounted'
  BY <1>3, MovePhaseAccounts DEF StartTransit, RetryTransport, MarkArrived, Withdraw
<1>4. ASSUME NEW S \in SUBSET Boxes, CompleteInbound(i, S)
      PROVE  AccountEffect /\ ReceiptsCounted'
  <2>1. request[i] \in RequestRow /\ request[i] # NoRequest /\ request[i].phase = "awaiting"
        /\ request[i].items = {}
    BY <1>b, <1>4 DEF CompleteInbound
  <2> DEFINE got  == Cardinality(S)
             rest == IF got < request[i].quantity THEN request[i].quantity - got ELSE 0
  <2>2. Completion(i, S, got, rest, "open")
    BY <1>4 DEF CompleteInbound
  <2>3. request[i].quantity \in Nat \ {0} /\ got \in Nat
    BY <2>1, BoxSets DEF RequestRow
  <2>4. ~IsReceipt(i)
    BY <2>1, <2>3, FS_EmptySet DEF ReceiptsCounted
  <2>5. rest \in Nat
    BY <2>3
  <2> HIDE DEF got
  <2> QED BY <2>1, <2>2, <2>3, <2>4, <2>5, CompletionAccounts
<1>5. ASSUME NEW S \in SUBSET Boxes, CompleteReturn(i, S)
      PROVE  AccountEffect /\ ReceiptsCounted'
  <2>1. /\ request[i] \in RequestRow /\ request[i] # NoRequest /\ request[i].phase = "awaiting"
        /\ request[i].direction = "return" /\ S \subseteq request[i].items
        /\ Cardinality(request[i].items) = request[i].quantity
    BY <1>b, <1>5 DEF CompleteReturn
  <2> DEFINE items == request[i].items
             got  == Cardinality(S)
             rest == Cardinality(items \ S)
  <2>2. Completion(i, items, got, rest, "draft")
    BY <1>5 DEF CompleteReturn
  <2>3. items \in SUBSET Boxes /\ IsFiniteSet(items)
    BY <2>1, BoxesAssumption, FS_Subset DEF RequestRow
  <2>4. ~IsReceipt(i)
    BY <2>1 DEF ReceiptsCounted
  <2>5. got \in Nat /\ rest \in Nat /\ rest = Cardinality(items) - got
    <3>1. items \cap S = S
      BY <2>1
    <3>2. rest = Cardinality(items) - Cardinality(items \cap S)
      BY <2>3, FS_Difference
    <3>3. items \ S \in SUBSET Boxes
      BY <2>3
    <3> QED BY <3>1, <3>2, <3>3, BoxSets
  <2>6. Cardinality(items) = request[i].quantity /\ request[i].quantity \in Nat
    BY <2>1 DEF RequestRow
  <2> HIDE DEF items, got, rest
  <2>7. rest = (IF got < request[i].quantity THEN request[i].quantity - got ELSE 0)
    BY <2>5, <2>6
  <2> QED BY <2>1, <2>2, <2>3, <2>4, <2>5, <2>7, CompletionAccounts
<1>6. ASSUME NEW S \in SUBSET Boxes, SubmitFollowUpDraft(i, S)
      PROVE  AccountEffect /\ ReceiptsCounted'
  <2> DEFINE r == [request[i] EXCEPT !.phase = "open", !.items = S]
  <2>1. request[i] \in RequestRow /\ request[i].phase = "draft" /\ request[i] # NoRequest
        /\ request[i].direction = "return"
    BY <1>b, <1>6 DEF SubmitFollowUpDraft, KeptInv, DraftsAreReturns
  <2>2. request'[i] = r /\ \A j \in Requests \ {i} : request'[j] = request[j]
    BY <1>0, <1>6 DEF SubmitFollowUpDraft, TypeOK
  <2>3. /\ r.root = request[i].root /\ r.quantity = request[i].quantity
        /\ r.origin = request[i].origin /\ r.phase = "open"
    BY <2>1 DEF RequestRow
  <2>4. ~IsReceipt(i)
    BY <2>1 DEF ReceiptsCounted
  <2> HIDE DEF r
  <2>5. AccountKept(i)
    BY <2>1, <2>2, <2>3 DEF AccountKept, Settled
  <2>6. Counted(i)'
    BY <2>2, <2>3, <2>4 DEF Counted, IsReceipt
  <2> QED BY <1>0, <2>2, <2>5, <2>6, OneRowAccounts
<1>7. ASSUME NEW w \in Warehouses, NEW S \in SUBSET Boxes, CompletedReceipt(i, w, S)
      PROVE  AccountEffect /\ ReceiptsCounted'
  <2> DEFINE r == [phase |-> "completed", direction |-> "inbound", origin |-> "receipt",
                   warehouse |-> w, target |-> NoWarehouse, quantity |-> Cardinality(S),
                   items |-> S, source |-> 0, root |-> i, actual |-> Cardinality(S)]
  <2>1. request' = [request EXCEPT ![i] = r] /\ request[i] = NoRequest
    BY <1>7 DEF CompletedReceipt, IsFresh
  <2>2. /\ r.root = i /\ r.direction = "inbound" /\ r.actual = r.quantity
        /\ Cardinality(r.items) = r.quantity /\ r.quantity \in Nat
    BY BoxSets
  <2> HIDE DEF r
  <2> QED BY <1>a, <2>1, <2>2
<1>8. ASSUME NEW w \in Warehouses, NEW S \in SUBSET Boxes,
             NEW o \in {"receipt", "restoring_receipt"}, StageReceipt(i, w, S, o)
      PROVE  AccountEffect /\ ReceiptsCounted'
  <2> DEFINE r == [phase |-> "open", direction |-> "inbound", origin |-> o,
                   warehouse |-> w, target |-> NoWarehouse, quantity |-> Cardinality(S),
                   items |-> S, source |-> 0, root |-> i, actual |-> 0]
  <2>1. request' = [request EXCEPT ![i] = r] /\ request[i] = NoRequest
    BY <1>8 DEF StageReceipt, IsFresh
  <2>2. /\ r.root = i /\ r.direction = "inbound" /\ r.phase = "open"
        /\ Cardinality(r.items) = r.quantity /\ r.quantity \in Nat
    BY BoxSets
  <2> HIDE DEF r
  <2> QED BY <1>a, <2>1, <2>2
<1>9. ASSUME NEW s \in {"received", "quarantined"}, FinalizeReceipt(i, s)
      PROVE  AccountEffect /\ ReceiptsCounted'
  <2> DEFINE r == [request[i] EXCEPT !.phase = "completed",
                                     !.actual = Cardinality(request[i].items)]
  <2>1. request[i] \in RequestRow /\ request[i].phase = "open" /\ request[i] # NoRequest
        /\ IsReceipt(i)
    BY <1>b, <1>9 DEF FinalizeReceipt
  <2>2. request'[i] = r /\ \A j \in Requests \ {i} : request'[j] = request[j]
    BY <1>0, <1>9 DEF FinalizeReceipt, TypeOK
  <2>3. /\ r.root = request[i].root /\ r.quantity = request[i].quantity
        /\ r.origin = request[i].origin /\ r.items = request[i].items
        /\ r.direction = request[i].direction /\ r.actual = Cardinality(request[i].items)
        /\ request[i].quantity \in Nat
    BY <2>1 DEF RequestRow
  <2>4. /\ Cardinality(request[i].items) = request[i].quantity
        /\ request[i].direction = "inbound"
    BY <2>1 DEF ReceiptsCounted
  <2> HIDE DEF r
  <2>5. AccountKept(i)
    BY <2>1, <2>2, <2>3, <2>4 DEF AccountKept, Settled
  <2>6. Counted(i)'
    BY <2>2, <2>3, <2>4 DEF Counted, IsReceipt
  <2> QED BY <1>0, <2>2, <2>5, <2>6, OneRowAccounts
<1> QED
  BY <1>1, <1>2, <1>3, <1>4, <1>5, <1>6, <1>7, <1>8, <1>9 DEF RequestStep

LEMMA StepAccounts ==
  ASSUME KeptInv, ReceiptsCounted, [Next]_vars
  PROVE  AccountEffect /\ ReceiptsCounted'
<1>1. ASSUME request' = request
      PROVE  AccountEffect /\ ReceiptsCounted'
  BY <1>1 DEF AccountEffect, AccountKept, Settled, ReceiptsCounted, IsReceipt
<1>2. ASSUME NEW b \in Boxes, BoxStep(b)
      PROVE  AccountEffect /\ ReceiptsCounted'
  BY <1>1, <1>2, OverriddenAccounts
     DEF BoxStep, UpdateBox, ForceUpdateBox, DeleteBox, ForceDeleteBox, ForceFileChange
<1>3. ASSUME NEW w \in Warehouses, ArchiveWarehouse(w) \/ RestoreWarehouse(w)
      PROVE  request' = request
  BY <1>3 DEF ArchiveWarehouse, RestoreWarehouse
<1>4. CASE UNCHANGED vars
  BY <1>1, <1>4 DEF vars
<1> QED BY <1>1, <1>2, <1>3, <1>4, RequestStepAccounts DEF Next

\* However often requests are completed in part, the settled and the open
\* quantities of a family add up to what was first requested.
THEOREM QuantitiesAddUp == Spec => []QuantityConserved
<1>1. Init => RootsStored /\ ReceiptsCounted /\ QuantityConserved
  BY DEF Init, RootsStored, ReceiptsCounted, QuantityConserved, NoRequest, Requests
<1>2. ASSUME KeptInv, KeptInv', RootsStored, ReceiptsCounted, QuantityConserved, [Next]_vars
      PROVE  RootsStored' /\ ReceiptsCounted' /\ QuantityConserved'
  <2>1. TypeOK /\ TypeOK'
    BY <1>2 DEF KeptInv, IInv
  <2> QED BY <1>2, <2>1, StepAccounts, ConservedKept
<1> QED BY <1>1, <1>2, KeptInvHolds, PTL DEF Spec

=============================================================================
