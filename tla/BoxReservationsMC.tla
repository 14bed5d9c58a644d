------------------------- MODULE BoxReservationsMC -------------------------
(***************************************************************************)
(* Two instances of BoxReservations for TLC.  FreshSpec is every operation *)
(* from a database with at most one box of an earlier release, with few    *)
(* requests; StockedSpec starts where boxes are ready to be returned and   *)
(* leaves the rows to the returns and their follow-ups.                    *)
(***************************************************************************)
EXTENDS BoxReservations, TLC

CONSTANTS Home,         \* the warehouse that is stocked
          Twice         \* boxes that came in a second time

Symmetry == Permutations(Boxes) \union Permutations(Warehouses)

Fresh == Init /\ Cardinality({b \in Boxes : Stored(b)}) <= 1

FreshSpec == Fresh /\ [][Next]_vars

Receipt(i, boxes) ==
  [phase |-> "completed", direction |-> "inbound", origin |-> "receipt",
   warehouse |-> Home, target |-> NoWarehouse, quantity |-> Cardinality(boxes),
   items |-> boxes, source |-> 0, root |-> i, actual |-> Cardinality(boxes)]

\* Every box came in with receipt 1; those of Twice were archived, restored by
\* the import that is receipt 2, and all were worked on to the end.
Stocked ==
  /\ box = [b \in Boxes |-> [status |-> "ready_to_return", warehouse |-> Home,
                             archived |-> FALSE]]
  /\ request = [i \in Requests |-> CASE i = 1 -> Receipt(1, Boxes)
                                     [] i = 2 -> Receipt(2, Twice)
                                     [] OTHER -> NoRequest]
  /\ active = [w \in Warehouses |-> TRUE]

ReturnStep(i) ==
  \/ \E src \in Requests, t \in Warehouses, S \in SUBSET Boxes : CreateReturn(i, src, t, S)
  \/ StartTransit(i) \/ RetryTransport(i) \/ MarkArrived(i) \/ Withdraw(i)
  \/ \E S \in SUBSET Boxes : CompleteReturn(i, S) \/ SubmitFollowUpDraft(i, S)

StockedNext ==
  \/ \E i \in Requests : ReturnStep(i)
  \/ \E b \in Boxes : \/ \E w \in Warehouses : ForceUpdateBox(b, w, "ready_to_return")
                      \/ ForceDeleteBox(b) \/ ForceFileChange(b)
  \/ \E w \in Warehouses : ArchiveWarehouse(w) \/ RestoreWarehouse(w)

StockedSpec == Stocked /\ [][StockedNext]_vars

=============================================================================
