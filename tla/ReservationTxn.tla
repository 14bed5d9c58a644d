--------------------------- MODULE ReservationTxn ---------------------------
(***************************************************************************)
(* The database transactions behind return reservations, box edits, intake *)
(* and warehouse archival, at the grain of row locks and statements.       *)
(* BoxReservations takes each of these operations as one step; here they   *)
(* interleave, as they do between two API processes, and between the       *)
(* worker threads that serve warehouse archival and the event loop that    *)
(* serves the rest.                                                        *)
(*                                                                         *)
(* Transactions run at READ COMMITTED: every statement sees what was       *)
(* committed when it began; SELECT ... FOR UPDATE takes its rows one after *)
(* the other, waits for each, and looks at a row again once it has it, but *)
(* not at the sub-queries of its condition.  A transaction that decides by *)
(* rows it holds commits in the same step.                                 *)
(*                                                                         *)
(* A transaction runs once; the request it leaves behind is known by it.   *)
(***************************************************************************)
EXTENDS Naturals, FiniteSets

CONSTANTS Txns, NoTxn,
          Warehouses, Sources, Boxes, Files,  \* rows, numbered through the
                                              \* tables as they are locked
          WarehouseOf,  \* the warehouse of a completed inbound request
          ItemsOf,      \* its boxes
          Home,         \* current_warehouse_id of a box
          FilesOf,      \* its active files; of archived ones only edits of the
                        \* same box ask for the lock, and in the same order
          Kinds         \* the transactions that may run

Kind == {"create", "draft", "edit", "intake", "archive", "restore"}

Rows == Warehouses \union Sources \union Boxes \union Files

ASSUME TablesAssumption ==
  /\ Rows \subseteq Nat
  /\ \A w \in Warehouses, s \in Sources : w < s
  /\ \A s \in Sources, b \in Boxes : s < b
  /\ \A w \in Warehouses, b \in Boxes : w < b
  /\ \A r \in Warehouses \union Sources \union Boxes, f \in Files : r < f
  /\ IsFiniteSet(Warehouses)

ASSUME RelationsAssumption ==
  /\ WarehouseOf \in [Sources -> Warehouses]
  /\ ItemsOf \in [Sources -> SUBSET Boxes]
  /\ Home \in [Boxes -> Warehouses]
  /\ FilesOf \in [Boxes -> SUBSET Files]
  /\ Kinds \subseteq Kind
  /\ NoTxn \notin Txns

VARIABLES
  op,       \* what each transaction does, and to what
  pc,       \* the statement it is at
  todo,     \* the rows that statement has still to lock
  cand,     \* the candidate rows of the selection statement
  lock,     \* FOR UPDATE and UPDATE locks
  status,   \* Box.status
  active,   \* Warehouse.is_active
  stocked,  \* whether intake put a new box into a warehouse
  request   \* the return request of a create or draft transaction

vars == <<op, pc, todo, cand, lock, status, active, stocked, request>>

Statement == {"idle", "warehouses", "source", "boxes", "files", "guard",
              "history", "write", "insert", "archive", "done"}

\* The part of Box.status a non-admin edit walks through before the end.
BoxStatus == {"incomplete", "ready_to_return", "returned"}

Op == [kind : Kind \union {"none"}, source : Sources \union {0},
       target : Warehouses \union {0}, boxes : SUBSET Boxes,
       seen : BoxStatus]

NoOp == [kind |-> "none", source |-> 0, target |-> 0, boxes |-> {},
         seen |-> "incomplete"]

TypeOK ==
  /\ op \in [Txns -> Op]
  /\ pc \in [Txns -> Statement]
  /\ todo \in [Txns -> SUBSET Rows]
  /\ cand \in [Txns -> SUBSET Boxes]
  /\ lock \in [Rows -> Txns \union {NoTxn}]
  /\ status \in [Boxes -> BoxStatus]
  /\ active \in [Warehouses -> BOOLEAN]
  /\ stocked \in [Warehouses -> BOOLEAN]
  /\ request \in [Txns -> {"none", "draft", "active", "cancelled"}]

\* A completed return left a draft for its rest; it needs both warehouses, as
\* the return did before.
Draft == [kind : {"draft"}, source : Sources, target : Warehouses,
          boxes : {{}}, seen : {"incomplete"}]

Init ==
  /\ op \in [Txns -> {NoOp} \union {d \in Draft : d.kind \in Kinds}]
  /\ pc = [t \in Txns |-> "idle"]
  /\ todo = [t \in Txns |-> {}]
  /\ cand = [t \in Txns |-> {}]
  /\ lock = [r \in Rows |-> NoTxn]
  /\ status \in [Boxes -> BoxStatus]
  /\ active = [w \in Warehouses |-> TRUE]
  /\ stocked = [w \in Warehouses |-> FALSE]
  /\ request = [t \in Txns |-> IF op[t] = NoOp THEN "none" ELSE "draft"]

-----------------------------------------------------------------------------
(* What statements see.                                                    *)

Reserved == UNION {op[t].boxes : t \in {u \in Txns : request[u] = "active"}}

\* The warehouses a request, or a draft nobody has submitted, needs.
Needs(t, w) ==
  /\ request[t] \in {"draft", "active"}
  /\ w \in {op[t].target, WarehouseOf[op[t].source]}

\* _return_candidate_stmt of the source of t.
Candidates(s) ==
  {b \in ItemsOf[s] : /\ Home[b] = WarehouseOf[s]
                      /\ status[b] = "ready_to_return"
                      /\ b \notin Reserved}

Occupied(w) ==
  stocked[w] \/ \E b \in Boxes : Home[b] = w /\ status[b] # "returned"

Goes(t, from, to) == pc[t] = from /\ pc' = [pc EXCEPT ![t] = to]

Free(t, kind) == op[t] = NoOp /\ kind \in Kinds

\* Commit and rollback release every lock.
Ends(t) ==
  /\ pc' = [pc EXCEPT ![t] = "done"]
  /\ lock' = [r \in Rows |-> IF lock[r] = t THEN NoTxn ELSE lock[r]]
  /\ todo' = [todo EXCEPT ![t] = {}]

\* The locking statement t is at has all its rows.
Locked(t, statement) == pc[t] = statement /\ todo[t] = {}

\* SELECT ... FOR UPDATE locks row r; a box that is no longer ready drops out
\* of the result, but stays locked.
Take(t, r) ==
  /\ lock[r] = NoTxn
  /\ lock' = [lock EXCEPT ![r] = t]
  /\ todo' = [todo EXCEPT ![t] = @ \ {r}]
  /\ cand' = [cand EXCEPT ![t] =
       @ \ {b \in {r} \intersect Boxes : status[b] # "ready_to_return"}]
  /\ UNCHANGED <<op, pc, status, active, stocked, request>>

\* Mutant: warehouse archival locks from the highest id down.
LockNextEitherWay(t, r) ==
  /\ r \in todo[t]
  /\ \A q \in todo[t] : IF op[t].kind = "archive" THEN q <= r ELSE r <= q
  /\ Take(t, r)

\* The rows of a statement are locked in the order of their ids.
LockNext(t, r) ==
  /\ r \in todo[t]
  /\ \A q \in todo[t] : r <= q
  /\ Take(t, r)

-----------------------------------------------------------------------------
(* Reserving boxes: a new return request, or a draft submitted with a new  *)
(* selection.                                                              *)

\* Mutant: only the target, which archival could take away, is locked.
BeginCreateLockingTarget(t, s, w, selection) ==
  /\ Goes(t, "idle", "warehouses") /\ Free(t, "create")
  /\ op' = [op EXCEPT ![t] = [NoOp EXCEPT
       !.kind = "create", !.source = s, !.target = w, !.boxes = selection]]
  /\ todo' = [todo EXCEPT ![t] = {w}]
  /\ UNCHANGED <<cand, lock, status, active, stocked, request>>

\* create_request, up to the locks on the source and target warehouses.
BeginCreate(t, s, w, selection) ==
  /\ Goes(t, "idle", "warehouses") /\ Free(t, "create")
  /\ op' = [op EXCEPT ![t] = [NoOp EXCEPT
       !.kind = "create", !.source = s, !.target = w, !.boxes = selection]]
  /\ todo' = [todo EXCEPT ![t] = {WarehouseOf[s], w}]
  /\ UNCHANGED <<cand, lock, status, active, stocked, request>>

CheckWarehouses(t) ==
  /\ op[t].kind = "create" /\ Locked(t, "warehouses")
  /\ active[WarehouseOf[op[t].source]] /\ active[op[t].target]
  /\ Goes(t, "warehouses", "source")
  /\ todo' = [todo EXCEPT ![t] = {op[t].source}]
  /\ UNCHANGED <<op, cand, lock, status, active, stocked, request>>

\* submit_follow_up_draft; the lock on the draft itself has no competitor here.
BeginSubmit(t, selection) ==
  /\ Goes(t, "idle", "source") /\ request[t] = "draft"
  /\ selection \subseteq ItemsOf[op[t].source]
  /\ op' = [op EXCEPT ![t].boxes = selection]
  /\ todo' = [todo EXCEPT ![t] = {op[t].source}]
  /\ UNCHANGED <<cand, lock, status, active, stocked, request>>

\* Mutant: the candidates are read without FOR UPDATE.
SelectCandidatesUnlocked(t) ==
  /\ Locked(t, "source") /\ active[WarehouseOf[op[t].source]]
  /\ Goes(t, "source", "boxes")
  /\ cand' = [cand EXCEPT ![t] = Candidates(op[t].source)]
  /\ UNCHANGED <<op, todo, lock, status, active, stocked, request>>

\* With the source row locked, the candidates are selected and their locks asked
\* for.
SelectCandidates(t) ==
  /\ Locked(t, "source") /\ active[WarehouseOf[op[t].source]]
  /\ Goes(t, "source", "boxes")
  /\ cand' = [cand EXCEPT ![t] = Candidates(op[t].source)]
  /\ todo' = [todo EXCEPT ![t] = Candidates(op[t].source)]
  /\ UNCHANGED <<op, lock, status, active, stocked, request>>

\* _active_files_by_box_ids: the files of the selected boxes are locked too; the
\* request keeps a copy of them.
SelectFiles(t) ==
  /\ Locked(t, "boxes") /\ op[t].boxes \subseteq cand[t]
  /\ Goes(t, "boxes", "files")
  /\ todo' = [todo EXCEPT ![t] = UNION {FilesOf[b] : b \in op[t].boxes}]
  /\ UNCHANGED <<op, cand, lock, status, active, stocked, request>>

Reserve(t) ==
  /\ Locked(t, "files")
  /\ request' = [request EXCEPT ![t] = "active"]
  /\ Ends(t)
  /\ UNCHANGED <<op, cand, status, active, stocked>>

\* cancel_request and the rejections; a draft cannot be cancelled.
Cancel(t) ==
  /\ request[t] = "active"
  /\ request' = [request EXCEPT ![t] = "cancelled"]
  /\ UNCHANGED <<op, pc, todo, cand, lock, status, active, stocked>>

-----------------------------------------------------------------------------
(* Editing the status of a box without an override.                        *)

\* The router reads the box; its status decides which status may follow.
BeginEdit(t, b) ==
  /\ Goes(t, "idle", "guard") /\ Free(t, "edit")
  /\ active[Home[b]] /\ status[b] # "returned"
  /\ op' = [op EXCEPT ![t] = [NoOp EXCEPT
       !.kind = "edit", !.boxes = {b}, !.seen = status[b]]]
  /\ UNCHANGED <<todo, cand, lock, status, active, stocked, request>>

\* update_box finds no active return request of the box.  Its change is still
\* in the session when emit_inherited_box_file_events locks the files.
GuardEdit(t) ==
  /\ op[t].boxes \intersect Reserved = {}
  /\ Goes(t, "guard", "history")
  /\ todo' = [todo EXCEPT ![t] = UNION {FilesOf[b] : b \in op[t].boxes}]
  /\ UNCHANGED <<op, cand, lock, status, active, stocked, request>>

\* With the files locked the session is flushed: the UPDATE waits for the box.
FlushEdit(t) ==
  /\ Locked(t, "history")
  /\ Goes(t, "history", "write")
  /\ todo' = [todo EXCEPT ![t] = op[t].boxes]
  /\ UNCHANGED <<op, cand, lock, status, active, stocked, request>>

\* _ALLOWED_TRANSITIONS.
Following(s) == IF s = "incomplete" THEN "ready_to_return" ELSE "returned"

\* The UPDATE has overwritten the box, whatever it held; the BoxEvent of the
\* same flush waits, by its foreign key, for the warehouse to be unlocked.
WriteBox(t, b) ==
  /\ Locked(t, "write")
  /\ op[t].boxes = {b} /\ lock[Home[b]] = NoTxn
  /\ status' = [status EXCEPT ![b] = Following(op[t].seen)]
  /\ Ends(t)
  /\ UNCHANGED <<op, cand, active, stocked, request>>

-----------------------------------------------------------------------------
(* Intake, and archiving and restoring a warehouse.                        *)

\* create_box of a box without a pallet reads is_active without a lock.
BeginIntake(t, w) ==
  /\ Goes(t, "idle", "insert") /\ Free(t, "intake")
  /\ active[w]
  /\ op' = [op EXCEPT ![t] = [NoOp EXCEPT !.kind = "intake", !.target = w]]
  /\ UNCHANGED <<todo, cand, lock, status, active, stocked, request>>

\* The foreign key waits for the warehouse row to be unlocked, and only needs
\* it to exist.
InsertBox(t) ==
  /\ Goes(t, "insert", "done")
  /\ lock[op[t].target] = NoTxn
  /\ stocked' = [stocked EXCEPT ![op[t].target] = TRUE]
  /\ UNCHANGED <<op, todo, cand, lock, status, active, request>>

\* archive_warehouse locks every warehouse.
BeginArchive(t, w) ==
  /\ Goes(t, "idle", "warehouses") /\ Free(t, "archive")
  /\ op' = [op EXCEPT ![t] = [NoOp EXCEPT !.kind = "archive", !.target = w]]
  /\ todo' = [todo EXCEPT ![t] = Warehouses]
  /\ UNCHANGED <<cand, lock, status, active, stocked, request>>

\* Mutant: the drafts nobody submitted do not block.
MayArchiveDespiteDraft(w) ==
  /\ active[w] /\ ~Occupied(w)
  /\ \A u \in Txns : request[u] = "active" => ~Needs(u, w)
  /\ \E v \in Warehouses \ {w} : active[v]

MayArchive(w) ==
  /\ active[w] /\ ~Occupied(w)
  /\ \A u \in Txns : ~Needs(u, w)
  /\ \E v \in Warehouses \ {w} : active[v]

CheckArchive(t) ==
  /\ op[t].kind = "archive" /\ Locked(t, "warehouses")
  /\ MayArchive(op[t].target)
  /\ Goes(t, "warehouses", "archive")
  /\ UNCHANGED <<op, todo, cand, lock, status, active, stocked, request>>

Archive(t) ==
  /\ pc[t] = "archive"
  /\ active' = [active EXCEPT ![op[t].target] = FALSE]
  /\ Ends(t)
  /\ UNCHANGED <<op, cand, status, stocked, request>>

BeginRestore(t, w) ==
  /\ Goes(t, "idle", "warehouses") /\ Free(t, "restore")
  /\ op' = [op EXCEPT ![t] = [NoOp EXCEPT !.kind = "restore", !.target = w]]
  /\ todo' = [todo EXCEPT ![t] = {w}]
  /\ UNCHANGED <<cand, lock, status, active, stocked, request>>

Restore(t) ==
  /\ op[t].kind = "restore" /\ Locked(t, "warehouses")
  /\ active' = [active EXCEPT ![op[t].target] = TRUE]
  /\ Ends(t)
  /\ UNCHANGED <<op, cand, status, stocked, request>>

-----------------------------------------------------------------------------
(* A condition is not met: the transaction rolls back and reports it.      *)
Refuse(t) ==
  /\ \/ /\ op[t].kind = "create" /\ Locked(t, "warehouses")
        /\ ~(active[WarehouseOf[op[t].source]] /\ active[op[t].target])
     \/ Locked(t, "source") /\ ~active[WarehouseOf[op[t].source]]
     \/ Locked(t, "boxes") /\ ~(op[t].boxes \subseteq cand[t])
     \/ pc[t] = "guard" /\ op[t].boxes \intersect Reserved # {}
     \/ /\ op[t].kind = "archive" /\ Locked(t, "warehouses")
        /\ ~MayArchive(op[t].target)
  /\ Ends(t)
  /\ UNCHANGED <<op, cand, status, active, stocked, request>>

-----------------------------------------------------------------------------
(* Waiting.                                                                *)

\* t waits for the lowest row it has still to lock, or for the warehouse that
\* the foreign key of a row it inserts names.
Awaits(t, r) ==
  \/ r \in todo[t] /\ \A q \in todo[t] : r <= q
  \/ pc[t] = "insert" /\ r = op[t].target
  \/ Locked(t, "write") /\ \E b \in op[t].boxes : r = Home[b]

WaitsFor(t, u) == \E r \in Rows : lock[r] = u /\ Awaits(t, r)

\* Transactions each of which waits for another of them.
Circle(S) == S # {} /\ \A t \in S : \E u \in S : WaitsFor(t, u)

\* The database breaks a circle by rolling back one of its members.
DeadlockVictim(t) ==
  /\ \E u \in Txns : WaitsFor(t, u)
  /\ \E S \in SUBSET Txns :
       t \in S /\ Circle(S) /\ \A R \in SUBSET S : Circle(R) => R = S
  /\ Ends(t)
  /\ UNCHANGED <<op, cand, status, active, stocked, request>>

-----------------------------------------------------------------------------
Selections(s) == (SUBSET ItemsOf[s]) \ {{}}

Start(t) ==
  \/ \E s \in Sources, w \in Warehouses : \E selection \in Selections(s) :
       BeginCreate(t, s, w, selection)
  \/ \E selection \in (SUBSET Boxes) \ {{}} : BeginSubmit(t, selection)
  \/ \E b \in Boxes : BeginEdit(t, b)
  \/ \E w \in Warehouses : BeginIntake(t, w)
  \/ \E w \in Warehouses : BeginArchive(t, w)
  \/ \E w \in Warehouses : BeginRestore(t, w)

Continue(t) ==
  \/ \E r \in Rows : LockNext(t, r)
  \/ CheckWarehouses(t) \/ SelectCandidates(t)
  \/ SelectFiles(t) \/ Reserve(t)
  \/ GuardEdit(t) \/ FlushEdit(t) \/ \E b \in Boxes : WriteBox(t, b)
  \/ InsertBox(t)
  \/ CheckArchive(t) \/ Archive(t) \/ Restore(t)
  \/ Refuse(t) \/ DeadlockVictim(t)

Next == \E t \in Txns : Start(t) \/ Continue(t) \/ Cancel(t)

Spec == Init /\ [][Next]_vars

-----------------------------------------------------------------------------
(* Safety.                                                                 *)

\* No box is in two active return requests: a second transaction that wants it
\* finds it reserved, although no constraint of the database says so and the
\* condition is evaluated before the rows are locked.
ReservedOnce ==
  \A t, u \in Txns :
    t # u /\ request[t] = "active" /\ request[u] = "active"
      => op[t].boxes \intersect op[u].boxes = {}

\* A request reserves boxes that are ready when it commits, not only when it
\* looked: edits committed in between are noticed and later ones wait.
ReservesReady ==
  [][\A t \in Txns : request[t] # "active" /\ request'[t] = "active"
       => \A b \in op[t].boxes : status[b] = "ready_to_return"]_vars

\* No request moves boxes from or to an archived warehouse, not even a draft
\* submitted, or a return created, while the archival counts.
ArchivedUnneeded ==
  \A w \in Warehouses : ~active[w] => \A t \in Txns : ~Needs(t, w)

\* No occupying box is in an archived warehouse.
ArchivedEmpty == \A w \in Warehouses : ~active[w] => ~Occupied(w)

\* Two archivals that each see two active warehouses do not archive both.
SomeWarehouseActive == \E w \in Warehouses : active[w]

\* Of these transactions only a status edit and a reservation can deadlock.  The
\* one locks the files, then the box, then by its event the warehouse; the other
\* locks the warehouse, the source, the boxes, then the files.  Every circle holds
\* an edit that asks for its box or for its warehouse, and a reservation that asks
\* for boxes or files.  Archivals and creations, which create_request says do not
\* deadlock, restorations, submissions and intake without a pallet never make a
\* circle among themselves.
OnlyEditsDeadlock ==
  \A S \in SUBSET Txns : Circle(S) =>
    /\ \E t \in S : pc[t] = "write"
    /\ \E t \in S : pc[t] \in {"boxes", "files"}

\* There is no deadlock at all; the edits of a box refute it.
NoWaitCycle == \A S \in SUBSET Txns : ~Circle(S)

\* A box an active request reserves stays ready.
ReservedStaysReady ==
  \A b \in Reserved : status[b] = "ready_to_return"

=============================================================================
