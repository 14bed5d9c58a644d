------------------------ MODULE ReservationTxnProofs ------------------------
(***************************************************************************)
(* Proofs about the reservation transactions, for any number of            *)
(* transactions and any tables: that reservations are exclusive wherever a *)
(* common lock serialises them, that a reserved box is ready at the        *)
(* commit, that a warehouse stays active, that no request names an         *)
(* archived warehouse, and that only edits and reservations deadlock.      *)
(***************************************************************************)
EXTENDS ReservationTxn, FiniteSetTheorems, WellFoundedInduction, TLAPS

\* What a transaction at a statement has chosen.
Chosen ==
  \A t \in Txns :
    /\ pc[t] = "warehouses" =>
         /\ op[t].kind \in {"create", "archive", "restore"}
         /\ op[t].target \in Warehouses
         /\ op[t].kind = "create" =>
              op[t].source \in Sources /\ "create" \in Kinds
    /\ pc[t] \in {"source", "boxes", "files"} =>
         /\ op[t].kind \in {"create", "draft"} /\ op[t].kind \in Kinds
         /\ op[t].source \in Sources
    /\ pc[t] = "files" => op[t].boxes \subseteq cand[t] /\ todo[t] \subseteq Files
    /\ pc[t] = "archive" => op[t].kind = "archive" /\ op[t].target \in Warehouses
    /\ request[t] = "draft" =>
         op[t].kind = "draft" /\ "draft" \in Kinds /\ op[t].source \in Sources
    /\ request[t] \in {"active", "cancelled"} => pc[t] = "done"

\* The rows it has locked by then, or is about to.
Obtains(t, r) == lock[r] = t \/ r \in todo[t]

Held ==
  \A t \in Txns :
    /\ pc[t] = "warehouses" /\ op[t].kind = "create" =>
         Obtains(t, WarehouseOf[op[t].source])
    /\ pc[t] = "source" => Obtains(t, op[t].source)
    /\ pc[t] \in {"boxes", "files"} => lock[op[t].source] = t
    /\ pc[t] = "write" => \A b \in op[t].boxes : Obtains(t, b)
    /\ pc[t] \in {"source", "boxes", "files"} /\ op[t].kind = "create" =>
         lock[WarehouseOf[op[t].source]] = t

\* The candidates lie where the source says, and those locked are ready.
Selected ==
  \A t \in Txns : pc[t] \in {"boxes", "files"} =>
    \A b \in cand[t] :
      /\ b \in ItemsOf[op[t].source] /\ Home[b] = WarehouseOf[op[t].source]
      /\ b \in todo[t] \/ (lock[b] = t /\ status[b] = "ready_to_return")

\* An archival holds every warehouse when it looks and when it commits.
Archiving ==
  /\ \A t \in Txns :
       /\ pc[t] = "warehouses" /\ op[t].kind = "archive" =>
            \A w \in Warehouses : Obtains(t, w)
       /\ pc[t] = "archive" =>
            /\ \A w \in Warehouses : lock[w] = t
            /\ \E v \in Warehouses \ {op[t].target} : active[v]
  /\ SomeWarehouseActive

\* A candidate is not reserved by an active request.
Unreserved ==
  \A t, u \in Txns : pc[t] \in {"boxes", "files"} /\ request[u] = "active" =>
    cand[t] \intersect op[u].boxes = {}

-----------------------------------------------------------------------------
LEMMA NoOpType == NoOp \in Op
  BY DEF NoOp, Op, Kind, BoxStatus

LEMMA FilesApart == Files \intersect Boxes = {}
  BY TablesAssumption DEF Rows

LEMMA InitType == Init => TypeOK /\ Chosen /\ Held /\ Selected
<1> SUFFICES ASSUME Init PROVE TypeOK /\ Chosen /\ Held /\ Selected
  OBVIOUS
<1>1. \A t \in Txns : op[t] \in Op /\ (op[t] # NoOp =>
        op[t].kind = "draft" /\ "draft" \in Kinds /\ op[t].source \in Sources)
  <2>1. \A d \in Draft : d \in Op /\ d.kind = "draft" /\ d.source \in Sources
    BY DEF Draft, Op, Kind, BoxStatus
  <2> QED BY <2>1, NoOpType DEF Init
<1>2. TypeOK
  BY <1>1 DEF Init, TypeOK, Statement
<1>3. Chosen /\ Held /\ Selected
  BY <1>1 DEF Init, Chosen, Held, Selected
<1> QED BY <1>2, <1>3

LEMMA TypeStep ==
  ASSUME TypeOK, Chosen, [Next]_vars
  PROVE  TypeOK'
<1>1. CASE UNCHANGED vars
  BY <1>1 DEF TypeOK, Statement, Op, Kind, BoxStatus, Rows, vars
<1>2. ASSUME NEW t \in Txns, Start(t) \/ Continue(t) \/ Cancel(t)
      PROVE  TypeOK'
  <2>1. ASSUME NEW s \in Sources, NEW w \in Warehouses, NEW selection \in Selections(s),
              BeginCreate(t, s, w, selection)
        PROVE  TypeOK'
    <3>1. [NoOp EXCEPT !.kind = "create", !.source = s, !.target = w,
                       !.boxes = selection] \in Op
      BY <2>1, RelationsAssumption DEF Selections, NoOp, Op, Kind, BoxStatus
    <3>2. op' \in [Txns -> Op]
      BY <2>1, <3>1 DEF BeginCreate, TypeOK
    <3> QED
      BY <2>1, <3>2, RelationsAssumption DEF BeginCreate, Goes, TypeOK,
         Statement, Rows
  <2>2. ASSUME NEW selection \in (SUBSET Boxes) \ {{}}, BeginSubmit(t, selection)
        PROVE  TypeOK'
    <3>1. [op[t] EXCEPT !.boxes = selection] \in Op
      BY <2>2 DEF TypeOK, Op
    <3>2. op' \in [Txns -> Op]
      BY <2>2, <3>1 DEF BeginSubmit, TypeOK
    <3> QED
      BY <2>2, <3>2, RelationsAssumption DEF BeginSubmit, Goes, TypeOK, Chosen,
         Statement, Rows
  <2>3. ASSUME NEW b \in Boxes, BeginEdit(t, b)
        PROVE  TypeOK'
    BY <2>3, RelationsAssumption DEF BeginEdit, Goes, Free, NoOp, TypeOK,
       Statement, Op, Kind, BoxStatus, Rows
  <2>4. ASSUME NEW w \in Warehouses, BeginIntake(t, w)
        PROVE  TypeOK'
    BY <2>4, RelationsAssumption DEF BeginIntake, Goes, Free, NoOp, TypeOK,
       Statement, Op, Kind, BoxStatus, Rows
  <2>5. ASSUME NEW w \in Warehouses, BeginArchive(t, w)
        PROVE  TypeOK'
    BY <2>5, RelationsAssumption DEF BeginArchive, Goes, Free, NoOp, TypeOK,
       Statement, Op, Kind, BoxStatus, Rows
  <2>6. ASSUME NEW w \in Warehouses, BeginRestore(t, w)
        PROVE  TypeOK'
    BY <2>6, RelationsAssumption DEF BeginRestore, Goes, Free, NoOp, TypeOK,
       Statement, Op, Kind, BoxStatus, Rows
  <2>7. ASSUME NEW r \in Rows, LockNext(t, r)
        PROVE  TypeOK'
    BY <2>7, RelationsAssumption DEF LockNext, Take, TypeOK, Statement, Op,
       Kind, BoxStatus, Rows
  <2>8. CASE CheckWarehouses(t)
    BY <2>8, RelationsAssumption DEF CheckWarehouses, Goes, Locked, TypeOK,
       Chosen, Statement, Rows
  <2>9. CASE SelectCandidates(t)
    BY <2>9, RelationsAssumption DEF SelectCandidates, Goes, Locked,
       Candidates, TypeOK, Chosen, Statement, Rows
  <2>10. CASE Reserve(t)
    BY <2>10, RelationsAssumption DEF Reserve, Ends, Locked, TypeOK, Statement,
       Op, Kind, BoxStatus, Rows
  <2>11. CASE GuardEdit(t)
    BY <2>11, RelationsAssumption DEF GuardEdit, Goes, TypeOK, Statement, Op,
       Kind, BoxStatus, Rows
  <2>12. ASSUME NEW b \in Boxes, WriteBox(t, b)
        PROVE  TypeOK'
    BY <2>12, RelationsAssumption DEF WriteBox, Ends, Locked, Following, TypeOK,
       Statement, Op, Kind, BoxStatus, Rows
  <2>13. CASE InsertBox(t)
    BY <2>13, RelationsAssumption DEF InsertBox, Goes, TypeOK, Statement, Op,
       Kind, BoxStatus, Rows
  <2>14. CASE CheckArchive(t)
    BY <2>14, RelationsAssumption DEF CheckArchive, Goes, Locked, MayArchive,
       TypeOK, Statement, Op, Kind, BoxStatus, Rows
  <2>15. CASE Archive(t)
    BY <2>15, RelationsAssumption DEF Archive, Ends, TypeOK, Statement, Op,
       Kind, BoxStatus, Rows
  <2>16. CASE Restore(t)
    BY <2>16, RelationsAssumption DEF Restore, Ends, Locked, TypeOK, Statement,
       Op, Kind, BoxStatus, Rows
  <2>17. CASE Refuse(t)
    BY <2>17, RelationsAssumption DEF Refuse, Ends, Locked, TypeOK, Statement,
       Op, Kind, BoxStatus, Rows
  <2>18. CASE Cancel(t)
    BY <2>18, RelationsAssumption DEF Cancel, TypeOK, Statement, Op, Kind,
       BoxStatus, Rows
  <2>19. CASE SelectFiles(t)
    BY <2>19, RelationsAssumption DEF SelectFiles, Goes, Locked, TypeOK,
       Statement, Op, Kind, BoxStatus, Rows
  <2>20. CASE FlushEdit(t)
    BY <2>20, RelationsAssumption DEF FlushEdit, Goes, Locked, TypeOK,
       Statement, Op, Kind, BoxStatus, Rows
  <2>21. CASE DeadlockVictim(t)
    BY <2>21, RelationsAssumption DEF DeadlockVictim, Ends, TypeOK, Statement,
       Op, Kind, BoxStatus, Rows
  <2> QED
    BY <1>2, <2>1, <2>2, <2>3, <2>4, <2>5, <2>6, <2>7, <2>8, <2>9, <2>10,
       <2>11, <2>12, <2>13, <2>14, <2>15, <2>16, <2>17, <2>18, <2>19, <2>20, <2>21 
    DEF Start, Continue
<1> QED BY <1>1, <1>2 DEF Next

LEMMA ChosenStep ==
  ASSUME TypeOK, Chosen, [Next]_vars
  PROVE  Chosen'
<1>1. CASE UNCHANGED vars
  BY <1>1 DEF TypeOK, Chosen, Op, vars
<1>2. ASSUME NEW t \in Txns, Start(t) \/ Continue(t) \/ Cancel(t)
      PROVE  Chosen'
  <2>1. ASSUME NEW s \in Sources, NEW w \in Warehouses, NEW selection \in Selections(s),
              BeginCreate(t, s, w, selection)
        PROVE  Chosen'
    BY <2>1, RelationsAssumption DEF BeginCreate, Goes, Free, NoOp, Selections,
       TypeOK, Chosen, Op
  <2>2. ASSUME NEW selection \in (SUBSET Boxes) \ {{}}, BeginSubmit(t, selection)
        PROVE  Chosen'
    BY <2>2, RelationsAssumption DEF BeginSubmit, Goes, TypeOK, Chosen, Op
  <2>3. ASSUME NEW b \in Boxes, BeginEdit(t, b)
        PROVE  Chosen'
    BY <2>3, RelationsAssumption DEF BeginEdit, Goes, Free, NoOp, TypeOK,
       Chosen, Op
  <2>4. ASSUME NEW w \in Warehouses, BeginIntake(t, w)
        PROVE  Chosen'
    BY <2>4, RelationsAssumption DEF BeginIntake, Goes, Free, NoOp, TypeOK,
       Chosen, Op
  <2>5. ASSUME NEW w \in Warehouses, BeginArchive(t, w)
        PROVE  Chosen'
    BY <2>5, RelationsAssumption DEF BeginArchive, Goes, Free, NoOp, TypeOK,
       Chosen, Op
  <2>6. ASSUME NEW w \in Warehouses, BeginRestore(t, w)
        PROVE  Chosen'
    BY <2>6, RelationsAssumption DEF BeginRestore, Goes, Free, NoOp, TypeOK,
       Chosen, Op
  <2>7. ASSUME NEW r \in Rows, LockNext(t, r)
        PROVE  Chosen'
    <3>1. /\ UNCHANGED <<op, pc, request>> /\ r \in todo[t]
          /\ \A u \in Txns : todo'[u] \subseteq todo[u]
          /\ \A u \in Txns : u # t \/ r \notin Boxes => cand'[u] = cand[u]
      BY <2>7 DEF LockNext, Take, TypeOK
    <3>2. \A u \in Txns : pc[u] = "files" => cand'[u] = cand[u]
      BY <3>1, FilesApart DEF Chosen
    <3> QED BY <3>1, <3>2 DEF Chosen
  <2>8. CASE CheckWarehouses(t)
    BY <2>8, RelationsAssumption DEF CheckWarehouses, Goes, Locked, TypeOK,
       Chosen, Op
  <2>9. CASE SelectCandidates(t)
    BY <2>9, RelationsAssumption DEF SelectCandidates, Goes, Locked,
       Candidates, TypeOK, Chosen, Op
  <2>10. CASE Reserve(t)
    BY <2>10, RelationsAssumption DEF Reserve, Ends, Locked, TypeOK, Chosen, Op
  <2>11. CASE GuardEdit(t)
    BY <2>11, RelationsAssumption DEF GuardEdit, Goes, TypeOK, Chosen, Op
  <2>12. ASSUME NEW b \in Boxes, WriteBox(t, b)
        PROVE  Chosen'
    BY <2>12, RelationsAssumption DEF WriteBox, Ends, Locked, Following, TypeOK,
       Chosen, Op
  <2>13. CASE InsertBox(t)
    BY <2>13, RelationsAssumption DEF InsertBox, Goes, TypeOK, Chosen, Op
  <2>14. CASE CheckArchive(t)
    BY <2>14, RelationsAssumption DEF CheckArchive, Goes, Locked, MayArchive,
       TypeOK, Chosen, Op
  <2>15. CASE Archive(t)
    BY <2>15, RelationsAssumption DEF Archive, Ends, TypeOK, Chosen, Op
  <2>16. CASE Restore(t)
    BY <2>16, RelationsAssumption DEF Restore, Ends, Locked, TypeOK, Chosen, Op
  <2>17. CASE Refuse(t)
    BY <2>17, RelationsAssumption DEF Refuse, Ends, Locked, TypeOK, Chosen, Op
  <2>18. CASE Cancel(t)
    BY <2>18, RelationsAssumption DEF Cancel, TypeOK, Chosen, Op
  <2>19. CASE SelectFiles(t)
    BY <2>19, RelationsAssumption DEF SelectFiles, Goes, Locked, TypeOK, Chosen,
       Op
  <2>20. CASE FlushEdit(t)
    BY <2>20, RelationsAssumption DEF FlushEdit, Goes, Locked, TypeOK, Chosen,
       Op
  <2>21. CASE DeadlockVictim(t)
    BY <2>21, RelationsAssumption DEF DeadlockVictim, Ends, TypeOK, Chosen, Op
  <2> QED
    BY <1>2, <2>1, <2>2, <2>3, <2>4, <2>5, <2>6, <2>7, <2>8, <2>9, <2>10,
       <2>11, <2>12, <2>13, <2>14, <2>15, <2>16, <2>17, <2>18, <2>19, <2>20, <2>21 
    DEF Start, Continue
<1> QED BY <1>1, <1>2 DEF Next

LEMMA HeldStep ==
  ASSUME TypeOK, Chosen, Held, [Next]_vars
  PROVE  Held'
<1>1. CASE UNCHANGED vars
  BY <1>1 DEF TypeOK, Chosen, Held, Obtains, Op, Rows, vars
<1>2. ASSUME NEW t \in Txns, Start(t) \/ Continue(t) \/ Cancel(t)
      PROVE  Held'
  <2>1. ASSUME NEW s \in Sources, NEW w \in Warehouses, NEW selection \in Selections(s),
              BeginCreate(t, s, w, selection)
        PROVE  Held'
    BY <2>1, RelationsAssumption DEF BeginCreate, Goes, Free, NoOp, Selections,
       TypeOK, Chosen, Held, Obtains, Op, Rows
  <2>2. ASSUME NEW selection \in (SUBSET Boxes) \ {{}}, BeginSubmit(t, selection)
        PROVE  Held'
    BY <2>2, RelationsAssumption DEF BeginSubmit, Goes, TypeOK, Chosen, Held,
       Obtains, Op, Rows
  <2>3. ASSUME NEW b \in Boxes, BeginEdit(t, b)
        PROVE  Held'
    BY <2>3, RelationsAssumption DEF BeginEdit, Goes, Free, NoOp, TypeOK,
       Chosen, Held, Obtains, Op, Rows
  <2>4. ASSUME NEW w \in Warehouses, BeginIntake(t, w)
        PROVE  Held'
    BY <2>4, RelationsAssumption DEF BeginIntake, Goes, Free, NoOp, TypeOK,
       Chosen, Held, Obtains, Op, Rows
  <2>5. ASSUME NEW w \in Warehouses, BeginArchive(t, w)
        PROVE  Held'
    BY <2>5, RelationsAssumption DEF BeginArchive, Goes, Free, NoOp, TypeOK,
       Chosen, Held, Obtains, Op, Rows
  <2>6. ASSUME NEW w \in Warehouses, BeginRestore(t, w)
        PROVE  Held'
    BY <2>6, RelationsAssumption DEF BeginRestore, Goes, Free, NoOp, TypeOK,
       Chosen, Held, Obtains, Op, Rows
  <2>7. ASSUME NEW r \in Rows, LockNext(t, r)
        PROVE  Held'
    BY <2>7, RelationsAssumption DEF LockNext, Take, TypeOK, Chosen, Held,
       Obtains, Op, Rows
  <2>8. CASE CheckWarehouses(t)
    BY <2>8, RelationsAssumption DEF CheckWarehouses, Goes, Locked, TypeOK,
       Chosen, Held, Obtains, Op, Rows
  <2>9. CASE SelectCandidates(t)
    BY <2>9, RelationsAssumption DEF SelectCandidates, Goes, Locked,
       Candidates, TypeOK, Chosen, Held, Obtains, Op, Rows
  <2>10. CASE Reserve(t)
    BY <2>10, RelationsAssumption DEF Reserve, Ends, Locked, TypeOK, Chosen,
       Held, Obtains, Op, Rows
  <2>11. CASE GuardEdit(t)
    BY <2>11, RelationsAssumption DEF GuardEdit, Goes, TypeOK, Chosen, Held,
       Obtains, Op, Rows
  <2>12. ASSUME NEW b \in Boxes, WriteBox(t, b)
        PROVE  Held'
    BY <2>12, RelationsAssumption DEF WriteBox, Ends, Locked, Following, TypeOK,
       Chosen, Held, Obtains, Op, Rows
  <2>13. CASE InsertBox(t)
    BY <2>13, RelationsAssumption DEF InsertBox, Goes, TypeOK, Chosen, Held,
       Obtains, Op, Rows
  <2>14. CASE CheckArchive(t)
    BY <2>14, RelationsAssumption DEF CheckArchive, Goes, Locked, MayArchive,
       TypeOK, Chosen, Held, Obtains, Op, Rows
  <2>15. CASE Archive(t)
    BY <2>15, RelationsAssumption DEF Archive, Ends, TypeOK, Chosen, Held,
       Obtains, Op, Rows
  <2>16. CASE Restore(t)
    BY <2>16, RelationsAssumption DEF Restore, Ends, Locked, TypeOK, Chosen,
       Held, Obtains, Op, Rows
  <2>17. CASE Refuse(t)
    BY <2>17, RelationsAssumption DEF Refuse, Ends, Locked, TypeOK, Chosen,
       Held, Obtains, Op, Rows
  <2>18. CASE Cancel(t)
    BY <2>18, RelationsAssumption DEF Cancel, TypeOK, Chosen, Held, Obtains,
       Op, Rows
  <2>19. CASE SelectFiles(t)
    BY <2>19, RelationsAssumption DEF SelectFiles, Goes, Locked, TypeOK, Chosen,
       Held, Obtains, Op, Rows
  <2>20. CASE FlushEdit(t)
    BY <2>20, RelationsAssumption DEF FlushEdit, Goes, Locked, TypeOK, Chosen,
       Held, Obtains, Op, Rows
  <2>21. CASE DeadlockVictim(t)
    BY <2>21, RelationsAssumption DEF DeadlockVictim, Ends, TypeOK, Chosen,
       Held, Obtains, Op, Rows
  <2> QED
    BY <1>2, <2>1, <2>2, <2>3, <2>4, <2>5, <2>6, <2>7, <2>8, <2>9, <2>10,
       <2>11, <2>12, <2>13, <2>14, <2>15, <2>16, <2>17, <2>18, <2>19, <2>20, <2>21 
    DEF Start, Continue
<1> QED BY <1>1, <1>2 DEF Next

LEMMA SelectedStep ==
  ASSUME TypeOK, Chosen, Held, Selected, [Next]_vars
  PROVE  Selected'
<1>1. CASE UNCHANGED vars
  BY <1>1 DEF TypeOK, Chosen, Held, Selected, Op, Rows, vars
<1>2. ASSUME NEW t \in Txns, Start(t) \/ Continue(t) \/ Cancel(t)
      PROVE  Selected'
  <2>1. ASSUME NEW s \in Sources, NEW w \in Warehouses, NEW selection \in Selections(s),
              BeginCreate(t, s, w, selection)
        PROVE  Selected'
    BY <2>1, RelationsAssumption DEF BeginCreate, Goes, Free, NoOp, Selections,
       TypeOK, Chosen, Held, Selected, Op, Rows
  <2>2. ASSUME NEW selection \in (SUBSET Boxes) \ {{}}, BeginSubmit(t, selection)
        PROVE  Selected'
    BY <2>2, RelationsAssumption DEF BeginSubmit, Goes, TypeOK, Chosen, Held,
       Selected, Op, Rows
  <2>3. ASSUME NEW b \in Boxes, BeginEdit(t, b)
        PROVE  Selected'
    BY <2>3, RelationsAssumption DEF BeginEdit, Goes, Free, NoOp, TypeOK,
       Chosen, Held, Selected, Op, Rows
  <2>4. ASSUME NEW w \in Warehouses, BeginIntake(t, w)
        PROVE  Selected'
    BY <2>4, RelationsAssumption DEF BeginIntake, Goes, Free, NoOp, TypeOK,
       Chosen, Held, Selected, Op, Rows
  <2>5. ASSUME NEW w \in Warehouses, BeginArchive(t, w)
        PROVE  Selected'
    BY <2>5, RelationsAssumption DEF BeginArchive, Goes, Free, NoOp, TypeOK,
       Chosen, Held, Selected, Op, Rows
  <2>6. ASSUME NEW w \in Warehouses, BeginRestore(t, w)
        PROVE  Selected'
    BY <2>6, RelationsAssumption DEF BeginRestore, Goes, Free, NoOp, TypeOK,
       Chosen, Held, Selected, Op, Rows
  <2>7. ASSUME NEW r \in Rows, LockNext(t, r)
        PROVE  Selected'
    BY <2>7, RelationsAssumption DEF LockNext, Take, TypeOK, Chosen, Held,
       Selected, Op, Rows
  <2>8. CASE CheckWarehouses(t)
    BY <2>8, RelationsAssumption DEF CheckWarehouses, Goes, Locked, TypeOK,
       Chosen, Held, Selected, Op, Rows
  <2>9. CASE SelectCandidates(t)
    BY <2>9, RelationsAssumption DEF SelectCandidates, Goes, Locked,
       Candidates, TypeOK, Chosen, Held, Selected, Op, Rows
  <2>10. CASE Reserve(t)
    BY <2>10, RelationsAssumption DEF Reserve, Ends, Locked, TypeOK, Chosen,
       Held, Selected, Op, Rows
  <2>11. CASE GuardEdit(t)
    BY <2>11, RelationsAssumption DEF GuardEdit, Goes, TypeOK, Chosen, Held,
       Selected, Op, Rows
  <2>12. ASSUME NEW b \in Boxes, WriteBox(t, b)
        PROVE  Selected'
    <3>1. lock[b] = t
      BY <2>12 DEF WriteBox, Locked, Held, Obtains
    <3>2. \A c \in Boxes : c # b => status'[c] = status[c]
      BY <2>12 DEF WriteBox, TypeOK
    <3>3. \A u \in Txns : pc'[u] \in {"boxes", "files"} => pc[u] = pc'[u] /\ u # t
      BY <2>12 DEF WriteBox, Ends, TypeOK
    <3>4. \A u \in Txns : cand[u] \subseteq Boxes
      BY DEF TypeOK
    <3>5. /\ UNCHANGED <<op, cand>>
          /\ \A u \in Txns : u # t => todo'[u] = todo[u]
          /\ \A q \in Rows : lock[q] # t => lock'[q] = lock[q]
      BY <2>12 DEF WriteBox, Ends, TypeOK
    <3>6. ASSUME NEW u \in Txns, pc[u] \in {"boxes", "files"}, u # t, NEW c \in cand[u]
          PROVE  /\ c \in todo[u] \/ (lock'[c] = u /\ status'[c] = "ready_to_return")
                 /\ c \in ItemsOf[op[u].source] /\ Home[c] = WarehouseOf[op[u].source]
      <4>1. c \in Boxes /\ c \in Rows
        BY <3>4, <3>6 DEF Rows
      <4>2. /\ c \in todo[u] \/ (lock[c] = u /\ status[c] = "ready_to_return")
            /\ c \in ItemsOf[op[u].source] /\ Home[c] = WarehouseOf[op[u].source]
        BY <3>6 DEF Selected
      <4>3. CASE lock[c] = u
        BY <3>1, <3>2, <3>5, <3>6, <4>1, <4>2, <4>3
      <4> QED BY <4>2, <4>3
    <3> QED
      BY <3>3, <3>5, <3>6 DEF Selected
  <2>13. CASE InsertBox(t)
    BY <2>13, RelationsAssumption DEF InsertBox, Goes, TypeOK, Chosen, Held,
       Selected, Op, Rows
  <2>14. CASE CheckArchive(t)
    BY <2>14, RelationsAssumption DEF CheckArchive, Goes, Locked, MayArchive,
       TypeOK, Chosen, Held, Selected, Op, Rows
  <2>15. CASE Archive(t)
    BY <2>15, RelationsAssumption DEF Archive, Ends, TypeOK, Chosen, Held,
       Selected, Op, Rows
  <2>16. CASE Restore(t)
    BY <2>16, RelationsAssumption DEF Restore, Ends, Locked, TypeOK, Chosen,
       Held, Selected, Op, Rows
  <2>17. CASE Refuse(t)
    BY <2>17, RelationsAssumption DEF Refuse, Ends, Locked, TypeOK, Chosen,
       Held, Selected, Op, Rows
  <2>18. CASE Cancel(t)
    BY <2>18, RelationsAssumption DEF Cancel, TypeOK, Chosen, Held, Selected,
       Op, Rows
  <2>19. CASE SelectFiles(t)
    BY <2>19, RelationsAssumption DEF SelectFiles, Goes, Locked, TypeOK, Chosen,
       Held, Selected, Op, Rows
  <2>20. CASE FlushEdit(t)
    BY <2>20, RelationsAssumption DEF FlushEdit, Goes, Locked, TypeOK, Chosen,
       Held, Selected, Op, Rows
  <2>21. CASE DeadlockVictim(t)
    BY <2>21, RelationsAssumption DEF DeadlockVictim, Ends, TypeOK, Chosen,
       Held, Selected, Op, Rows
  <2> QED
    BY <1>2, <2>1, <2>2, <2>3, <2>4, <2>5, <2>6, <2>7, <2>8, <2>9, <2>10,
       <2>11, <2>12, <2>13, <2>14, <2>15, <2>16, <2>17, <2>18, <2>19, <2>20, <2>21 
    DEF Start, Continue
<1> QED BY <1>1, <1>2 DEF Next

LEMMA ArchivingStep ==
  ASSUME TypeOK, Chosen, Archiving, [Next]_vars
  PROVE  Archiving'
<1>1. CASE UNCHANGED vars
  BY <1>1 DEF TypeOK, Chosen, Archiving, SomeWarehouseActive, Obtains, Op,
     Rows, vars
<1>2. ASSUME NEW t \in Txns, Start(t) \/ Continue(t) \/ Cancel(t)
      PROVE  Archiving'
  <2>1. ASSUME NEW s \in Sources, NEW w \in Warehouses, NEW selection \in Selections(s),
              BeginCreate(t, s, w, selection)
        PROVE  Archiving'
    BY <2>1, RelationsAssumption DEF BeginCreate, Goes, Free, NoOp, Selections,
       TypeOK, Chosen, Archiving, SomeWarehouseActive, Obtains, Op, Rows
  <2>2. ASSUME NEW selection \in (SUBSET Boxes) \ {{}}, BeginSubmit(t, selection)
        PROVE  Archiving'
    BY <2>2, RelationsAssumption DEF BeginSubmit, Goes, TypeOK, Chosen,
       Archiving, SomeWarehouseActive, Obtains, Op, Rows
  <2>3. ASSUME NEW b \in Boxes, BeginEdit(t, b)
        PROVE  Archiving'
    BY <2>3, RelationsAssumption DEF BeginEdit, Goes, Free, NoOp, TypeOK,
       Chosen, Archiving, SomeWarehouseActive, Obtains, Op, Rows
  <2>4. ASSUME NEW w \in Warehouses, BeginIntake(t, w)
        PROVE  Archiving'
    BY <2>4, RelationsAssumption DEF BeginIntake, Goes, Free, NoOp, TypeOK,
       Chosen, Archiving, SomeWarehouseActive, Obtains, Op, Rows
  <2>5. ASSUME NEW w \in Warehouses, BeginArchive(t, w)
        PROVE  Archiving'
    BY <2>5, RelationsAssumption DEF BeginArchive, Goes, Free, NoOp, TypeOK,
       Chosen, Archiving, SomeWarehouseActive, Obtains, Op, Rows
  <2>6. ASSUME NEW w \in Warehouses, BeginRestore(t, w)
        PROVE  Archiving'
    BY <2>6, RelationsAssumption DEF BeginRestore, Goes, Free, NoOp, TypeOK,
       Chosen, Archiving, SomeWarehouseActive, Obtains, Op, Rows
  <2>7. ASSUME NEW r \in Rows, LockNext(t, r)
        PROVE  Archiving'
    BY <2>7, RelationsAssumption DEF LockNext, Take, TypeOK, Chosen, Archiving,
       SomeWarehouseActive, Obtains, Op, Rows
  <2>8. CASE CheckWarehouses(t)
    BY <2>8, RelationsAssumption DEF CheckWarehouses, Goes, Locked, TypeOK,
       Chosen, Archiving, SomeWarehouseActive, Obtains, Op, Rows
  <2>9. CASE SelectCandidates(t)
    BY <2>9, RelationsAssumption DEF SelectCandidates, Goes, Locked,
       Candidates, TypeOK, Chosen, Archiving, SomeWarehouseActive, Obtains, Op,
       Rows
  <2>10. CASE Reserve(t)
    BY <2>10, RelationsAssumption DEF Reserve, Ends, Locked, TypeOK, Chosen,
       Archiving, SomeWarehouseActive, Obtains, Op, Rows
  <2>11. CASE GuardEdit(t)
    BY <2>11, RelationsAssumption DEF GuardEdit, Goes, TypeOK, Chosen,
       Archiving, SomeWarehouseActive, Obtains, Op, Rows
  <2>12. ASSUME NEW b \in Boxes, WriteBox(t, b)
        PROVE  Archiving'
    BY <2>12, RelationsAssumption DEF WriteBox, Ends, Locked, Following, TypeOK,
       Chosen, Archiving, SomeWarehouseActive, Obtains, Op, Rows
  <2>13. CASE InsertBox(t)
    BY <2>13, RelationsAssumption DEF InsertBox, Goes, TypeOK, Chosen,
       Archiving, SomeWarehouseActive, Obtains, Op, Rows
  <2>14. CASE CheckArchive(t)
    BY <2>14, RelationsAssumption DEF CheckArchive, Goes, Locked, MayArchive,
       TypeOK, Chosen, Archiving, SomeWarehouseActive, Obtains, Op, Rows
  <2>15. CASE Archive(t)
    BY <2>15, RelationsAssumption DEF Archive, Ends, TypeOK, Chosen, Archiving,
       SomeWarehouseActive, Obtains, Op, Rows
  <2>16. CASE Restore(t)
    BY <2>16, RelationsAssumption DEF Restore, Ends, Locked, TypeOK, Chosen,
       Archiving, SomeWarehouseActive, Obtains, Op, Rows
  <2>17. CASE Refuse(t)
    BY <2>17, RelationsAssumption DEF Refuse, Ends, Locked, TypeOK, Chosen,
       Archiving, SomeWarehouseActive, Obtains, Op, Rows
  <2>18. CASE Cancel(t)
    BY <2>18, RelationsAssumption DEF Cancel, TypeOK, Chosen, Archiving,
       SomeWarehouseActive, Obtains, Op, Rows
  <2>19. CASE SelectFiles(t)
    BY <2>19, RelationsAssumption DEF SelectFiles, Goes, Locked, TypeOK, Chosen,
       Archiving, SomeWarehouseActive, Obtains, Op, Rows
  <2>20. CASE FlushEdit(t)
    BY <2>20, RelationsAssumption DEF FlushEdit, Goes, Locked, TypeOK, Chosen,
       Archiving, SomeWarehouseActive, Obtains, Op, Rows
  <2>21. CASE DeadlockVictim(t)
    BY <2>21, RelationsAssumption DEF DeadlockVictim, Ends, TypeOK, Chosen,
       Archiving, SomeWarehouseActive, Obtains, Op, Rows
  <2> QED
    BY <1>2, <2>1, <2>2, <2>3, <2>4, <2>5, <2>6, <2>7, <2>8, <2>9, <2>10,
       <2>11, <2>12, <2>13, <2>14, <2>15, <2>16, <2>17, <2>18, <2>19, <2>20, <2>21 
    DEF Start, Continue
<1> QED BY <1>1, <1>2 DEF Next

\* Reservations that can want the same box share a lock: no draft skips the
\* warehouse, or no box belongs to two completed inbound requests.
Serialised ==
  \/ "draft" \notin Kinds
  \/ \A s1, s2 \in Sources :
       s1 # s2 => ItemsOf[s1] \intersect ItemsOf[s2] = {}

LEMMA UnreservedStep ==
  ASSUME TypeOK, Chosen, Held, Selected, Unreserved, Serialised, [Next]_vars
  PROVE  Unreserved'
<1>1. CASE UNCHANGED vars
  BY <1>1 DEF TypeOK, Chosen, Unreserved, Op, Rows, vars
<1>2. ASSUME NEW t \in Txns, Start(t) \/ Continue(t) \/ Cancel(t)
      PROVE  Unreserved'
  <2>1. ASSUME NEW s \in Sources, NEW w \in Warehouses, NEW selection \in Selections(s),
              BeginCreate(t, s, w, selection)
        PROVE  Unreserved'
    BY <2>1, RelationsAssumption DEF BeginCreate, Goes, Free, NoOp, Selections,
       TypeOK, Chosen, Unreserved, Op, Rows
  <2>2. ASSUME NEW selection \in (SUBSET Boxes) \ {{}}, BeginSubmit(t, selection)
        PROVE  Unreserved'
    BY <2>2, RelationsAssumption DEF BeginSubmit, Goes, TypeOK, Chosen,
       Unreserved, Op, Rows
  <2>3. ASSUME NEW b \in Boxes, BeginEdit(t, b)
        PROVE  Unreserved'
    BY <2>3, RelationsAssumption DEF BeginEdit, Goes, Free, NoOp, TypeOK,
       Chosen, Unreserved, Op, Rows
  <2>4. ASSUME NEW w \in Warehouses, BeginIntake(t, w)
        PROVE  Unreserved'
    BY <2>4, RelationsAssumption DEF BeginIntake, Goes, Free, NoOp, TypeOK,
       Chosen, Unreserved, Op, Rows
  <2>5. ASSUME NEW w \in Warehouses, BeginArchive(t, w)
        PROVE  Unreserved'
    BY <2>5, RelationsAssumption DEF BeginArchive, Goes, Free, NoOp, TypeOK,
       Chosen, Unreserved, Op, Rows
  <2>6. ASSUME NEW w \in Warehouses, BeginRestore(t, w)
        PROVE  Unreserved'
    BY <2>6, RelationsAssumption DEF BeginRestore, Goes, Free, NoOp, TypeOK,
       Chosen, Unreserved, Op, Rows
  <2>7. ASSUME NEW r \in Rows, LockNext(t, r)
        PROVE  Unreserved'
    BY <2>7, RelationsAssumption DEF LockNext, Take, TypeOK, Chosen,
       Unreserved, Op, Rows
  <2>8. CASE CheckWarehouses(t)
    BY <2>8, RelationsAssumption DEF CheckWarehouses, Goes, Locked, TypeOK,
       Chosen, Unreserved, Op, Rows
  <2>9. CASE SelectCandidates(t)
    <3>1. \A u \in Txns : request[u] = "active" =>
            Candidates(op[t].source) \intersect op[u].boxes = {}
      BY DEF Candidates, Reserved
    <3> QED
      BY <2>9, <3>1 DEF SelectCandidates, Goes, TypeOK, Unreserved
  <2>10. CASE Reserve(t)
    <3>1. ASSUME NEW u \in Txns, u # t, pc[u] \in {"boxes", "files"}
          PROVE  cand[u] \intersect op[t].boxes = {}
      <4>1. ASSUME NEW b \in cand[u], b \in op[t].boxes PROVE FALSE
        <5>1. pc[t] = "files" /\ b \in cand[t]
          BY <2>10, <4>1 DEF Reserve, Locked, Chosen
        <5>2. /\ b \in ItemsOf[op[t].source] /\ b \in ItemsOf[op[u].source]
              /\ WarehouseOf[op[t].source] = WarehouseOf[op[u].source]
          BY <3>1, <4>1, <5>1 DEF Selected
        <5>3. op[t].source # op[u].source
          BY <3>1, <5>1 DEF Held
        <5>4. op[t].source \in Sources /\ op[u].source \in Sources
          BY <3>1, <5>1 DEF Chosen
        <5>5. "draft" \notin Kinds
          BY <5>2, <5>3, <5>4 DEF Serialised
        <5>6. op[t].kind = "create" /\ op[u].kind = "create"
          BY <3>1, <5>1, <5>5 DEF Chosen
        <5> QED BY <3>1, <5>1, <5>2, <5>6 DEF Held
      <4> QED BY <4>1
    <3>2. /\ UNCHANGED <<op, cand>> /\ pc'[t] = "done"
          /\ \A u \in Txns \ {t} : pc'[u] = pc[u] /\ request'[u] = request[u]
      BY <2>10 DEF Reserve, Ends, TypeOK
    <3>3. ASSUME NEW u \in Txns, NEW v \in Txns,
                 pc'[u] \in {"boxes", "files"}, request'[v] = "active"
          PROVE  cand'[u] \intersect op'[v].boxes = {}
      <4>1. u # t /\ pc[u] \in {"boxes", "files"}
        BY <3>2, <3>3
      <4>2. CASE v = t
        BY <3>1, <3>2, <4>1, <4>2
      <4>3. CASE v # t
        BY <3>2, <3>3, <4>1, <4>3 DEF Unreserved
      <4> QED BY <4>2, <4>3
    <3> QED BY <3>3 DEF Unreserved
  <2>11. CASE GuardEdit(t)
    BY <2>11, RelationsAssumption DEF GuardEdit, Goes, TypeOK, Chosen,
       Unreserved, Op, Rows
  <2>12. ASSUME NEW b \in Boxes, WriteBox(t, b)
        PROVE  Unreserved'
    BY <2>12, RelationsAssumption DEF WriteBox, Ends, Locked, Following, TypeOK,
       Chosen, Unreserved, Op, Rows
  <2>13. CASE InsertBox(t)
    BY <2>13, RelationsAssumption DEF InsertBox, Goes, TypeOK, Chosen,
       Unreserved, Op, Rows
  <2>14. CASE CheckArchive(t)
    BY <2>14, RelationsAssumption DEF CheckArchive, Goes, Locked, MayArchive,
       TypeOK, Chosen, Unreserved, Op, Rows
  <2>15. CASE Archive(t)
    BY <2>15, RelationsAssumption DEF Archive, Ends, TypeOK, Chosen,
       Unreserved, Op, Rows
  <2>16. CASE Restore(t)
    BY <2>16, RelationsAssumption DEF Restore, Ends, Locked, TypeOK, Chosen,
       Unreserved, Op, Rows
  <2>17. CASE Refuse(t)
    BY <2>17, RelationsAssumption DEF Refuse, Ends, Locked, TypeOK, Chosen,
       Unreserved, Op, Rows
  <2>18. CASE Cancel(t)
    BY <2>18, RelationsAssumption DEF Cancel, TypeOK, Chosen, Unreserved, Op,
       Rows
  <2>19. CASE SelectFiles(t)
    BY <2>19, RelationsAssumption DEF SelectFiles, Goes, Locked, TypeOK, Chosen,
       Unreserved, Op, Rows
  <2>20. CASE FlushEdit(t)
    BY <2>20, RelationsAssumption DEF FlushEdit, Goes, Locked, TypeOK, Chosen,
       Unreserved, Op, Rows
  <2>21. CASE DeadlockVictim(t)
    BY <2>21, RelationsAssumption DEF DeadlockVictim, Ends, TypeOK, Chosen,
       Unreserved, Op, Rows
  <2> QED
    BY <1>2, <2>1, <2>2, <2>3, <2>4, <2>5, <2>6, <2>7, <2>8, <2>9, <2>10,
       <2>11, <2>12, <2>13, <2>14, <2>15, <2>16, <2>17, <2>18, <2>19, <2>20, <2>21 
    DEF Start, Continue
<1> QED BY <1>1, <1>2 DEF Next

-----------------------------------------------------------------------------
\* Every variable keeps its type, whatever the transactions do: in particular
\* an edit never writes a status that its table of transitions does not name.
THEOREM TypeCorrect == Spec => []TypeOK
<1>1. Init => TypeOK /\ Chosen
  BY InitType
<1>2. TypeOK /\ Chosen /\ [Next]_vars => (TypeOK /\ Chosen)'
  BY TypeStep, ChosenStep
<1> QED BY <1>1, <1>2, PTL DEF Spec

LEMMA LocksHeld == Spec => [](TypeOK /\ Chosen /\ Held /\ Selected)
<1> DEFINE Inv == TypeOK /\ Chosen /\ Held /\ Selected
<1>1. Init => Inv
  BY InitType
<1>2. Inv /\ [Next]_vars => Inv'
  BY TypeStep, ChosenStep, HeldStep, SelectedStep
<1> QED BY <1>1, <1>2, PTL DEF Spec

\* A request reserves boxes that are ready at its commit: the row locks taken
\* with the second look at each row outlast it.
THEOREM ReadyAtCommit == Spec => ReservesReady
<1> DEFINE Inv == TypeOK /\ Chosen /\ Held /\ Selected
           Step == \A t \in Txns : request[t] # "active" /\ request'[t] = "active"
                     => \A b \in op[t].boxes : status[b] = "ready_to_return"
<1>1. Inv /\ [Next]_vars => [Step]_vars
  <2>1. ASSUME Inv, Next PROVE Step
    <3>1. PICK t \in Txns : Start(t) \/ Continue(t) \/ Cancel(t)
      BY <2>1 DEF Next
    <3>2. \A u \in Txns : request[u] # "active" /\ request'[u] = "active" =>
            u = t /\ Reserve(t)
      BY <2>1, <3>1 DEF Start, Continue, BeginCreate, BeginSubmit, BeginEdit,
         BeginIntake, BeginArchive, BeginRestore, LockNext, Take,
         CheckWarehouses, SelectCandidates, SelectFiles, Reserve, GuardEdit, FlushEdit, WriteBox,
         InsertBox, CheckArchive, Archive, Restore, Refuse, DeadlockVictim, Cancel, TypeOK
    <3> QED BY <2>1, <3>2 DEF Reserve, Locked, Selected, Chosen
  <2> QED BY <2>1
<1>2. Spec => []Inv
  BY LocksHeld
<1> QED BY <1>1, <1>2, PTL DEF Spec, ReservesReady

\* No box is in two active return requests, provided the transactions that can
\* want it share a lock: those that create a request share the warehouse, and
\* those on one completed inbound request share its row.
THEOREM Exclusive ==
  ASSUME Serialised
  PROVE  Spec => []ReservedOnce
<1> DEFINE Inv == TypeOK /\ Chosen /\ Held /\ Selected /\ Unreserved /\ ReservedOnce
<1>1. Init => Inv
  BY InitType DEF Init, Unreserved, ReservedOnce
<1>2. Inv /\ [Next]_vars => Inv'
  <2>1. ASSUME Inv, [Next]_vars PROVE ReservedOnce'
    <3>1. CASE UNCHANGED vars
      BY <2>1, <3>1 DEF ReservedOnce, vars
    <3>2. ASSUME NEW t \in Txns, Start(t) \/ Continue(t) \/ Cancel(t)
          PROVE  ReservedOnce'
      <4>1. CASE Reserve(t)
        <5>1. \A u \in Txns : request[u] = "active" =>
                op[t].boxes \intersect op[u].boxes = {}
          BY <2>1, <4>1 DEF Reserve, Locked, Unreserved, Chosen
        <5> QED BY <2>1, <4>1, <5>1 DEF Reserve, TypeOK, ReservedOnce
      <4>2. CASE ~Reserve(t)
        <5>1. \A u \in Txns : request'[u] = "active" =>
                request[u] = "active" /\ op'[u] = op[u]
          BY <2>1, <3>2, <4>2 DEF Start, Continue, BeginCreate, BeginSubmit,
             BeginEdit, BeginIntake, BeginArchive, BeginRestore, LockNext, Take,
             CheckWarehouses, SelectCandidates, SelectFiles, GuardEdit, FlushEdit, WriteBox, InsertBox,
             CheckArchive, Archive, Restore, Refuse, DeadlockVictim, Cancel, Goes, TypeOK, Chosen
        <5> QED BY <2>1, <5>1 DEF ReservedOnce
      <4> QED BY <4>1, <4>2
    <3> QED BY <2>1, <3>1, <3>2 DEF Next
  <2> QED
    BY <2>1, TypeStep, ChosenStep, HeldStep, SelectedStep, UnreservedStep
<1>3. Inv => ReservedOnce
  OBVIOUS
<1> QED BY <1>1, <1>2, <1>3, PTL DEF Spec

\* However many archivals run at once, a warehouse stays active: each holds all
\* the warehouses from its count to its commit.
THEOREM OneStaysActive ==
  ASSUME Warehouses # {}
  PROVE  Spec => []SomeWarehouseActive
<1> DEFINE Inv == TypeOK /\ Chosen /\ Archiving
<1>1. Init => Inv
  BY InitType DEF Init, Archiving, SomeWarehouseActive
<1>2. Inv /\ [Next]_vars => Inv'
  BY TypeStep, ChosenStep, ArchivingStep
<1>3. Inv => SomeWarehouseActive
  BY DEF Archiving
<1> QED BY <1>1, <1>2, <1>3, PTL DEF Spec

-----------------------------------------------------------------------------
(* Archival against reservations.                                          *)

TxnStep(t) == Start(t) \/ Continue(t) \/ Cancel(t)

\* The warehouses a reserving transaction needs, once its request is there.
Wants(t) == {op[t].target, WarehouseOf[op[t].source]}

\* What archival relies on: a new request holds the warehouses it found active,
\* a draft is needed all along, and an archival at its commit, which holds all
\* the warehouses, has counted every request that can be there.
Claims(t) ==
  /\ pc[t] = "warehouses" /\ op[t].kind = "create" =>
       \A w \in Wants(t) : w \in Warehouses /\ Obtains(t, w)
  /\ pc[t] \in {"source", "boxes", "files"} =>
       \/ request[t] = "draft"
       \/ \A w \in Wants(t) : w \in Warehouses /\ lock[w] = t /\ active[w]
  /\ pc[t] = "archive" => \A u \in Txns : ~Needs(u, op[t].target)

ClaimsKept == ArchivedUnneeded /\ \A t \in Txns : Claims(t)

\* A step is one transaction's: the others keep their statement, their rows and
\* their request.
LEMMA OthersKept ==
  ASSUME TypeOK, NEW t \in Txns, TxnStep(t), NEW u \in Txns, u # t
  PROVE  /\ op'[u] = op[u] /\ pc'[u] = pc[u] /\ todo'[u] = todo[u]
         /\ request'[u] = request[u]
         /\ \A r \in Rows : lock[r] = u => lock'[r] = u
<1>1. op'[u] = op[u] /\ pc'[u] = pc[u]
  BY DEF TxnStep, TypeOK, Start, Continue, BeginCreate, BeginSubmit, BeginEdit,
     BeginIntake, BeginArchive, BeginRestore, LockNext, Take, CheckWarehouses,
     SelectCandidates, SelectFiles, Reserve, GuardEdit, FlushEdit, WriteBox, InsertBox, CheckArchive, Archive,
     Restore, Refuse, DeadlockVictim, Cancel, Goes, Ends
<1>2. todo'[u] = todo[u] /\ request'[u] = request[u]
  BY DEF TxnStep, TypeOK, Start, Continue, BeginCreate, BeginSubmit, BeginEdit,
     BeginIntake, BeginArchive, BeginRestore, LockNext, Take, CheckWarehouses,
     SelectCandidates, SelectFiles, Reserve, GuardEdit, FlushEdit, WriteBox, InsertBox, CheckArchive, Archive,
     Restore, Refuse, DeadlockVictim, Cancel, Goes, Ends
<1>3. ASSUME NEW r \in Rows, lock[r] = u
      PROVE  lock'[r] = u
  <2>1. lock[r] # NoTxn /\ lock[r] # t
    BY <1>3, RelationsAssumption
  <2>2. CASE lock' = lock
    BY <1>3, <2>2
  <2>3. CASE Ends(t)
    BY <1>3, <2>1, <2>3 DEF Ends
  <2>4. ASSUME NEW q \in Rows, Take(t, q)
        PROVE  lock'[r] = u
    BY <1>3, <2>1, <2>4 DEF Take, TypeOK
  <2> QED
    BY <2>2, <2>3, <2>4 DEF TxnStep, Start, Continue, BeginCreate, BeginSubmit, BeginEdit,
       BeginIntake, BeginArchive, BeginRestore, LockNext, CheckWarehouses,
       SelectCandidates, SelectFiles, Reserve, GuardEdit, FlushEdit, WriteBox, InsertBox, CheckArchive, Archive,
       Restore, Refuse, DeadlockVictim, Cancel
<1> QED BY <1>1, <1>2, <1>3

\* Only the commit of an archival closes a warehouse.
LEMMA StaysActive ==
  ASSUME TypeOK, NEW t \in Txns, TxnStep(t), ~Archive(t), NEW w \in Warehouses, active[w]
  PROVE  active'[w]
BY DEF TxnStep, TypeOK, Start, Continue, BeginCreate, BeginSubmit, BeginEdit,
   BeginIntake, BeginArchive, BeginRestore, LockNext, Take, CheckWarehouses,
   SelectCandidates, SelectFiles, Reserve, GuardEdit, FlushEdit, WriteBox, InsertBox, CheckArchive,
   Restore, Refuse, DeadlockVictim, Cancel

\* Only the commit of a new request makes it need its warehouses.
LEMMA NeedsAppear ==
  ASSUME TypeOK, Chosen, NEW t \in Txns, TxnStep(t), NEW u \in Txns, NEW w, Needs(u, w)'
  PROVE  \/ Needs(u, w)
         \/ u = t /\ Reserve(t) /\ request[t] # "draft" /\ w \in Wants(t)
<1>1. CASE u # t
  BY <1>1, OthersKept DEF Needs
<1>2. CASE u = t /\ Reserve(t)
  BY <1>2 DEF Reserve, Needs, Wants
<1>3. CASE u = t /\ ~Reserve(t)
  <2>1. request'[t] \in {"draft", "active"} => request[t] = request'[t]
    BY <1>3 DEF TxnStep, TypeOK, Start, Continue, BeginCreate, BeginSubmit, BeginEdit,
       BeginIntake, BeginArchive, BeginRestore, LockNext, Take, CheckWarehouses,
       SelectCandidates, SelectFiles, GuardEdit, FlushEdit, WriteBox, InsertBox, CheckArchive, Archive,
       Restore, Refuse, DeadlockVictim, Cancel
  <2>2. CASE Start(t)
    <3>1. pc[t] = "idle"
      BY <2>2 DEF Start, BeginCreate, BeginSubmit, BeginEdit, BeginIntake, BeginArchive,
         BeginRestore, Goes
    <3>2. request[t] = "draft"
      BY <1>3, <2>1, <3>1 DEF Needs, Chosen
    <3>3. op[t] # NoOp
      BY <3>2 DEF Chosen, NoOp
    <3>4. \E selection : op' = [op EXCEPT ![t].boxes = selection]
      BY <2>2, <3>3 DEF Start, Free, BeginCreate, BeginSubmit, BeginEdit, BeginIntake,
         BeginArchive, BeginRestore
    <3>5. op'[t].target = op[t].target /\ op'[t].source = op[t].source
      BY <3>4 DEF TypeOK, Op
    <3> QED BY <1>3, <2>1, <3>5 DEF Needs
  <2>3. CASE Continue(t) \/ Cancel(t)
    <3>1. op' = op
      BY <2>3 DEF Continue, LockNext, Take, CheckWarehouses, SelectCandidates, SelectFiles, Reserve,
         GuardEdit, FlushEdit, WriteBox, InsertBox, CheckArchive, Archive, Restore, Refuse, DeadlockVictim, Cancel
    <3> QED BY <1>3, <2>1, <3>1 DEF Needs
  <2> QED BY <2>2, <2>3 DEF TxnStep
<1> QED BY <1>1, <1>2, <1>3

LEMMA ClaimsOfOthers ==
  ASSUME TypeOK, Chosen, Warehouses # {} => Archiving, ClaimsKept, NEW t \in Txns, TxnStep(t),
         NEW u \in Txns, u # t
  PROVE  Claims(u)'
<1>0. Warehouses \subseteq Rows
  BY DEF Rows
<1>1. /\ op'[u] = op[u] /\ pc'[u] = pc[u] /\ todo'[u] = todo[u]
      /\ request'[u] = request[u]
      /\ \A r \in Rows : lock[r] = u => lock'[r] = u
  BY OthersKept
<1>2. Wants(u)' = Wants(u)
  BY <1>1 DEF Wants
<1>3. Claims(u)
  BY DEF ClaimsKept
<1>4. ASSUME pc[u] = "warehouses", op[u].kind = "create"
      PROVE  \A w \in Wants(u) : w \in Warehouses /\ Obtains(u, w)'
  BY <1>0, <1>1, <1>3, <1>4 DEF Claims, Obtains
<1>5. ASSUME pc[u] \in {"source", "boxes", "files"}, request[u] # "draft", NEW w \in Wants(u)
      PROVE  w \in Warehouses /\ lock'[w] = u /\ active'[w]
  <2>1. w \in Warehouses /\ lock[w] = u /\ active[w]
    BY <1>3, <1>5 DEF Claims
  <2>2. ~Archive(t)
    BY <2>1 DEF Archive, Archiving
  <2> QED BY <1>0, <1>1, <2>1, <2>2, StaysActive
<1>6. ASSUME pc[u] = "archive", NEW w, w = op[u].target, NEW v \in Txns, Needs(v, w)'
      PROVE  FALSE
  <2>1. ~Needs(v, w) /\ w \in Warehouses
    BY <1>3, <1>6 DEF Claims, Chosen
  <2>2. v = t /\ Reserve(t) /\ request[t] # "draft" /\ w \in Wants(t)
    BY <1>6, <2>1, NeedsAppear
  <2>3. lock[w] = t
    BY <2>2 DEF Reserve, Locked, ClaimsKept, Claims
  <2> QED BY <1>6, <2>1, <2>3 DEF Archiving
<1>7. pc[u] = "archive" => \A v \in Txns : ~Needs(v, op[u].target)'
  BY <1>1, <1>6 DEF Needs
<1> QED BY <1>1, <1>2, <1>4, <1>5, <1>7 DEF Claims

LEMMA ClaimsOfMover ==
  ASSUME TypeOK, Chosen, Held, ClaimsKept, NEW t \in Txns, TxnStep(t)
  PROVE  Claims(t)'
<1> USE DEF TypeOK
<1>0. Claims(t)
  BY DEF ClaimsKept
<1>1. ASSUME pc'[t] \notin {"warehouses", "source", "boxes", "files", "archive"}
      PROVE  Claims(t)'
  BY <1>1 DEF Claims
<1>2. ASSUME NEW s \in Sources, NEW w \in Warehouses, NEW selection \in Selections(s),
             BeginCreate(t, s, w, selection)
      PROVE  Claims(t)'
  <2>1. /\ op'[t].target = w /\ op'[t].source = s
        /\ pc'[t] = "warehouses" /\ todo'[t] = {WarehouseOf[s], w}
    BY <1>2 DEF BeginCreate, Goes, NoOp
  <2> QED BY <2>1, RelationsAssumption DEF Claims, Wants, Obtains
<1>3. ASSUME NEW selection \in (SUBSET Boxes) \ {{}}, BeginSubmit(t, selection)
      PROVE  Claims(t)'
  BY <1>3 DEF BeginSubmit, Goes, Claims
<1>4. ASSUME NEW w \in Warehouses, BeginArchive(t, w) \/ BeginRestore(t, w)
      PROVE  Claims(t)'
  <2>1. pc'[t] = "warehouses" /\ op'[t].kind \in {"archive", "restore"}
    <3>1. ASSUME BeginArchive(t, w) PROVE pc'[t] = "warehouses" /\ op'[t].kind = "archive"
      BY <3>1 DEF BeginArchive, Goes, NoOp
    <3>2. ASSUME BeginRestore(t, w) PROVE pc'[t] = "warehouses" /\ op'[t].kind = "restore"
      BY <3>2 DEF BeginRestore, Goes, NoOp
    <3> QED BY <1>4, <3>1, <3>2
  <2> QED BY <2>1 DEF Claims
<1>5. ASSUME NEW r \in Rows, LockNext(t, r)
      PROVE  Claims(t)'
  <2>1. /\ UNCHANGED <<op, pc, active, request>> /\ lock'[r] = t
        /\ todo'[t] = todo[t] \ {r} /\ \A q \in Rows \ {r} : lock'[q] = lock[q]
    BY <1>5 DEF LockNext, Take
  <2>2. \A w \in Warehouses : (Obtains(t, w) => Obtains(t, w)') /\ (lock[w] = t => lock'[w] = t)
    BY <2>1 DEF Obtains, Rows
  <2> QED BY <1>0, <2>1, <2>2 DEF Claims, Wants, Needs
<1>6. CASE CheckWarehouses(t)
  <2>1. /\ pc[t] = "warehouses" /\ op[t].kind = "create" /\ todo[t] = {}
        /\ \A w \in Wants(t) : active[w]
        /\ pc'[t] = "source" /\ UNCHANGED <<op, lock, active, request>>
    BY <1>6 DEF CheckWarehouses, Locked, Goes, Wants
  <2>2. \A w \in Wants(t) : w \in Warehouses /\ lock[w] = t
    BY <1>0, <2>1 DEF Claims, Obtains
  <2> QED BY <2>1, <2>2 DEF Claims, Wants
<1>7. CASE SelectCandidates(t) \/ SelectFiles(t)
  <2>1. /\ pc[t] \in {"source", "boxes"} /\ pc'[t] \in {"boxes", "files"}
        /\ UNCHANGED <<op, lock, active, request>>
    BY <1>7 DEF SelectCandidates, SelectFiles, Locked, Goes
  <2> QED BY <1>0, <2>1 DEF Claims, Wants
<1>8. CASE CheckArchive(t)
  <2>1. /\ \A u \in Txns : ~Needs(u, op[t].target)
        /\ pc'[t] = "archive" /\ UNCHANGED <<op, request>>
    BY <1>8 DEF CheckArchive, MayArchive, Goes
  <2> QED BY <2>1 DEF Claims, Needs
<1>9. CASE Cancel(t)
  BY <1>1, <1>9 DEF Cancel, Chosen
<1>10. ASSUME \/ \E b \in Boxes : BeginEdit(t, b) \/ WriteBox(t, b)
              \/ \E w \in Warehouses : BeginIntake(t, w)
              \/ GuardEdit(t) \/ FlushEdit(t) \/ InsertBox(t)
              \/ Reserve(t) \/ Archive(t) \/ Restore(t) \/ Refuse(t) \/ DeadlockVictim(t)
       PROVE  Claims(t)'
  <2>1. pc'[t] \in {"guard", "history", "write", "insert", "done"}
    BY <1>10 DEF BeginEdit, WriteBox, BeginIntake, GuardEdit, FlushEdit, InsertBox, Reserve,
       Archive, Restore, Refuse, DeadlockVictim, Ends, Goes
  <2> QED BY <1>1, <2>1
<1> QED
  BY <1>2, <1>3, <1>4, <1>5, <1>6, <1>7, <1>8, <1>9, <1>10 DEF TxnStep, Start, Continue

LEMMA ClaimsStep ==
  ASSUME TypeOK, Chosen, Held, Warehouses # {} => Archiving, ClaimsKept, [Next]_vars
  PROVE  ClaimsKept'
<1>1. CASE UNCHANGED vars
  BY <1>1 DEF vars, ClaimsKept, ArchivedUnneeded, Needs, Claims, Wants, Obtains
<1>2. ASSUME NEW t \in Txns, TxnStep(t)
      PROVE  ClaimsKept'
  <2>1. \A u \in Txns : Claims(u)'
    BY <1>2, ClaimsOfOthers, ClaimsOfMover
  <2>2. ASSUME NEW w \in Warehouses, ~active'[w], NEW u \in Txns, Needs(u, w)'
        PROVE  FALSE
    <3>1. CASE Archive(t)
      <4>1. ~Needs(u, w)
        BY <2>2, <3>1 DEF Archive, ClaimsKept, Claims, ArchivedUnneeded, TypeOK
      <4>2. ~Reserve(t)
        BY <3>1 DEF Archive, Reserve, Locked
      <4> QED BY <1>2, <2>2, <4>1, <4>2, NeedsAppear
    <3>2. CASE ~Archive(t)
      <4>1. ~active[w]
        BY <1>2, <2>2, <3>2, StaysActive
      <4>2. ~Needs(u, w)
        BY <4>1 DEF ClaimsKept, ArchivedUnneeded
      <4>3. u = t /\ Reserve(t) /\ request[t] # "draft" /\ w \in Wants(t)
        BY <1>2, <2>2, <4>2, NeedsAppear
      <4> QED BY <4>1, <4>3 DEF Reserve, Locked, ClaimsKept, Claims
    <3> QED BY <3>1, <3>2
  <2> QED BY <2>1, <2>2 DEF ClaimsKept, ArchivedUnneeded
<1> QED BY <1>1, <1>2 DEF Next, TxnStep

\* No request that is not over, a draft nobody has submitted included, names an
\* archived warehouse, though archival counts the requests in one statement and
\* commits in another.
THEOREM ArchivalsWait == Spec => []ArchivedUnneeded
<1> DEFINE Inv == TypeOK /\ Chosen /\ Held /\ (Warehouses # {} => Archiving) /\ ClaimsKept
<1>1. Init => Inv
  <2> SUFFICES ASSUME Init PROVE Inv
    OBVIOUS
  <2>1. TypeOK /\ Chosen /\ Held
    BY InitType
  <2>2. Warehouses # {} => Archiving
    BY DEF Init, Archiving, SomeWarehouseActive
  <2>3. ClaimsKept
    BY DEF Init, ClaimsKept, ArchivedUnneeded, Claims
  <2> QED BY <2>1, <2>2, <2>3
<1>2. Inv /\ [Next]_vars => Inv'
  BY TypeStep, ChosenStep, HeldStep, ArchivingStep, ClaimsStep
<1>3. Inv => ArchivedUnneeded
  BY DEF ClaimsKept
<1> QED BY <1>1, <1>2, <1>3, PTL DEF Spec

-----------------------------------------------------------------------------
(* The order of the locks.                                                 *)

\* Which tables a statement locks rows of, and which rows it may hold already.
TableOf(statement) == CASE statement = "warehouses"             -> Warehouses
                        [] statement = "source"                 -> Sources
                        [] statement \in {"boxes", "write"}     -> Boxes
                        [] statement \in {"files", "history"}   -> Files
                        [] OTHER                                -> {}

LockedBefore(statement) ==
  CASE statement = "warehouses" -> Warehouses
    [] statement = "archive"    -> Warehouses
    [] statement = "source"     -> Warehouses \union Sources
    [] statement = "boxes"      -> Warehouses \union Sources \union Boxes
    [] statement = "files"      -> Rows
    [] statement = "history"    -> Files
    [] statement = "write"      -> Files \union Boxes
    [] OTHER                    -> {}

\* Reservations and archivals lock from warehouses to files, edits from files to
\* boxes; within a table all lock from the lowest row up.
LocksInOrder ==
  \A t \in Txns :
    /\ todo[t] \subseteq TableOf(pc[t])
    /\ \A r \in Rows : lock[r] = t => r \in LockedBefore(pc[t])
    /\ \A r \in TableOf(pc[t]), q \in todo[t] : lock[r] = t => r < q

LEMMA TablesApart ==
  /\ Rows \subseteq Nat
  /\ Warehouses \intersect Sources = {} /\ Warehouses \intersect Boxes = {}
  /\ Warehouses \intersect Files = {} /\ Sources \intersect Boxes = {}
  /\ Sources \intersect Files = {} /\ Boxes \intersect Files = {}
  BY TablesAssumption DEF Rows

LEMMA OrderStep ==
  ASSUME TypeOK, Chosen, LocksInOrder, [Next]_vars
  PROVE  LocksInOrder'
<1> USE DEF LocksInOrder
<1>1. CASE UNCHANGED vars
  BY <1>1 DEF vars
<1>2. ASSUME NEW t \in Txns, Start(t) \/ Continue(t) \/ Cancel(t)
      PROVE  LocksInOrder'
  <2> DEFINE Fine(u) ==
        /\ todo'[u] \subseteq TableOf(pc'[u])
        /\ \A r \in Rows : lock'[r] = u => r \in LockedBefore(pc'[u])
        /\ \A r \in TableOf(pc'[u]), q \in todo'[u] : lock'[r] = u => r < q
  <2>t. \A u : TableOf(u) \subseteq Rows
    BY DEF TableOf, Rows
  <2>a. ASSUME NEW u \in Txns, pc'[u] = pc[u], todo'[u] = todo[u],
               \A r \in Rows : lock'[r] = u => lock[r] = u
        PROVE  Fine(u)
    BY <2>a, <2>t
  <2>b. ASSUME \A u \in Txns \ {t} : pc'[u] = pc[u] /\ todo'[u] = todo[u],
               \A u \in Txns \ {t}, r \in Rows : lock'[r] = u => lock[r] = u,
               Fine(t)
        PROVE  LocksInOrder'
    <3>1. \A u \in Txns : Fine(u)
      BY <2>a, <2>b
    <3> QED BY <3>1
  \* Statements that neither hold nor ask for rows.
  <2>1. ASSUME \/ \E b \in Boxes : BeginEdit(t, b)
               \/ \E w \in Warehouses : BeginIntake(t, w)
               \/ InsertBox(t)
        PROVE  LocksInOrder'
    <3>1. /\ pc[t] \in {"idle", "insert"}
          /\ pc'[t] \in {"guard", "insert", "done"}
          /\ \A u \in Txns \ {t} : pc'[u] = pc[u]
          /\ UNCHANGED <<todo, lock>>
      BY <2>1 DEF BeginEdit, BeginIntake, InsertBox, Goes, TypeOK
    <3>2. Fine(t)
      BY <3>1 DEF TableOf, LockedBefore
    <3> QED BY <2>b, <3>1, <3>2
  \* The first locking statement.
  <2>2. ASSUME pc[t] \in {"idle", "guard"}, UNCHANGED lock,
               NEW s \in {"warehouses", "source", "history"},
               NEW rows \in SUBSET TableOf(s),
               pc' = [pc EXCEPT ![t] = s], todo' = [todo EXCEPT ![t] = rows]
        PROVE  LocksInOrder'
    <3>1. /\ pc'[t] = s /\ todo'[t] = rows
          /\ \A u \in Txns \ {t} : pc'[u] = pc[u] /\ todo'[u] = todo[u]
      BY <2>2 DEF TypeOK
    <3>2. \A r \in Rows : lock[r] # t
      BY <2>2 DEF LockedBefore
    <3>3. Fine(t)
      BY <2>2, <2>t, <3>1, <3>2
    <3> QED BY <2>2, <2>b, <3>1, <3>3
  <2>3. ASSUME NEW r \in Rows, LockNext(t, r)
        PROVE  LocksInOrder'
    <3>1. /\ r \in todo[t] /\ \A q \in todo[t] : r <= q
          /\ todo'[t] = todo[t] \ {r} /\ pc'[t] = pc[t]
          /\ lock'[r] = t /\ \A q \in Rows \ {r} : lock'[q] = lock[q]
          /\ \A u \in Txns \ {t} : pc'[u] = pc[u] /\ todo'[u] = todo[u]
      BY <2>3 DEF LockNext, Take, TypeOK
    <3>2. todo[t] \subseteq Nat /\ r \in Nat
      BY TablesApart DEF TypeOK
    <3>3. r \in LockedBefore(pc[t])
      BY <3>1 DEF TableOf, LockedBefore, Rows
    <3>4. \A q \in todo'[t] : r < q
      BY <3>1, <3>2
    <3>5. Fine(t)
      BY <2>t, <3>1, <3>3, <3>4
    <3> QED BY <2>b, <3>1, <3>5
  \* From one table to the next.
  <2>4. ASSUME NEW s \in {"source", "boxes", "files", "write"}, UNCHANGED lock,
               pc[t] = (CASE s = "source" -> "warehouses" [] s = "boxes" -> "source"
                          [] s = "files" -> "boxes" [] s = "write" -> "history"),
               NEW rows \in SUBSET TableOf(s),
               pc' = [pc EXCEPT ![t] = s], todo' = [todo EXCEPT ![t] = rows]
        PROVE  LocksInOrder'
    <3>1. /\ pc'[t] = s /\ todo'[t] = rows
          /\ \A u \in Txns \ {t} : pc'[u] = pc[u] /\ todo'[u] = todo[u]
      BY <2>4 DEF TypeOK
    <3>2. LockedBefore(pc[t]) \subseteq LockedBefore(s)
      BY <2>4 DEF LockedBefore, Rows
    <3>3. LockedBefore(pc[t]) \intersect TableOf(s) = {}
      BY <2>4, TablesApart DEF LockedBefore, TableOf
    <3>4. Fine(t)
      BY <2>4, <2>t, <3>1, <3>2, <3>3
    <3> QED BY <2>4, <2>b, <3>1, <3>4
  <2>5. CASE CheckArchive(t)
    <3>1. /\ pc[t] = "warehouses" /\ pc'[t] = "archive" /\ todo[t] = {}
          /\ \A u \in Txns \ {t} : pc'[u] = pc[u]
          /\ UNCHANGED <<todo, lock>>
      BY <2>5 DEF CheckArchive, Locked, Goes, TypeOK
    <3>2. Fine(t)
      BY <3>1 DEF LockedBefore, TableOf
    <3> QED BY <2>b, <3>1, <3>2
  <2>6. CASE Ends(t)
    <3>1. /\ todo'[t] = {} /\ \A r \in Rows : lock'[r] # t
          /\ \A u \in Txns \ {t} : pc'[u] = pc[u] /\ todo'[u] = todo[u]
          /\ \A u \in Txns \ {t}, r \in Rows : lock'[r] = u => lock[r] = u
      BY <2>6, RelationsAssumption DEF Ends, TypeOK
    <3> QED BY <2>b, <2>t, <3>1
  <2>7. CASE Cancel(t)
    BY <2>7, <2>a DEF Cancel
  <2>8. CASE Start(t)
    <3>1. ASSUME NEW s \in Sources, NEW w \in Warehouses, NEW selection \in Selections(s),
                 BeginCreate(t, s, w, selection)
          PROVE  LocksInOrder'
      <4>1. {WarehouseOf[s], w} \in SUBSET TableOf("warehouses")
        BY RelationsAssumption DEF TableOf
      <4> QED BY <2>2, <3>1, <4>1 DEF BeginCreate, Goes
    <3>2. ASSUME NEW selection \in (SUBSET Boxes) \ {{}}, BeginSubmit(t, selection)
          PROVE  LocksInOrder'
      <4>1. {op[t].source} \in SUBSET TableOf("source")
        BY <3>2 DEF TableOf, BeginSubmit, Chosen
      <4> QED BY <2>2, <3>2, <4>1 DEF BeginSubmit, Goes
    <3>3. ASSUME NEW w \in Warehouses, BeginArchive(t, w)
          PROVE  LocksInOrder'
      BY <2>2, <3>3 DEF BeginArchive, Goes, TableOf
    <3>4. ASSUME NEW w \in Warehouses, BeginRestore(t, w)
          PROVE  LocksInOrder'
      <4>1. {w} \in SUBSET TableOf("warehouses")
        BY DEF TableOf
      <4> QED BY <2>2, <3>4, <4>1 DEF BeginRestore, Goes
    <3> QED BY <2>1, <2>8, <3>1, <3>2, <3>3, <3>4 DEF Start
  <2>9. CASE CheckWarehouses(t)
    <3>1. {op[t].source} \in SUBSET TableOf("source")
      BY <2>9 DEF CheckWarehouses, Locked, Chosen, TableOf
    <3> QED BY <2>4, <2>9, <3>1 DEF CheckWarehouses, Goes
  <2>10. CASE SelectCandidates(t)
    <3>1. Candidates(op[t].source) \in SUBSET TableOf("boxes")
      BY <2>10, RelationsAssumption DEF SelectCandidates, Locked, Chosen, TableOf, Candidates
    <3> QED BY <2>4, <2>10, <3>1 DEF SelectCandidates, Goes
  <2>11. /\ op[t].boxes \in SUBSET TableOf("write")
         /\ UNION {FilesOf[b] : b \in op[t].boxes} \in SUBSET TableOf("files")
         /\ TableOf("history") = TableOf("files")
    BY RelationsAssumption DEF TypeOK, Op, TableOf
  <2>12. CASE SelectFiles(t)
    BY <2>4, <2>11, <2>12 DEF SelectFiles, Goes
  <2>13. CASE GuardEdit(t)
    BY <2>2, <2>11, <2>13 DEF GuardEdit, Goes
  <2>14. CASE FlushEdit(t)
    BY <2>4, <2>11, <2>14 DEF FlushEdit, Goes
  <2>15. CASE \/ \E b \in Boxes : WriteBox(t, b)
              \/ Reserve(t) \/ Archive(t) \/ Restore(t) \/ Refuse(t) \/ DeadlockVictim(t)
    BY <2>6, <2>15 DEF WriteBox, Reserve, Archive, Restore, Refuse, DeadlockVictim
  <2> QED
    BY <1>2, <2>1, <2>3, <2>5, <2>7, <2>8, <2>9, <2>10, <2>12, <2>13, <2>14, <2>15
    DEF Continue
<1> QED BY <1>1, <1>2 DEF Next

\* Where every transaction of a set asks only for rows above those it holds, in
\* some order of the rows, the set is no circle: of the rows it waits for one has
\* the fewest above it, and whoever holds that row waits for one of these.
LEMMA NoCircle ==
  ASSUME IsFiniteSet(Rows), NEW above \in [Rows -> SUBSET Rows],
         \A r \in Rows : r \notin above[r],
         \A r \in Rows : \A q \in above[r] : above[q] \subseteq above[r],
         NEW S \in SUBSET Txns,
         \A t \in S : \A r, q \in Rows : Awaits(t, q) /\ lock[r] = t => q \in above[r]
  PROVE  ~Circle(S)
<1> DEFINE Waited == {r \in Rows : lock[r] \in S /\ \E t \in S : Awaits(t, r)}
           Over == {above[r] : r \in Waited}
<1> SUFFICES ASSUME Circle(S) PROVE FALSE
  OBVIOUS
<1>1. ASSUME NEW t \in S
      PROVE  \E r \in Waited : Awaits(t, r)
  <2>1. PICK u \in S : WaitsFor(t, u)
    BY DEF Circle
  <2> QED BY <2>1 DEF WaitsFor
<1>2. \A r \in Waited : \E q \in Waited : q \in above[r]
  BY <1>1
<1>3. \A r \in Waited : r \in Rows /\ above[r] \in SUBSET Rows /\ IsFiniteSet(above[r])
  BY FS_Subset
<1>4. Waited # {}
  BY <1>1 DEF Circle
<1> HIDE DEF Waited
<1>5. Over \subseteq FiniteSubsetsOf(Rows) /\ Over # {}
  BY <1>3, <1>4 DEF FiniteSubsetsOf
<1>6. PICK A \in Over : \A B \in Over : <<B, A>> \notin StrictSubsetOrdering(Rows)
  BY <1>5, FS_StrictSubsetOrderingWellFounded, WFMin
<1>7. PICK r \in Waited : A = above[r]
  OBVIOUS
<1>8. PICK q \in Waited : q \in above[r]
  BY <1>2
<1>9. above[q] \subseteq A /\ q \in A /\ q \notin above[q]
  BY <1>3, <1>7, <1>8
<1>10. <<above[q], A>> \in StrictSubsetOrdering(Rows)
  BY <1>3, <1>7, <1>8, <1>9 DEF StrictSubsetOrdering
<1> QED BY <1>6, <1>8, <1>10

\* Without edits that ask for a box or a warehouse the rows ascend from
\* warehouses to files.
LEMMA CirclesHaveEdits ==
  ASSUME TypeOK, LocksInOrder, IsFiniteSet(Rows),
         NEW S \in SUBSET Txns, \A t \in S : pc[t] # "write"
  PROVE  ~Circle(S)
<1> DEFINE above == [r \in Rows |-> {q \in Rows : r < q}]
<1>1. above \in [Rows -> SUBSET Rows]
  OBVIOUS
<1>2. \A r \in Rows : r \notin above[r]
  BY TablesApart
<1>3. ASSUME NEW r \in Rows, NEW q \in above[r], NEW x \in above[q]
      PROVE  x \in above[r]
  <2>1. q \in Rows /\ x \in Rows /\ r < q /\ q < x
    BY <1>3
  <2>2. r < x
    BY <2>1, TablesApart
  <2> QED BY <2>1, <2>2
<1>4. ASSUME NEW t \in S, NEW r \in Rows, NEW q \in Rows, Awaits(t, q), lock[r] = t
      PROVE  q \in above[r]
  <2>1. r \in LockedBefore(pc[t])
    BY <1>4 DEF LocksInOrder
  <2>2. q \in todo[t]
    BY <1>4, <2>1 DEF Awaits, Locked, LockedBefore
  <2>3. q \in TableOf(pc[t]) /\ (r \in TableOf(pc[t]) => r < q)
    BY <1>4, <2>2 DEF LocksInOrder
  <2>4. r < q
    BY <2>1, <2>3, TablesAssumption DEF LockedBefore, TableOf, Rows
  <2> QED BY <2>4
<1> HIDE DEF above
<1> QED BY <1>1, <1>2, <1>3, <1>4, NoCircle

\* Without reservations that ask for boxes or files they ascend from files over
\* boxes and warehouses to sources.
LEMMA CirclesHaveReservations ==
  ASSUME TypeOK, LocksInOrder, IsFiniteSet(Rows),
         NEW S \in SUBSET Txns, \A t \in S : pc[t] \notin {"boxes", "files"}
  PROVE  ~Circle(S)
<1> DEFINE rank(r) == IF r \in Files THEN 0 ELSE IF r \in Boxes THEN 1
                      ELSE IF r \in Warehouses THEN 2 ELSE 3
           above == [r \in Rows |->
                       {q \in Rows : rank(r) < rank(q) \/ (rank(r) = rank(q) /\ r < q)}]
<1>1. above \in [Rows -> SUBSET Rows]
  OBVIOUS
<1>2. \A r \in Rows : r \notin above[r]
  BY TablesApart
<1>3. ASSUME NEW r \in Rows, NEW q \in above[r], NEW x \in above[q]
      PROVE  x \in above[r]
  <2>1. /\ q \in Rows /\ x \in Rows
        /\ rank(r) < rank(q) \/ (rank(r) = rank(q) /\ r < q)
        /\ rank(q) < rank(x) \/ (rank(q) = rank(x) /\ q < x)
    BY <1>3
  <2>2. r \in Nat /\ q \in Nat /\ x \in Nat
    BY <2>1, TablesApart
  <2>3. rank(r) \in Nat /\ rank(q) \in Nat /\ rank(x) \in Nat
    OBVIOUS
  <2>4. rank(r) < rank(x) \/ (rank(r) = rank(x) /\ r < x)
    <3> HIDE DEF rank
    <3> QED BY <2>1, <2>2, <2>3
  <2> QED BY <2>1, <2>4
<1>4. ASSUME NEW t \in S, NEW r \in Rows, NEW q \in Rows, Awaits(t, q), lock[r] = t
      PROVE  q \in above[r]
  <2>1. r \in LockedBefore(pc[t])
    BY <1>4 DEF LocksInOrder
  <2>2. CASE q \in todo[t]
    <3>1. q \in TableOf(pc[t]) /\ (r \in TableOf(pc[t]) => r < q)
      BY <1>4, <2>2 DEF LocksInOrder
    <3>2. rank(r) < rank(q) \/ (rank(r) = rank(q) /\ r < q)
      BY <2>1, <3>1, TablesApart DEF LockedBefore, TableOf
    <3> QED BY <3>2
  <2>3. CASE q \notin todo[t]
    <3>1. pc[t] = "write" /\ q \in Warehouses
      BY <1>4, <2>1, <2>3, RelationsAssumption DEF Awaits, Locked, LockedBefore, TypeOK, Op
    <3>2. r \in Files \union Boxes
      BY <2>1, <3>1 DEF LockedBefore
    <3>3. rank(r) < rank(q)
      BY <3>1, <3>2, TablesApart
    <3> QED BY <3>3
  <2> QED BY <2>2, <2>3
<1> HIDE DEF above
<1> QED BY <1>1, <1>2, <1>3, <1>4, NoCircle

\* Transactions that wait for each other hold an edit and a reservation, for any
\* number of transactions and any finite tables: all others, archivals and
\* creations in particular, lock rows in one order.
THEOREM OthersNeverDeadlock ==
  ASSUME IsFiniteSet(Rows)
  PROVE  Spec => []OnlyEditsDeadlock
<1> DEFINE Inv == TypeOK /\ Chosen /\ LocksInOrder
<1>1. Init => Inv
  <2>1. Init => LocksInOrder
    BY RelationsAssumption DEF Init, LocksInOrder
  <2> QED BY <2>1, InitType
<1>2. Inv /\ [Next]_vars => Inv'
  BY TypeStep, ChosenStep, OrderStep
<1>3. Inv => OnlyEditsDeadlock
  BY CirclesHaveEdits, CirclesHaveReservations DEF OnlyEditsDeadlock
<1> QED BY <1>1, <1>2, <1>3, PTL DEF Spec

=============================================================================
