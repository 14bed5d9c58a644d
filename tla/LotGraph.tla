------------------------------ MODULE LotGraph ------------------------------
(***************************************************************************)
(* Lots and what hangs on them: pallets, boxes, files, and the request     *)
(* items that name lots, boxes and pallets.                                *)
(*                                                                         *)
(* Boxes enter a lot through receipts, move between lots, are archived and *)
(* restored; an administrator merges one lot into another or purges a lot  *)
(* with all that hangs on it.  Every operation locks its lots first (Lot   *)
(* FOR UPDATE, or FOR SHARE for receipts), so the module runs one at a     *)
(* time.  Tables are functions from the identities of their live rows.     *)
(* Quantities, warehouses, reservations and statuses of boxes are the      *)
(* subject of BoxReservations; here only links and existence matter.       *)
(***************************************************************************)
EXTENDS PurgeCleanup, Functions

CONSTANTS
    Lots, Pallets, Boxes, Files, Requests, \* identities of rows, never reused
    LotName,        \* the normalized name a lot is created with
    NewNames,       \* the names lots are renamed to
    PalletLabel,    \* the normalized number of a pallet, unique in its lot
    BoxNumber,      \* the number printed on a box, unique in its lot
    FileReference,  \* the normalized reference of a file, unique in its lot
    KeyOf,          \* the object keys of the documents of a request
    PhotoOf,        \* those of the photos of a missing item of a request
    ReceiptSize,    \* bound: boxes of one receipt
    Kinds           \* bound: the kinds of operations that run

VARIABLES
    lot,        \* Lot table
    pallet,     \* Pallet table
    box,        \* Box table
    file,       \* BoxFile table
    request,    \* BoxRequest table with its items and missing discrepancies
    retired     \* identities of deleted rows: their barcodes are retired

(* Barcodes are unique over all tables, and so are the generated keys.      *)
ASSUME IdentitiesAssumption ==
    /\ IsFiniteSet(Boxes)
    /\ None \notin Lots \cup Pallets \cup Boxes
    /\ Lots \cap (Pallets \cup Boxes \cup Files \cup Requests) = {}
    /\ Pallets \cap (Boxes \cup Files \cup Requests) = {}
    /\ Boxes \cap (Files \cup Requests) = {}
    /\ Files \cap Requests = {}

ASSUME KeysAssumption ==
    /\ KeyOf \in [Requests -> SUBSET Keys]
    /\ PhotoOf \in [Requests -> [Boxes -> SUBSET Keys]]
    /\ \A r, q \in Requests : \A i \in Boxes : KeyOf[r] \cap PhotoOf[q][i] = {}
    /\ \A r, q \in Requests : r # q => KeyOf[r] \cap KeyOf[q] = {}
    /\ \A r, q \in Requests : \A i, j \in Boxes :
          <<r, i>> # <<q, j>> => PhotoOf[r][i] \cap PhotoOf[q][j] = {}

tables == <<lot, pallet, box, file, request, retired>>
vars == <<tables, cleanupVars>>

Live == DOMAIN lot \cup DOMAIN pallet \cup DOMAIN box \cup DOMAIN file

(* Barcodes are retired with the rows they name, and only once.            *)
Retire(ids) ==
    /\ ids \cap retired = {}
    /\ retired' = retired \cup ids

(* Rows: a lot is "worked" when boxes were reassigned from it or it took   *)
(* part in a merge, a box when it has events other than created, archived  *)
(* and assigned.                                                           *)
LotRow ==
    [name : {LotName[l] : l \in Lots} \cup NewNames, into : Lots \cup {None},
     worked : BOOLEAN]
PalletRow ==
    [lot : Lots, active : BOOLEAN, absorbed : Pallets \cup {None}]
BoxRow ==
    [lot : Lots, pallet : Pallets \cup {None},
     state : {"held", "returned", "archived"},
     worked : BOOLEAN]
FileRow == [box : Boxes, lot : Lots, active : BOOLEAN]
ItemRow ==
    [box : Boxes \cup {None}, lot : Lots \cup {None},
     pallet : Pallets \cup {None}]

(* The items of a request are named by the box they were written for.      *)
RequestRow ==
    [kind : {"receipt", "staged", "inbound", "return"},
     status : {"staged", "open", "completed", "cancelled"},
     items : UNION {[bs -> ItemRow] : bs \in SUBSET Boxes},
     missing : SUBSET Boxes, quantity : Nat \ {0}, actual : Nat, variance : Int,
     lineage : SUBSET Requests]

(* The rows of f, and those of g where f has none.                         *)
Over(f, g) ==
    [i \in DOMAIN f \cup DOMAIN g |-> IF i \in DOMAIN f THEN f[i] ELSE g[i]]

WithRow(table, i, row) == Over(table, [j \in {i} |-> row])

(* A table with identities in S and rows in T.                             *)
IsTable(t, S, T) == DOMAIN t \subseteq S /\ \A i \in DOMAIN t : t[i] \in T

Init ==
    /\ lot = << >> /\ pallet = << >> /\ box = << >> /\ file = << >>
    /\ request = << >> /\ retired = {}
    /\ CleanupInit

(***************************************************************************)
(* Lookups                                                                 *)
(***************************************************************************)
Unmerged(l) == l \in DOMAIN lot /\ lot[l].into = None

(* A lot that exists, or one to create under a name no unmerged lot has.   *)
UsableLot(l) ==
    \/ Unmerged(l)
    \/ /\ l \notin DOMAIN lot \cup retired
       /\ \A k \in DOMAIN lot : Unmerged(k) => lot[k].name # LotName[l]

(* A pallet of the lot, or one to create under a number new in the lot.    *)
UsablePallet(p, l) ==
    IF p \in DOMAIN pallet
    THEN pallet[p].lot = l /\ pallet[p].active
    ELSE /\ p \notin retired
         /\ \A q \in DOMAIN pallet :
               pallet[q].lot = l => PalletLabel[q] # PalletLabel[p]

BoxesOf(l) == {b \in DOMAIN box : box[b].lot = l}
PalletsOf(l) == {p \in DOMAIN pallet : pallet[p].lot = l}
FilesOf(bs) == {f \in DOMAIN file : file[f].box \in bs}
FilesIn(l) == {f \in DOMAIN file : file[f].lot = l}
Active(b) == box[b].state # "archived"
Items(r) == DOMAIN request[r].items
Naming(b) == {r \in DOMAIN request :
                \E i \in Items(r) : request[r].items[i].box = b}

(* Pallets among ps that lost their last box are archived.                 *)
ArchiveEmptied(ps) ==
    pallet' = [p \in DOMAIN pallet |->
                 IF p \in ps /\ \A b \in DOMAIN box' : box'[b].pallet # p
                 THEN [pallet[p] EXCEPT !.active = FALSE]
                 ELSE pallet[p]]

(***************************************************************************)
(* Receipts.  A line of a receipt names a lot, a box number and perhaps a  *)
(* pallet; lots and pallets are created on demand.  A number the lot holds *)
(* already is an error unless its box is archived, which the receipt then  *)
(* restores.                                                               *)
(***************************************************************************)
Physical(b, l) ==
    IF \E c \in BoxesOf(l) : BoxNumber[c] = BoxNumber[b]
    THEN CHOOSE c \in BoxesOf(l) : BoxNumber[c] = BoxNumber[b]
    ELSE b

(* The lines of one receipt agree on the lots and pallets they name.       *)
MayName(bs, into, onto) ==
    /\ \A b, c \in bs :
        /\ into[b] = into[c] /\ BoxNumber[b] = BoxNumber[c] => b = c
        /\ onto[b] = onto[c] /\ onto[b] # None => into[b] = into[c]
        /\ LotName[into[b]] = LotName[into[c]] => into[b] = into[c]
        /\ onto[b] # onto[c] /\ None \notin {onto[b], onto[c]}
             => into[b] # into[c] \/ PalletLabel[onto[b]] # PalletLabel[onto[c]]
    /\ \A b \in bs :
        /\ b \notin DOMAIN box \cup retired
        /\ UsableLot(into[b])
        /\ onto[b] # None => UsablePallet(onto[b], into[b])

WithLots(ls) ==
    Over(lot, [l \in ls |-> [name |-> LotName[l], into |-> None,
                             worked |-> FALSE]])

WithPallets(bs, into, onto) ==
    Over(pallet, [p \in {onto[b] : b \in bs} \ {None} |->
                    [lot |-> into[CHOOSE b \in bs : onto[b] = p],
                     active |-> TRUE, absorbed |-> None]])

MayReceive(bs, into, onto) ==
    /\ MayName(bs, into, onto)
    /\ \A b \in bs :
        LET c == Physical(b, into[b]) IN
        c # b => /\ ~Active(c)
                 /\ onto[b] = None /\ box[c].pallet # None
                      => /\ pallet[box[c].pallet].active
                         /\ pallet[box[c].pallet].lot = box[c].lot

Received(b, l, p) ==
    LET c == Physical(b, l) IN
    IF c = b
    THEN [lot |-> l, pallet |-> p, state |-> "held",
          worked |-> FALSE]
    ELSE [box[c] EXCEPT !.state = "held",
                        !.pallet = IF p = None THEN @ ELSE p,
                        !.worked = TRUE]

Intake(bs, into, onto) ==
    LET old == {Physical(b, into[b]) : b \in bs} \cap DOMAIN box
        named == WithPallets(bs, into, onto)
        left == {box[c].pallet : c \in old} \ {None}
    IN
    /\ lot' = WithLots({into[b] : b \in bs})
    /\ box' = Over([c \in {Physical(b, into[b]) : b \in bs} |->
                      LET b == CHOOSE b \in bs : Physical(b, into[b]) = c
                      IN  Received(b, into[b], onto[b])], box)
    /\ pallet' = [p \in DOMAIN named |->
                    IF p \in left /\ \A c \in DOMAIN box' : box'[c].pallet # p
                    THEN [named[p] EXCEPT !.active = FALSE]
                    ELSE named[p]]

Completed(kind, items, quantity) ==
    [kind |-> kind, status |-> "completed", items |-> items, missing |-> {},
     quantity |-> quantity, actual |-> Cardinality(DOMAIN items),
     variance |-> Cardinality(DOMAIN items) - quantity, lineage |-> {}]

(* A receipt completed at once by the person who holds the boxes, or the   *)
(* completion of a transport whose requested quantity may differ.          *)
Receive(r, kind, bs, into, onto, quantity) ==
    /\ r \notin DOMAIN request \cup retired
    /\ MayReceive(bs, into, onto)
    /\ Intake(bs, into, onto)
    /\ request' = WithRow(request, r,
         Completed(kind,
                   [b \in bs |-> [box |-> Physical(b, into[b]),
                                  lot |-> into[b], pallet |-> onto[b]]],
                   quantity))
    /\ Upload(KeyOf[r])
    /\ UNCHANGED <<file, retired, ledger, worker>>

(* A receipt awaiting review: its lots and pallets are created at once,    *)
(* its boxes when it is finalized.                                         *)
Stage(r, bs, into, onto) ==
    /\ r \notin DOMAIN request \cup retired
    /\ MayName(bs, into, onto)
    /\ lot' = WithLots({into[b] : b \in bs})
    /\ pallet' = WithPallets(bs, into, onto)
    /\ request' = WithRow(request, r,
         [Completed("staged",
                    [b \in bs |-> [box |-> None, lot |-> into[b],
                                   pallet |-> onto[b]]],
                    Cardinality(bs))
          EXCEPT !.status = "staged", !.actual = 0])
    /\ Upload(KeyOf[r])
    /\ UNCHANGED <<box, file, retired, ledger, worker>>

Finalize(r) ==
    LET items == request[r].items
        into == [b \in Items(r) |-> items[b].lot]
        onto == [b \in Items(r) |-> items[b].pallet]
    IN
    /\ request[r].status = "staged"
    /\ MayReceive(Items(r), into, onto)
    /\ Intake(Items(r), into, onto)
    /\ request' = [request EXCEPT ![r] =
         [@ EXCEPT !.status = "completed",
                   !.items = [b \in Items(r) |->
                                [items[b] EXCEPT !.box = Physical(b, into[b])]],
                   !.actual = Cardinality(Items(r)), !.variance = 0]]
    /\ UNCHANGED <<file, retired, cleanupVars>>

(***************************************************************************)
(* Returns: boxes of a completed inbound request, open until they are      *)
(* handed over or the request is cancelled.                                *)
(***************************************************************************)
InOpenReturn(b) == \E r \in Naming(b) : request[r].status = "open"

Return(r, source, bs) ==
    /\ r \notin DOMAIN request \cup retired
    /\ bs # {}
    /\ request[source].kind # "return" /\ request[source].status = "completed"
    /\ \A b \in bs : /\ source \in Naming(b)
                     /\ box[b].state = "held" /\ ~InOpenReturn(b)
    /\ request' = WithRow(request, r,
         [kind |-> "return", status |-> "open",
          items |-> [b \in bs |-> [box |-> b, lot |-> box[b].lot,
                                   pallet |-> box[b].pallet]],
          missing |-> {}, quantity |-> Cardinality(bs), actual |-> 0,
          variance |-> 0, lineage |-> {source}])
    /\ Upload(KeyOf[r])
    /\ UNCHANGED <<lot, pallet, box, file, retired, ledger, worker>>

HandOver(r, missing) ==
    LET boxOf(i) == request[r].items[i].box
        back == {boxOf(i) : i \in Items(r) \ missing}
    IN
    /\ request[r].status = "open"
    /\ missing \subseteq Items(r)
    /\ box' = [b \in DOMAIN box |->
                 IF b \in back
                 THEN [box[b] EXCEPT !.state = "returned",
                                     !.worked = TRUE]
                 ELSE box[b]]
    /\ LET got == Cardinality(Items(r)) - Cardinality(missing) IN
       request' = [request EXCEPT ![r] =
         [@ EXCEPT !.status = "completed", !.missing = missing,
                   !.actual = got, !.variance = got - request[r].quantity]]
    /\ Upload(UNION {PhotoOf[r][i] : i \in missing})
    /\ UNCHANGED <<lot, pallet, file, retired, ledger, worker>>

Cancel(r) ==
    /\ request[r].status \in {"staged", "open"}
    /\ request' = [request EXCEPT ![r].status = "cancelled"]
    /\ UNCHANGED <<lot, pallet, box, file, retired, cleanupVars>>

(***************************************************************************)
(* Boxes, files and pallets                                                *)
(***************************************************************************)
CancelReturns(b) ==
    request' = [r \in DOMAIN request |->
                  IF r \in Naming(b) /\ request[r].status = "open"
                  THEN [request[r] EXCEPT !.status = "cancelled"]
                  ELSE request[r]]

(* A box some request names is archived and its open returns cancelled; so *)
(* is one with a pallet or files; any other box is deleted.                *)
DeleteBox(b) ==
    /\ b \in DOMAIN box
    /\ IF Naming(b) # {} \/ box[b].pallet # None \/ FilesOf({b}) # {}
       THEN box' = [box EXCEPT ![b].state = "archived"] /\ retired' = retired
       ELSE /\ box' = Restrict(box, DOMAIN box \ {b})
            /\ Retire({b})
    /\ CancelReturns(b)
    /\ UNCHANGED <<lot, pallet, file, cleanupVars>>

(* Changing the pallet of a box; p = None detaches it.                     *)
AssignedRow(b, p) ==
    [box[b] EXCEPT !.pallet = p,
                   !.worked = @ \/ box[b].pallet \notin {None, p}]

AssignPallet(b, p) ==
    /\ b \in DOMAIN box /\ Active(b)
    /\ p # box[b].pallet
    /\ p # None => p \in DOMAIN pallet /\ UsablePallet(p, box[b].lot)
    /\ box' = [box EXCEPT ![b] = AssignedRow(b, p)]
    /\ ArchiveEmptied({box[b].pallet})
    /\ UNCHANGED <<lot, file, request, retired, cleanupVars>>

(* One box to another lot; its files follow, the items that name it keep   *)
(* the lot they were written with.                                         *)
MayReassign(b, l, p) ==
    /\ b \in DOMAIN box /\ Active(b)
    /\ Unmerged(l) /\ l # box[b].lot
    /\ \A c \in BoxesOf(l) : BoxNumber[c] # BoxNumber[b]
    /\ \A f \in FilesIn(l), g \in FilesOf({b}) :
          FileReference[f] # FileReference[g]
    /\ p # None => p \in DOMAIN pallet /\ UsablePallet(p, l)

Reassign(b, l, p) ==
    LET from == box[b].lot IN
    /\ MayReassign(b, l, p)
    /\ box' = [box EXCEPT ![b] = [AssignedRow(b, p) EXCEPT
                                    !.lot = l, !.worked = TRUE]]
    /\ ArchiveEmptied({box[b].pallet})
    /\ file' = [f \in DOMAIN file |->
                  IF file[f].box = b THEN [file[f] EXCEPT !.lot = l]
                  ELSE file[f]]
    /\ lot' = [lot EXCEPT ![from].worked = TRUE]
    /\ UNCHANGED <<request, retired, cleanupVars>>

AddFile(f, b) ==
    /\ f \notin DOMAIN file \cup retired
    /\ b \in DOMAIN box /\ Active(b)
    /\ \A g \in DOMAIN file :
          file[g].lot = box[b].lot => FileReference[g] # FileReference[f]
    /\ file' = WithRow(file, f,
                        [box |-> b, lot |-> box[b].lot, active |-> TRUE])
    /\ UNCHANGED <<lot, pallet, box, request, retired, cleanupVars>>

(* Archiving and restoring a file; with force the open returns of its box  *)
(* are cancelled, without it they refuse the change.                       *)
SetFile(f, active) ==
    /\ f \in DOMAIN file
    /\ file[f].active # active /\ Active(file[f].box)
    /\ file' = [file EXCEPT ![f].active = active]
    /\ CancelReturns(file[f].box)
    /\ UNCHANGED <<lot, pallet, box, retired, cleanupVars>>

(* A file to another box of its lot; only the box it leaves is checked for *)
(* open returns.                                                           *)
MoveFile(f, b) ==
    /\ f \in DOMAIN file /\ file[f].active
    /\ b \in DOMAIN box /\ b # file[f].box /\ box[b].lot = file[f].lot
    /\ Active(b) /\ Active(file[f].box)
    /\ file' = [file EXCEPT ![f].box = b]
    /\ CancelReturns(file[f].box)
    /\ UNCHANGED <<lot, pallet, box, retired, cleanupVars>>

(* A lot without boxes; imports whose rows are all skipped leave one too.   *)
CreateLot(l) ==
    /\ l \notin DOMAIN lot /\ UsableLot(l)
    /\ lot' = WithLots({l})
    /\ UNCHANGED <<pallet, box, file, request, retired, cleanupVars>>

(* Items and their snapshots keep the name the lot had.                    *)
Rename(l, name) ==
    /\ Unmerged(l) /\ lot[l].name # name
    /\ \A k \in DOMAIN lot : Unmerged(k) => lot[k].name # name
    /\ lot' = [lot EXCEPT ![l].name = name]
    /\ UNCHANGED <<pallet, box, file, request, retired, cleanupVars>>

CreatePallet(p, l) ==
    /\ p \notin DOMAIN pallet /\ Unmerged(l) /\ UsablePallet(p, l)
    /\ pallet' = WithRow(pallet, p,
                          [lot |-> l, active |-> TRUE, absorbed |-> None])
    /\ UNCHANGED <<lot, box, file, request, retired, cleanupVars>>

(* Only a pallet no box names, archived or not, may change its state, and  *)
(* one that a merge absorbed never comes back.                             *)
SetPallet(p, active) ==
    /\ p \in DOMAIN pallet
    /\ pallet[p].active # active /\ Unmerged(pallet[p].lot)
    /\ active => pallet[p].absorbed = None
    /\ \A b \in DOMAIN box : box[b].pallet # p
    /\ pallet' = [pallet EXCEPT ![p].active = active]
    /\ UNCHANGED <<lot, box, file, request, retired, cleanupVars>>

(***************************************************************************)
(* Merging lot s into lot t.  Numbers both lots use are resolved when at   *)
(* most one of the two boxes is active: the active one survives, or the    *)
(* target's, and the other is deleted.                                     *)
(***************************************************************************)
(* Mutant: boxes are paired whatever their numbers.                        *)
BoxPairsAny(s, t) == BoxesOf(s) \X BoxesOf(t)

BoxPairs(s, t) ==
    {pair \in BoxesOf(s) \X BoxesOf(t) :
        BoxNumber[pair[1]] = BoxNumber[pair[2]]}

Hard(pair) == Active(pair[1]) /\ Active(pair[2])
Survivor(pair) == IF Active(pair[1]) THEN pair[1] ELSE pair[2]
(* Mutant: the target's box always stays.                                  *)
LoserIsSource(pair) == pair[1]

Loser(pair) == IF Active(pair[1]) THEN pair[2] ELSE pair[1]

(* The target pallet a source pallet of the same number is absorbed by.    *)
Combined(s, t) ==
    {pair \in PalletsOf(s) \X PalletsOf(t) :
        PalletLabel[pair[1]] = PalletLabel[pair[2]]}

(* Mutant: only references with an active file are looked at.              *)
FileClashesActive(s, t) ==
    {{f \in FilesIn(s) \cup FilesIn(t) : FileReference[f] = ref} :
        ref \in {FileReference[f] : f \in {g \in FilesIn(s) : file[g].active}}
                \cap {FileReference[f] : f \in FilesIn(t)}}

(* References both lots use: blocking when one of their files is active.   *)
FileClashes(s, t) ==
    {{f \in FilesIn(s) \cup FilesIn(t) : FileReference[f] = ref} :
        ref \in {FileReference[f] : f \in FilesIn(s)}
                \cap {FileReference[f] : f \in FilesIn(t)}}

KeptFile(clash, t, losers) ==
    LET kept(own) == {f \in clash : /\ file[f].box \notin losers
                                    /\ (file[f].lot = t) = own}
    IN  IF kept(TRUE) # {} THEN CHOOSE f \in kept(TRUE) : TRUE
        ELSE IF kept(FALSE) # {} THEN CHOOSE f \in kept(FALSE) : TRUE
        ELSE CHOOSE f \in clash : file[f].lot = t

(* Mutant: a target pallet of the same number may be archived.             *)
MergeAllowedOntoArchived(s, t, overwrite) ==
    LET pairs == BoxPairs(s, t)
        clashes == FileClashes(s, t)
    IN
    /\ \A clash \in clashes : \A f \in clash : ~file[f].active
    /\ \A pair \in pairs : ~Hard(pair)
    /\ overwrite \/ (pairs = {} /\ clashes = {})

MergeAllowed(s, t, overwrite) ==
    LET pairs == BoxPairs(s, t)
        clashes == FileClashes(s, t)
    IN
    /\ \A pair \in Combined(s, t) : pallet[pair[2]].active
    /\ \A clash \in clashes : \A f \in clash : ~file[f].active
    /\ \A pair \in pairs : ~Hard(pair)
    /\ overwrite \/ (pairs = {} /\ clashes = {})

(* Items of the source lot, items of deleted boxes and items on source     *)
(* pallets follow to the target lot, the survivor and its final pallet.    *)
FinalPallet(p, combined) ==
    IF \E pair \in combined : pair[1] = p
    THEN (CHOOSE pair \in combined : pair[1] = p)[2]
    ELSE p

(* Mutant: items follow to the target lot but keep naming a deleted box.   *)
RelinkedLotOnly(item, s, t, pairs, combined) ==
    [item EXCEPT !.lot = IF @ = s THEN t ELSE @,
                 !.pallet = FinalPallet(@, combined)]

Relinked(item, s, t, pairs, combined) ==
    LET moved == [item EXCEPT !.lot = IF @ = s THEN t ELSE @] IN
    IF \E pair \in pairs : Loser(pair) = item.box
    THEN LET pair == CHOOSE pair \in pairs : Loser(pair) = item.box IN
         [moved EXCEPT !.box = Survivor(pair),
                       !.pallet = FinalPallet(box[Survivor(pair)].pallet,
                                              combined)]
    ELSE [moved EXCEPT !.pallet = FinalPallet(@, combined)]

MergedBox(b, s, t, combined) ==
    IF box[b].lot = s
    THEN [box[b] EXCEPT !.lot = t,
                        !.pallet = FinalPallet(@, combined),
                        !.worked = TRUE]
    ELSE box[b]

(* Mutant: an absorbed pallet does not say where its boxes went.           *)
MergedPalletSilent(p, s, t, combined) ==
    IF pallet[p].lot # s THEN pallet[p]
    ELSE IF FinalPallet(p, combined) = p THEN [pallet[p] EXCEPT !.lot = t]
    ELSE [pallet[p] EXCEPT !.active = FALSE]

MergedPallet(p, s, t, combined) ==
    IF pallet[p].lot # s THEN pallet[p]
    ELSE IF FinalPallet(p, combined) = p THEN [pallet[p] EXCEPT !.lot = t]
    ELSE [pallet[p] EXCEPT !.active = FALSE,
                           !.absorbed = FinalPallet(p, combined)]

(* The archived box of a pair is deleted with its files; of the files that *)
(* share a reference one stays.                                            *)
LostFiles(s, t, losers) ==
    FilesOf(losers) \cup
    UNION {clash \ {KeptFile(clash, t, losers)} : clash \in FileClashes(s, t)}

MergedLots(s, t) ==
    [lot EXCEPT ![s].into = t, ![s].worked = TRUE, ![t].worked = TRUE]

MergedRequest(r, s, t, pairs, combined) ==
    [request[r] EXCEPT !.items =
       [i \in DOMAIN @ |-> Relinked(@[i], s, t, pairs, combined)]]

Merge(s, t, overwrite) ==
    LET pairs == BoxPairs(s, t)
        losers == {Loser(pair) : pair \in pairs}
        combined == Combined(s, t)
        lostFiles == LostFiles(s, t, losers)
    IN
    /\ Unmerged(s) /\ Unmerged(t) /\ s # t
    /\ MergeAllowed(s, t, overwrite)
    /\ lot' = MergedLots(s, t)
    /\ pallet' = [p \in DOMAIN pallet |-> MergedPallet(p, s, t, combined)]
    /\ box' = [b \in DOMAIN box \ losers |-> MergedBox(b, s, t, combined)]
    /\ file' = [f \in DOMAIN file \ lostFiles |->
                  IF file[f].lot = s THEN [file[f] EXCEPT !.lot = t]
                  ELSE file[f]]
    /\ request' = [r \in DOMAIN request |->
                     MergedRequest(r, s, t, pairs, combined)]
    /\ Retire(losers \cup lostFiles)
    /\ UNCHANGED cleanupVars

(***************************************************************************)
(* Purging lot l.  The ordinary purge is for a lot received by mistake:    *)
(* each condition below is one of its blockers.                            *)
(***************************************************************************)
Own(item, l) == item.lot = l \/ item.box \in BoxesOf(l)

Linked(l) ==
    {r \in DOMAIN request : \E i \in Items(r) :
        LET item == request[r].items[i] IN
        Own(item, l) \/ item.pallet \in PalletsOf(l)}

NoMergeHistory(l) ==
    /\ lot[l].into = None /\ ~lot[l].worked
    /\ \A k \in DOMAIN lot : lot[k].into # l

BoxesTraceable(l) ==
    /\ BoxesOf(l) # {}
    /\ \A b \in BoxesOf(l) : /\ ~Active(b) /\ ~box[b].worked
                             /\ Naming(b) # {}

(* A receipt completed at once has a single event, its completion.         *)
PlainReceipts(l) ==
    /\ Linked(l) # {}
    /\ \A r \in Linked(l) :
        /\ request[r].kind = "receipt" /\ request[r].status = "completed"
        /\ request[r].lineage = {}

(* Mutant: a request may have items of other lots.                         *)
NothingForeignButItems(l) ==
    \A r \in DOMAIN request : request[r].lineage \cap Linked(l) = {}

NothingForeign(l) ==
    /\ \A r \in Linked(l) : \A i \in Items(r) :
          LET item == request[r].items[i] IN
          item.lot = l /\ item.box \in BoxesOf(l)
    /\ \A r \in DOMAIN request : request[r].lineage \cap Linked(l) = {}

Eligible(l) ==
    /\ NoMergeHistory(l) /\ BoxesTraceable(l)
    /\ PlainReceipts(l) /\ NothingForeign(l)

(* Mutant: the barcodes of the pallets are forgotten.                      *)
BarcodesGoneButPallets(l, rs) ==
    {l} \cup BoxesOf(l) \cup FilesOf(BoxesOf(l)) \cup rs

(* The barcodes of the rows a purge removes.                               *)
BarcodesGone(l, rs) ==
    {l} \cup PalletsOf(l) \cup BoxesOf(l) \cup FilesOf(BoxesOf(l)) \cup rs

(* The lot, its pallets, boxes and files go; their barcodes are retired.   *)
DropLot(l, rs) ==
    /\ lot' = Restrict(lot, DOMAIN lot \ {l})
    /\ pallet' = Restrict(pallet, DOMAIN pallet \ PalletsOf(l))
    /\ box' = Restrict(box, DOMAIN box \ BoxesOf(l))
    /\ file' = Restrict(file, DOMAIN file \ FilesOf(BoxesOf(l)))
    /\ Retire(BarcodesGone(l, rs))

(* The keys the rows of some requests name.                                *)
KeysOf(rs) ==
    UNION {KeyOf[r] \cup UNION {PhotoOf[r][i] : i \in request[r].missing} :
             r \in rs}

MayPurge(l) == l \in DOMAIN lot /\ Eligible(l)

Purge(l, a) ==
    /\ MayPurge(l)
    /\ DropLot(l, Linked(l))
    /\ request' = Restrict(request, DOMAIN request \ Linked(l))
    /\ WriteLedger(a, KeysOf(Linked(l)))
    /\ referenced' = KeysOf(DOMAIN request)'
    /\ UNCHANGED <<stored, worker>>

(***************************************************************************)
(* The forced purge: only merges stand in its way.  Requests lose their    *)
(* items of the lot; one that has none left is deleted, and requests that  *)
(* descend from it forget it.                                              *)
(***************************************************************************)
LostItems(r, l) == {i \in Items(r) : Own(request[r].items[i], l)}

(* Mutant: a request that loses any item is deleted.                       *)
PartlyLost(l) ==
    {r \in DOMAIN request : LostItems(r, l) # {}}

FullyLost(l) ==
    {r \in DOMAIN request : Items(r) # {} /\ LostItems(r, l) = Items(r)}

(* Mutant: the boxes reported missing are counted as received.             *)
ActualAfterWithMissing(r, l) == Cardinality(Items(r) \ LostItems(r, l))

(* What a completed request received, recomputed for the items it keeps.   *)
ActualAfter(r, l) ==
    LET row == request[r] IN
    IF row.kind # "return" THEN Cardinality(Items(r) \ LostItems(r, l))
    ELSE LET got == row.actual - Cardinality(LostItems(r, l) \ row.missing)
         IN  IF got < 0 THEN 0 ELSE got

(* Mutant: the quantity may fall to zero.                                  *)
QuantityAfterUnclamped(r, l) ==
    request[r].quantity - Cardinality(LostItems(r, l))

QuantityAfter(r, l) ==
    LET q == request[r].quantity - Cardinality(LostItems(r, l)) IN
    IF q < 1 THEN 1 ELSE q

Rewritten(r, l) ==
    LET row == request[r]
        kept == Items(r) \ LostItems(r, l)
        done == row.status = "completed"
        actual == IF done THEN ActualAfter(r, l) ELSE row.actual
    IN
    [row EXCEPT
       !.items = [i \in kept |->
                    IF row.items[i].pallet \in PalletsOf(l)
                    THEN [row.items[i] EXCEPT !.pallet = None]
                    ELSE row.items[i]],
       !.missing = @ \cap kept,
       !.lineage = @ \ FullyLost(l),
       !.quantity = IF kept = Items(r) THEN @ ELSE QuantityAfter(r, l),
       !.actual = IF kept = Items(r) THEN @ ELSE actual,
       !.variance = IF done /\ kept # Items(r)
                    THEN actual - QuantityAfter(r, l)
                    ELSE @]

(* Mutant: the photos of the items a kept request loses are forgotten.     *)
WholeRequestKeys(l) == KeysOf(FullyLost(l))

FreedKeys(l) ==
    KeysOf(FullyLost(l)) \cup
    UNION {UNION {PhotoOf[r][i] : i \in LostItems(r, l) \cap request[r].missing} :
             r \in DOMAIN request}

(* The blockers no force overrides.                                        *)
Unmixed(l) == lot[l].into = None /\ \A k \in DOMAIN lot : lot[k].into # l

MayForcePurge(l) == l \in DOMAIN lot /\ Unmixed(l)

ForcePurge(l, a) ==
    /\ MayForcePurge(l)
    /\ DropLot(l, FullyLost(l))
    /\ request' = [r \in DOMAIN request \ FullyLost(l) |-> Rewritten(r, l)]
    /\ WriteLedger(a, FreedKeys(l))
    /\ referenced' = KeysOf(DOMAIN request)'
    /\ UNCHANGED <<stored, worker>>

(***************************************************************************)
(* Previews.  An administrator confirms a purge or a merge by repeating    *)
(* the signature of the preview; the operation computes it again under its *)
(* locks and refuses when it differs.  A signature lists rows, an impact   *)
(* what the operation does to them.                                        *)
(***************************************************************************)
RequestsSigned(rs) == Restrict(request, rs)

LotSigned(l) ==
    [lot |-> lot[l], sources |-> {k \in DOMAIN lot : lot[k].into = l},
     pallets |-> Restrict(pallet, PalletsOf(l)),
     boxes |-> Restrict(box, BoxesOf(l)),
     files |-> Restrict(file, FilesOf(BoxesOf(l)))]

PurgeSignature(l) ==
    [graph |-> LotSigned(l), requests |-> RequestsSigned(Linked(l)),
     eligible |-> Eligible(l)]

PurgeImpact(l) == [allowed |-> Eligible(l), requests |-> Linked(l),
                   boxes |-> BoxesOf(l), keys |-> KeysOf(Linked(l))]

(* The requests that outlive one they descend from.                        *)
Heirs(l) == {r \in DOMAIN request \ FullyLost(l) :
               request[r].lineage \cap FullyLost(l) # {}}

(* Mutant: requests that descend from a deleted one are not signed.        *)
ForceSignatureWithoutHeirs(l) ==
    [graph |-> LotSigned(l), requests |-> RequestsSigned(Linked(l))]

ForceSignature(l) ==
    [graph |-> LotSigned(l), requests |-> RequestsSigned(Linked(l)),
     heirs |-> [r \in Heirs(l) |-> request[r].lineage]]

ForceImpact(l) ==
    [requests |-> FullyLost(l), keys |-> FreedKeys(l),
     rewritten |-> [r \in Linked(l) \ FullyLost(l) |-> Rewritten(r, l)],
     detached |-> [r \in Heirs(l) |-> request[r].lineage \cap FullyLost(l)]]

AllItems ==
    UNION {{<<r, i, request[r].items[i]>> : i \in Items(r)} :
             r \in DOMAIN request}

(* Items of the two lots, or of their boxes.                               *)
ItemLinks(s, t) ==
    {link \in AllItems : \/ link[3].lot \in {s, t}
                         \/ link[3].box \in BoxesOf(s) \cup BoxesOf(t)}

(* Mutant: only the boxes that collide are signed, not the files in them.  *)
MergeSignatureWithoutFiles(s, t) ==
    [boxes |-> Restrict(box, BoxesOf(s) \cup BoxesOf(t)),
     pallets |-> Restrict(pallet, PalletsOf(s) \cup PalletsOf(t)),
     items |-> ItemLinks(s, t)]

MergeSignature(s, t) ==
    [boxes |-> Restrict(box, BoxesOf(s) \cup BoxesOf(t)),
     pallets |-> Restrict(pallet, PalletsOf(s) \cup PalletsOf(t)),
     files |-> Restrict(file, FilesIn(s) \cup FilesIn(t)),
     items |-> ItemLinks(s, t)]

(* Items a merge changes: those it moves or gives another box, and those   *)
(* that only follow their pallet.                                          *)
RelinkedItems(s, t) ==
    LET pairs == BoxPairs(s, t)
        combined == Combined(s, t)
    IN  {link \in AllItems :
           Relinked(link[3], s, t, pairs, combined) # link[3]}

(* What a merge that overwrites archived rows does to boxes, files, items. *)
MergeImpact(s, t) ==
    LET losers == {Loser(pair) : pair \in BoxPairs(s, t)}
    IN  [allowed |-> MergeAllowed(s, t, TRUE),
         removed |-> {<<Loser(pair), Survivor(pair)>> :
                        pair \in BoxPairs(s, t)},
         pallets |-> Combined(s, t),
         files |-> FilesOf(losers) \cup UNION FileClashes(s, t),
         moved |-> {link \in AllItems : link[3].lot = s},
         relinked |-> {link \in AllItems : link[3].box \in losers}]

(***************************************************************************)
(* Scanning a barcode: the label of a merged lot or of an absorbed pallet  *)
(* leads to the row that took its place.                                   *)
(***************************************************************************)
Final(x, next(_), bound) ==
    LET walk[n \in Nat] ==
            IF n = 0 THEN x
            ELSE LET y == walk[n - 1] IN IF next(y) = None THEN y ELSE next(y)
    IN  walk[bound]

ResolvedLot(l) == LET into(k) == lot[k].into IN
                  Final(l, into, Cardinality(DOMAIN lot))

ResolvedPallet(p) == LET absorbed(q) == pallet[q].absorbed IN
                     Final(p, absorbed, Cardinality(DOMAIN pallet))

ScannedLot(l) == IF lot[l].into = None THEN "active" ELSE "merged"

ScannedPallet(p) ==
    CASE pallet[p].absorbed # None -> "absorbed"
      [] pallet[p].absorbed = None /\ pallet[p].active -> "active"
      [] OTHER -> "archived"

ScannedBox(b) == IF box[b].state = "held" THEN "active" ELSE box[b].state

ScannedFile(f) == IF file[f].active THEN "active" ELSE "archived"

(* What the label of a row that is or was in a table says.                 *)
Scanned(x) ==
    CASE x \in retired -> "retired"
      [] x \in DOMAIN lot -> ScannedLot(x)
      [] x \in DOMAIN pallet -> ScannedPallet(x)
      [] x \in DOMAIN box -> ScannedBox(x)
      [] x \in DOMAIN file -> ScannedFile(x)
      [] OTHER -> "unknown"

(***************************************************************************)
(* The system                                                              *)
(***************************************************************************)
Groups == {bs \in SUBSET Boxes : bs # {} /\ Cardinality(bs) <= ReceiptSize}

Receipts ==
    \/ \E r \in Requests \ DOMAIN request :
        \/ \E bs \in Groups, kind \in {"receipt", "inbound"} \cap Kinds,
              quantity \in 1..ReceiptSize :
             \E into \in [bs -> Lots], onto \in [bs -> Pallets \cup {None}] :
                /\ kind = "receipt" => quantity = Cardinality(bs)
                /\ Receive(r, kind, bs, into, onto, quantity)
        \/ /\ "staged" \in Kinds
           /\ \E bs \in Groups :
                \E into \in [bs -> Lots], onto \in [bs -> Pallets \cup {None}] :
                   Stage(r, bs, into, onto)
    \/ \E r \in DOMAIN request : Finalize(r) \/ Cancel(r)

Returns ==
    \/ /\ "return" \in Kinds
       /\ \E r \in Requests \ DOMAIN request, source \in DOMAIN request :
             \E bs \in SUBSET DOMAIN box : Return(r, source, bs)
    \/ \E r \in DOMAIN request :
          \E missing \in SUBSET Items(r) : HandOver(r, missing)

Handling ==
    \/ \E b \in DOMAIN box :
        \/ DeleteBox(b)
        \/ \E p \in Pallets \cup {None} : AssignPallet(b, p)
        \/ \E l \in Lots, p \in Pallets \cup {None} : Reassign(b, l, p)
        \/ \E f \in Files : AddFile(f, b)
        \/ \E f \in DOMAIN file : MoveFile(f, b)
    \/ \E f \in DOMAIN file, active \in BOOLEAN : SetFile(f, active)
    \/ \E p \in Pallets, l \in DOMAIN lot : CreatePallet(p, l)
    \/ \E p \in DOMAIN pallet, active \in BOOLEAN : SetPallet(p, active)

Administration ==
    \/ "lot" \in Kinds /\ \E l \in Lots : CreateLot(l)
    \/ \E l \in DOMAIN lot, name \in NewNames : Rename(l, name)
    \/ \E s, t \in DOMAIN lot, overwrite \in BOOLEAN : Merge(s, t, overwrite)
    \/ \E l \in DOMAIN lot, a \in Ledgers : Purge(l, a) \/ ForcePurge(l, a)

Next ==
    \/ Receipts
    \/ Returns
    \/ Handling
    \/ Administration
    \/ CleanupStep /\ UNCHANGED tables

Spec == Init /\ [][Next]_vars

(***************************************************************************)
(* Properties                                                              *)
(***************************************************************************)
TypeOK ==
    /\ IsTable(lot, Lots, LotRow)
    /\ IsTable(pallet, Pallets, PalletRow)
    /\ IsTable(box, Boxes, BoxRow)
    /\ IsTable(file, Files, FileRow)
    /\ IsTable(request, Requests, RequestRow)
    /\ retired \subseteq Lots \cup Pallets \cup Boxes \cup Files \cup Requests
    /\ CleanupTypeOK

(* The tables stay closed under every operation, merges and purges with    *)
(* their relinking and deletions included: a box lies in an unmerged lot   *)
(* and on a pallet of that lot that no merge absorbed, a file in its box   *)
(* and in the box's lot, and an item names only rows that exist.           *)
GraphClosed ==
    /\ \A b \in DOMAIN box :
        /\ Unmerged(box[b].lot)
        /\ box[b].pallet # None =>
             /\ box[b].pallet \in PalletsOf(box[b].lot)
             /\ pallet[box[b].pallet].absorbed = None
    /\ \A f \in DOMAIN file : /\ file[f].box \in DOMAIN box
                              /\ file[f].lot = box[file[f].box].lot
    /\ \A r \in DOMAIN request :
        /\ request[r].lineage \subseteq DOMAIN request
        /\ \A i \in Items(r) :
            LET item == request[r].items[i] IN
            /\ item.lot # None => Unmerged(item.lot)
            /\ item.box # None => item.box \in DOMAIN box
            /\ item.pallet # None => item.pallet \in DOMAIN pallet

(* What a lot may hold once only, it holds once, after merges as well: a   *)
(* box number, a file reference, and unmerged lots their name.             *)
IdentitiesUnique ==
    /\ \A b, c \in DOMAIN box :
          box[b].lot = box[c].lot /\ BoxNumber[b] = BoxNumber[c] => b = c
    /\ \A f, g \in DOMAIN file :
          file[f].lot = file[g].lot /\ FileReference[f] = FileReference[g]
             => f = g
    /\ \A k, l \in DOMAIN lot :
          Unmerged(k) /\ Unmerged(l) /\ lot[k].name = lot[l].name => k = l

(* Every label on a shelf leads somewhere: following merges from a lot or  *)
(* a pallet ends at a row that is not merged or absorbed itself, and the   *)
(* pallet an absorbed one leads to lies in the lot that its own lot leads  *)
(* to (resolve_barcode, whose cycle and dangling checks never fire).       *)
LabelsLead ==
    /\ \A l \in DOMAIN lot : Unmerged(ResolvedLot(l))
    /\ \A p \in DOMAIN pallet :
        LET q == ResolvedPallet(p) IN
        /\ q \in DOMAIN pallet /\ pallet[q].absorbed = None
        /\ pallet[q].lot = ResolvedLot(pallet[p].lot)

(* An item keeps naming a box with the number it was written for, however  *)
(* often merges relinked it (the snapshot columns are immutable).          *)
ProvenanceKept ==
    \A r \in DOMAIN request : \A i \in Items(r) :
        LET item == request[r].items[i] IN
        item.box # None => BoxNumber[item.box] = BoxNumber[i]

(* An active box is on an active pallet or on none: pallets are archived   *)
(* only when their last box has left them, or is relinked by the merge.    *)
ActiveBoxOnActivePallet ==
    \A b \in DOMAIN box :
        box[b].pallet # None => pallet[box[b].pallet].active

(* The counts of a completed request agree with its items, after forced    *)
(* purges that took some of them as well.                                  *)
CountsAgree ==
    \A r \in DOMAIN request :
        request[r].status = "completed" =>
            /\ request[r].actual = Cardinality(Items(r) \ request[r].missing)
            /\ request[r].variance = request[r].actual - request[r].quantity

(* A barcode is never lost: a row that disappears leaves its barcode       *)
(* retired, a retired barcode belongs to no row, and a label that says     *)
(* retired, merged or absorbed is good for nothing else again.             *)
BarcodesRetired ==
    [][/\ Live \subseteq Live' \cup retired'
       /\ Live' \cap retired' = {}
       /\ \A x \in Live \cup retired :
            Scanned(x) \in {"retired", "merged", "absorbed"}
              => Scanned(x)' \in {Scanned(x), "retired"}]_vars

(* An active box disappears only with its lot, or when no request names it *)
(* any more: a merge keeps every active box ("the active box always        *)
(* survives", README.md).                                                  *)
ActiveBoxSurvives ==
    [][\A b \in DOMAIN box \ DOMAIN box' :
         Active(b) => box[b].lot \notin DOMAIN lot' \/ Naming(b) = {}]_vars

(* A purge is confined to its lot ("selected-Lot-only"): boxes, files and  *)
(* pallets of other lots keep their rows, a request with an item it keeps  *)
(* is never deleted, and no kept item changes but for a purged pallet.     *)
PurgeConfined ==
    [][\A l \in DOMAIN lot \ DOMAIN lot' :
        /\ \A b \in DOMAIN box : box[b].lot # l
              => b \in DOMAIN box' /\ box'[b] = box[b]
        /\ \A f \in DOMAIN file : file[f].lot # l
              => f \in DOMAIN file' /\ file'[f] = file[f]
        /\ \A r \in DOMAIN request :
            LET rest == {i \in Items(r) : ~Own(request[r].items[i], l)} IN
            rest # {} =>
                /\ r \in DOMAIN request'
                /\ DOMAIN request'[r].items = rest
                /\ \A i \in rest :
                     /\ request'[r].items[i].box = request[r].items[i].box
                     /\ request'[r].items[i].lot = request[r].items[i].lot]_vars

(* An ordinary purge takes no box out of the provenance of another: a      *)
(* request disappears without force only when all its boxes do.            *)
PlainPurgeKeepsProvenance ==
    [][\A l \in DOMAIN lot \ DOMAIN lot' :
         Eligible(l) => \A b \in DOMAIN box' : Naming(b)' = Naming(b)]_vars

(* What an administrator has confirmed is what happens: as long as the     *)
(* signature of a purge's preview is the same, so are the requests it      *)
(* deletes, rewrites and detaches and the objects it gives up, whatever    *)
(* others commit in between.                                               *)
ConfirmedPurge ==
    [][\A l \in DOMAIN lot \cap DOMAIN lot' :
         /\ PurgeSignature(l)' = PurgeSignature(l)
              => PurgeImpact(l)' = PurgeImpact(l)
         /\ ForceSignature(l)' = ForceSignature(l)
              => ForceImpact(l)' = ForceImpact(l)]_vars

(* The same of a merge that overwrites archived boxes and files: none is   *)
(* deleted, and no item moved or given another box, that the preview did   *)
(* not sign.                                                               *)
ConfirmedMerge ==
    [][\A s, t \in DOMAIN lot \cap DOMAIN lot' :
         s # t /\ Unmerged(s) /\ Unmerged(t)
           /\ MergeSignature(s, t)' = MergeSignature(s, t)
              => MergeImpact(s, t)' = MergeImpact(s, t)]_vars

(* What README.md says of the signature, that it records the affected IDs: *)
(* of a merge that asks for one, every item it changes is signed.          *)
RelinkedAreSigned ==
    \A s, t \in DOMAIN lot :
        s # t /\ Unmerged(s) /\ Unmerged(t)
          /\ MergeAllowed(s, t, TRUE) /\ BoxPairs(s, t) # {}
             => RelinkedItems(s, t) \subseteq MergeSignature(s, t).items

(* A purge puts the keys of exactly the rows it deletes into its ledger,   *)
(* photos of single missing items included, and gives up none a kept row   *)
(* names: what lots do to the object store is what PurgeCleanup allows.    *)
CleanupRefinement == CleanupSpec
=============================================================================
