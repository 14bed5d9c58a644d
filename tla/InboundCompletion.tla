------------------------- MODULE InboundCompletion -------------------------
(***************************************************************************)
(* The completion of one inbound request (services/requests.py).  The      *)
(* requester lists what was delivered, looks at a preview of what that     *)
(* does to the inventory, and confirms; the completion classifies the same *)
(* list again under locks and refuses when the signature of its impact is  *)
(* not the one that was reviewed.                                          *)
(*                                                                         *)
(* A completion locks the request, its warehouse and the lots of the list, *)
(* reads the boxes and pallets, then locks them row by row and goes on     *)
(* with the copies it has read (the locking select does not refresh rows   *)
(* the session holds).  Operations that do not lock the lot can commit in  *)
(* between: BeginCompletion and FinishCompletion are two steps.            *)
(*                                                                         *)
(* The list is of one lot.  Pallets are named by their number; boxes by    *)
(* theirs, in the order in which a completion works through them.          *)
(***************************************************************************)
EXTENDS Naturals, FiniteSetsExt, Functions

CONSTANTS
    Boxes,         \* box numbers of the lot
    Pallets,       \* pallet numbers of the lot
    Files,         \* file references of the lot
    IdempotencyKeys,
    Deliveries,    \* bound: the lists that are tried
    MaxEdits,      \* bound: changes made by others
    OverlappingEdits,  \* whether others commit while a completion runs
    None

Line == [box : Boxes, pallet : Pallets \cup {None}, files : SUBSET Files]

ASSUME CompletionAssumption ==
    /\ Boxes \subseteq Nat
    /\ Deliveries \subseteq (SUBSET Line) \ {{}}
    /\ \A lines \in Deliveries : IsFiniteSet(lines)
    /\ MaxEdits \in Nat
    /\ OverlappingEdits \in BOOLEAN

VARIABLES
    box,       \* Box rows of the lot
    pallet,    \* Pallet rows: is_active
    file,      \* BoxFile rows
    reserved,  \* boxes reserved by active returns
    request,   \* the request: status, version, key of its completion
    review,    \* the preview the requester looks at, or None
    txn,       \* the completion that runs, or None
    answer,    \* the answer on the requester's screen and its key, or None
    edits      \* changes made by others so far

stock == <<box, pallet, file, reserved>>
completionVars == <<stock, request, review, txn, answer, edits>>

(* A box is here, in the warehouse of the request, or in another one;      *)
(* "later" stands for every status after received.                         *)
BoxRow == [where : {"here", "there"}, status : {"received", "later"},
           archived : BOOLEAN, pallet : Pallets \cup {None}]
FileRow == [box : Boxes, active : BOOLEAN]
Answer == [key : IdempotencyKeys,
           result : {"completed", "conflict", "changed", "blocked",
                     "unaccepted", "failed"}]
IsTable(t, S, T) == DOMAIN t \subseteq S /\ \A i \in DOMAIN t : t[i] \in T

(* The rows of t, and the row r for those of S that t lacks.               *)
With(t, S, r) ==
    [i \in DOMAIN t \cup S |-> IF i \in DOMAIN t THEN t[i] ELSE r]

(* The rows of t, in the version of the copies where there is one.         *)
AsCopied(copies, t) ==
    [i \in DOMAIN copies \cup DOMAIN t |->
        IF i \in DOMAIN copies THEN copies[i] ELSE t[i]]

CompletionTypeOK ==
    /\ IsTable(box, Boxes, BoxRow)
    /\ IsTable(pallet, Pallets, BOOLEAN)
    /\ IsTable(file, Files, FileRow)
    /\ reserved \subseteq
         {b \in DOMAIN box : box[b].status = "later" /\ ~box[b].archived}
    /\ request \in [status : {"awaiting", "completed"}, version : Nat \ {0},
                    key : IdempotencyKeys \cup {None}]
    /\ answer \in Answer \cup {None}
    /\ edits \in 0..MaxEdits

Occupants(boxes, p) == {b \in DOMAIN boxes : boxes[b].pallet = p}

(* Stock before the delivery: boxes on active pallets, files in boxes.      *)
Stocked(boxes, pallets, files) ==
    /\ \A b \in DOMAIN boxes :
        boxes[b].pallet = None \/ boxes[b].pallet \in DOMAIN pallets
    /\ \A p \in DOMAIN pallets : pallets[p] \/ Occupants(boxes, p) = {}
    /\ \A f \in DOMAIN files : files[f].box \in DOMAIN boxes

Tables(S, T) == UNION {[D -> T] : D \in SUBSET S}
StoredRow ==
    [where : {"here", "there"}, status : {"received", "later"}, archived : {FALSE},
     pallet : Pallets \cup {None}]

CompletionInit ==
    /\ box \in Tables(Boxes, StoredRow)
    /\ pallet \in Tables(Pallets, BOOLEAN)
    /\ file \in Tables(Files, [box : Boxes, active : {TRUE}])
    /\ Stocked(box, pallet, file)
    /\ reserved \in SUBSET {b \in DOMAIN box : box[b].status = "later"}
    /\ request = [status |-> "awaiting", version |-> 1, key |-> None]
    /\ review = None /\ txn = None /\ answer = None /\ edits = 0

(***************************************************************************)
(* The list.  Lines of one box are merged; they must agree on its pallet,  *)
(* and a file belongs to one box.                                          *)
(***************************************************************************)
Conflicting(lines) ==
    \E x, y \in lines :
        \/ x.box = y.box /\ x.pallet # y.pallet
        \/ x.box # y.box /\ x.files \cap y.files # {}

Rows(lines) == {x.box : x \in lines}
NamedPallet(lines, b) == (CHOOSE x \in lines : x.box = b).pallet
NamedFiles(lines, b) == UNION {x.files : x \in {y \in lines : y.box = b}}

(***************************************************************************)
(* The impact of a list on a stock s = [box, pallet, file, reserved].      *)
(***************************************************************************)
Stock(boxes, pallets) ==
    [box |-> boxes, pallet |-> pallets, file |-> file, reserved |-> reserved]

(* The pallet the row will stand on: the one it has when none is named.    *)
Resolution(s, lines, b) ==
    LET named == NamedPallet(lines, b)
        current == IF b \in DOMAIN s.box THEN s.box[b].pallet ELSE None
    IN  CASE named = None /\ current = None -> "unassigned"
          [] named = None /\ current # None ->
               IF s.pallet[current] THEN "preserve_existing" ELSE "blocked"
          [] named # None /\ named \notin DOMAIN s.pallet -> "will_create"
          [] OTHER -> IF s.pallet[named] THEN "existing" ELSE "blocked"

(* What becomes of file f in row b.                                        *)
FileAction(s, f, b) ==
    IF f \notin DOMAIN s.file THEN "create"
    ELSE LET source == s.file[f].box
         IN  CASE ~s.file[f].active -> "blocked"
               [] s.file[f].active /\ source = b -> "preserve"
               [] OTHER ->
                    IF s.box[source].archived \/ source \in s.reserved
                    THEN "blocked" ELSE "move"

(* What becomes of the box of a row, its pallet and files left aside.      *)
BoxAction(s, b) ==
    IF b \notin DOMAIN s.box THEN "create"
    ELSE IF \/ s.box[b].archived
            \/ s.box[b].where = "here"
            \/ s.box[b].status # "received"
            \/ b \in s.reserved
         THEN "blocked" ELSE "relocate"

FileImpact(s, f, b) ==
    [action |-> FileAction(s, f, b),
     source |-> IF f \in DOMAIN s.file THEN s.file[f].box ELSE None,
     where |-> IF f \in DOMAIN s.file THEN s.box[s.file[f].box].where
               ELSE None]

HeldFiles(s, b) == {f \in DOMAIN s.file : s.file[f] = [box |-> b, active |-> TRUE]}

(* All the preview shows and signs of one row.                             *)
RowImpact(s, lines, b) ==
    [action |-> BoxAction(s, b),
     existing |-> IF b \in DOMAIN s.box THEN s.box[b] ELSE None,
     reserved |-> b \in s.reserved,
     named |-> NamedPallet(lines, b),
     pallet |-> Resolution(s, lines, b),
     files |-> [f \in NamedFiles(lines, b) \cup HeldFiles(s, b) |->
                  FileImpact(s, f, b)]]

Impact(s, lines) ==
    [version |-> request.version,
     rows |-> [b \in Rows(lines) |-> RowImpact(s, lines, b)]]

RowBlocked(row) ==
    \/ row.action = "blocked" \/ row.pallet = "blocked"
    \/ \E f \in DOMAIN row.files : row.files[f].action = "blocked"
CanComplete(impact) ==
    \A b \in DOMAIN impact.rows : ~RowBlocked(impact.rows[b])
Relocates(impact) ==
    \E b \in DOMAIN impact.rows : impact.rows[b].action = "relocate"
MovesFiles(impact) ==
    \E b \in DOMAIN impact.rows :
        LET files == impact.rows[b].files
        IN  \E f \in DOMAIN files : files[f].action = "move"

-----------------------------------------------------------------------------
(* The requester.                                                          *)

(* preview_inbound_completion.                                             *)
Preview(lines) ==
    /\ review = None /\ ~Conflicting(lines)
    /\ request.status = "awaiting"
    /\ review' = [lines |-> lines, impact |-> Impact(Stock(box, pallet), lines)]
    /\ answer' = None
    /\ UNCHANGED <<stock, request, txn, edits>>

CloseReview ==
    /\ review # None
    /\ review' = None
    /\ UNCHANGED <<stock, request, txn, answer, edits>>

Answered(k, result) == answer' = [key |-> k, result |-> result]

(* Wrong variants of a definition, such as the next one, stand before it;  *)
(* the runs show that each breaks a property below.                        *)
ReplyAnyKey(k) ==                          \* the key is not compared
    IF request.status = "completed" THEN "completed" ELSE "conflict"

(* A completed request answers the key that completed it as before, and    *)
(* refuses every other call.                                               *)
Reply(k) ==
    IF request.status = "completed" /\ request.key = k
    THEN "completed" ELSE "conflict"

(* A call that finds the request completed, or quotes an older version.    *)
AnswerAtOnce(k, version) ==
    /\ txn = None
    /\ request.status = "completed" \/ version # request.version
    /\ Answered(k, Reply(k))
    /\ UNCHANGED <<stock, request, review, txn, edits>>

(* A call: the list, the impact that was reviewed or None, whether         *)
(* relocations and file moves were accepted, and the key of the attempt.   *)
(* It takes the locks and reads the boxes and pallets it is about.         *)
BeginCompletion(lines, signed, acceptBoxes, acceptFiles, k) ==
    /\ txn = None
    /\ request.status = "awaiting"
    /\ ~Conflicting(lines)
    /\ txn' = [lines |-> lines, signed |-> signed, key |-> k,
               acceptBoxes |-> acceptBoxes, acceptFiles |-> acceptFiles,
               box |-> Restrict(box, Rows(lines) \cap DOMAIN box),
               pallet |-> pallet]
    /\ answer' = None
    /\ UNCHANGED <<stock, request, review, edits>>

-----------------------------------------------------------------------------
(* The rest of a completion.                                               *)

(* What it goes on with: its copies of the boxes of the list and of the    *)
(* pallets; the files, the boxes they come from and the reservations are   *)
(* read after the row locks.                                               *)
SeenEarly ==            \* reservations read with the boxes, before the locks
    [Stock(AsCopied(txn.box, box), txn.pallet) EXCEPT !.reserved =
        {b \in @ : b \in DOMAIN txn.box => txn.box[b].status = "later"}]
Seen == Stock(AsCopied(txn.box, box), txn.pallet)

AcceptsUnsigned(impact) ==                \* the signature is not asked for
    /\ Relocates(impact) => txn.acceptBoxes
    /\ MovesFiles(impact) => txn.acceptFiles
AcceptsImpact(impact) ==
    /\ Relocates(impact) => txn.acceptBoxes /\ txn.signed # None
    /\ MovesFiles(impact) => txn.acceptFiles /\ txn.signed # None

(* One row, on w = [box, pallet, file, ok]: what the database holds of     *)
(* boxes and files, what the session holds of pallets.                     *)
StandsOn(b, named) ==
    IF named = None /\ b \in DOMAIN txn.box THEN txn.box[b].pallet ELSE named

PlacedBox(w, b, named) ==
    IF b \notin DOMAIN txn.box
    THEN With(w.box, {b}, [where |-> "here", status |-> "received",
                           archived |-> FALSE, pallet |-> named])
    ELSE [w.box EXCEPT ![b].where = "here",
                       ![b].pallet = IF StandsOn(b, named) = txn.box[b].pallet
                                     THEN @ ELSE named]

(* The pallet a relocated box leaves is archived when no box is on it.     *)
Emptied(b, named, boxes) ==
    IF b \in DOMAIN txn.box /\ StandsOn(b, named) # txn.box[b].pallet
       /\ Occupants(boxes, txn.box[b].pallet) = {}
    THEN {txn.box[b].pallet} \ {None} ELSE {}

PlacedFiles(w, b) ==
    AsCopied([f \in NamedFiles(txn.lines, b) |-> [box |-> b, active |-> TRUE]],
             w.file)

PlaceRow(w, b) ==
    LET named == NamedPallet(txn.lines, b)
        usable == named \in DOMAIN w.pallet => w.pallet[named]
        boxes == PlacedBox(w, b, named)
        pallets == With(w.pallet, {named} \ {None}, TRUE)
    IN  [box |-> boxes, file |-> PlacedFiles(w, b),
         pallet |-> [p \in DOMAIN pallets |->
                       pallets[p] /\ p \notin Emptied(b, named, boxes)],
         ok |-> w.ok /\ usable]

Unplaced == [box |-> box, pallet |-> txn.pallet, file |-> file, ok |-> TRUE]

(* In ascending order: the box with the greatest number comes last.        *)
Placed ==
    LET place(b, w) == PlaceRow(w, b)
        self(b) == b
    IN  MapThenFoldSet(place, Unplaced, self, Max, Rows(txn.lines))

(* A pallet row is written only where the completion archived it, and only *)
(* over the version it has read.                                           *)
WrittenPallets(w) ==
    [p \in DOMAIN w.pallet |->
        IF p \in DOMAIN txn.pallet /\ w.pallet[p] = txn.pallet[p]
        THEN pallet[p] ELSE w.pallet[p]]
PalletsCurrent(w) ==
    \A p \in DOMAIN txn.pallet :
        w.pallet[p] # txn.pallet[p] => pallet[p] = txn.pallet[p]

(* The first reason to refuse, or "completed".                             *)
Outcome(impact) ==
    CASE txn.signed # None /\ txn.signed # impact -> "changed"
      [] (txn.signed = None \/ txn.signed = impact) /\ ~CanComplete(impact)
           -> "blocked"
      [] (txn.signed = None \/ txn.signed = impact) /\ CanComplete(impact)
         /\ ~AcceptsImpact(impact) -> "unaccepted"
      [] OTHER -> IF Placed.ok /\ PalletsCurrent(Placed)
                  THEN "completed" ELSE "failed"

(* Every refusal rolls everything back.                                    *)
FinishCompletion ==
    /\ txn # None
    /\ LET outcome == Outcome(Impact(Seen, txn.lines))
       IN  /\ Answered(txn.key, outcome)
           /\ IF outcome = "completed"
              THEN /\ box' = Placed.box /\ file' = Placed.file
                   /\ pallet' = WrittenPallets(Placed)
                   /\ request' = [status |-> "completed", key |-> txn.key,
                                  version |-> request.version + 1]
              ELSE UNCHANGED <<box, file, pallet, request>>
    /\ txn' = None
    /\ UNCHANGED <<reserved, review, edits>>

-----------------------------------------------------------------------------
(* The others.  Edits of a box and pallet operations do not lock the lot.  *)

Edit ==
    /\ edits < MaxEdits
    /\ edits' = edits + 1
    /\ UNCHANGED <<request, review, txn, answer>>

Unlocked == txn = None \/ OverlappingEdits
Free(b) == b \in DOMAIN box /\ ~box[b].archived /\ b \notin reserved

(* update_box: status, warehouse or pallet of a box without a reservation. *)
UpdateBox(b) ==
    /\ Edit /\ Unlocked /\ Free(b)
    /\ \/ /\ box[b].status = "received"
          /\ box' = [box EXCEPT ![b].status = "later"]
          /\ UNCHANGED pallet
       \/ /\ box' = [box EXCEPT ![b].where =
                       IF @ = "here" THEN "there" ELSE "here"]
          /\ UNCHANGED pallet
       \/ \E p \in Pallets \cup {None} :
            /\ p # None => p \in DOMAIN pallet /\ pallet[p]
            /\ p # box[b].pallet
            /\ box' = [box EXCEPT ![b].pallet = p]
            /\ pallet' = [q \in DOMAIN pallet |->
                            pallet[q] /\ (q = box[b].pallet
                                            => Occupants(box', q) # {})]
    /\ UNCHANGED <<file, reserved>>

(* A forced deletion archives a linked box, which cancels its returns.     *)
ArchiveBox(b) ==
    /\ Edit /\ Unlocked
    /\ b \in DOMAIN box /\ ~box[b].archived
    /\ box' = [box EXCEPT ![b].archived = TRUE]
    /\ reserved' = reserved \ {b}
    /\ UNCHANGED <<pallet, file>>

(* A return locks the boxes it reserves; it ends cancelled or collected.   *)
Reserve(b) ==
    /\ Edit /\ Unlocked /\ Free(b) /\ box[b].status = "later"
    /\ reserved' = reserved \cup {b}
    /\ UNCHANGED <<box, pallet, file>>

CancelReturn(b) ==
    /\ Edit /\ Unlocked /\ b \in reserved
    /\ reserved' = reserved \ {b}
    /\ UNCHANGED <<box, pallet, file>>

(* archive_pallet and restore_pallet.                                      *)
SetPallet(p) ==
    /\ Edit /\ Unlocked
    /\ p \in DOMAIN pallet /\ Occupants(box, p) = {}
    /\ pallet' = [pallet EXCEPT ![p] = ~@]
    /\ UNCHANGED <<box, file, reserved>>

(* File operations and receipts lock the lot.                              *)
ChangeFile(f, b) ==
    /\ Edit /\ txn = None /\ b \in DOMAIN box /\ ~box[b].archived
    /\ \/ f \in DOMAIN file /\ file' = [file EXCEPT ![f].box = b]
       \/ f \notin DOMAIN file
          /\ file' = With(file, {f}, [box |-> b, active |-> TRUE])
       \/ f \in DOMAIN file /\ file[f].box = b
          /\ file' = [file EXCEPT ![f].active = ~@]
    /\ UNCHANGED <<box, pallet, reserved>>

Receipt(b, where) ==
    /\ Edit /\ txn = None /\ b \notin DOMAIN box
    /\ box' = With(box, {b}, [where |-> where, status |-> "received",
                              archived |-> FALSE, pallet |-> None])
    /\ UNCHANGED <<pallet, file, reserved>>

(* A hold and its end, a document: the request gets a new version.         *)
TouchRequest ==
    /\ edits < MaxEdits /\ edits' = edits + 1
    /\ txn = None /\ request.status = "awaiting"
    /\ request' = [request EXCEPT !.version = @ + 1]
    /\ UNCHANGED <<stock, review, txn, answer>>

Others ==
    \/ \E b \in Boxes :
        \/ UpdateBox(b) \/ ArchiveBox(b) \/ Reserve(b) \/ CancelReturn(b)
        \/ \E where \in {"here", "there"} : Receipt(b, where)
        \/ \E f \in Files : ChangeFile(f, b)
    \/ \E p \in Pallets : SetPallet(p)
    \/ TouchRequest

(* A client confirms what it has reviewed, where acceptances are asked for *)
(* only what the review shows, or calls without a review.                  *)
Confirm(k) ==
    \/ /\ review # None /\ CanComplete(review.impact)
       /\ \E acceptBoxes, acceptFiles \in BOOLEAN :
            /\ acceptBoxes => Relocates(review.impact)
            /\ acceptFiles => MovesFiles(review.impact)
            /\ BeginCompletion(review.lines, review.impact,
                               acceptBoxes, acceptFiles, k)
    \/ \E lines \in Deliveries : BeginCompletion(lines, None, TRUE, TRUE, k)

CompletionNext ==
    \/ \E lines \in Deliveries : Preview(lines)
    \/ CloseReview
    \/ \E k \in IdempotencyKeys :
        \/ Confirm(k)
        \/ \E version \in 1..request.version : AnswerAtOnce(k, version)
    \/ FinishCompletion
    \/ Others

CompletionSpec == CompletionInit /\ [][CompletionNext]_completionVars

-----------------------------------------------------------------------------
(* What a completion promises.                                             *)

Completes == txn # None /\ request'.status # request.status
Relocated == {b \in DOMAIN box : box'[b].where # box[b].where}
MovedFiles == {f \in DOMAIN file : file'[f].box # file[f].box}

(* A completion does what its caller has reviewed and nothing else: it     *)
(* creates the boxes and pallets and moves the files that the preview      *)
(* showed, from where it showed them, relocates no other box, and without  *)
(* a review it only creates ("Completion rechecks the signed impact").     *)
AsReviewed ==
    LET rows == txn.signed.rows
        created == DOMAIN box' \ DOMAIN box
        Shown(action) == {b \in DOMAIN rows : rows[b].action = action}
    IN  IF txn.signed = None THEN Relocated = {} /\ MovedFiles = {}
        ELSE /\ created = Shown("create")
             /\ Relocated \subseteq Shown("relocate")
             /\ DOMAIN pallet' \ DOMAIN pallet
                  = {rows[b].named : b \in {c \in DOMAIN rows :
                                              rows[c].pallet = "will_create"}}
             /\ \A f \in DOMAIN file :
                  /\ f \in MovedFiles
                       => \E b \in DOMAIN rows :
                            /\ f \in DOMAIN rows[b].files
                            /\ rows[b].files[f].action = "move"
                            /\ rows[b].files[f].source = file[f].box
                            /\ file'[f].box = b
CompletesAsReviewed == [][Completes => AsReviewed]_completionVars

(* Whatever overlaps, a completion takes no box, and no file out of a box, *)
(* that an active return has reserved: reservations are read after the     *)
(* rows are locked.                                                        *)
ReservedUntouched ==
    [][Completes =>
         /\ Relocated \cap reserved = {}
         /\ \A f \in MovedFiles : file[f].box \notin reserved]_completionVars

(* A repeated call is told the truth: success goes to the key that         *)
(* completed the request and to no other, and once it has completed, that  *)
(* key is never refused, whatever version the call quotes.                 *)
RepeatsAnswered ==
    IF request.status = "completed"
    THEN answer.result = "completed" <=> answer.key = request.key
    ELSE answer # None => answer.result # "completed"

(* A reviewed list that can complete, and whose impact is still the one    *)
(* reviewed, is not refused after all.                                     *)
NoLateRefusal == answer # None => answer.result # "failed"
=============================================================================
