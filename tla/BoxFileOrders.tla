--------------------------- MODULE BoxFileOrders ---------------------------
(***************************************************************************)
(* The order of the files in a box, and how it is written to the database. *)
(*                                                                         *)
(* (box, position) is unique in the table and the constraint is checked    *)
(* row by row: a flush of the session writes its changed rows in the order *)
(* of their ids (new rows last), and fails as soon as one of them takes a  *)
(* place another row still holds.  _persist_orders therefore moves every   *)
(* row it is about to change out of the way first, in a flush of its own.  *)
(* Operations lock the boxes and the lot, so they run one at a time.       *)
(***************************************************************************)
EXTENDS Integers, FiniteSetsExt, Sequences

CONSTANTS
    Boxes,        \* the boxes of a lot
    Files,        \* identities of files, in the order they are assigned
    Relocations,  \* may intake move files into a box that holds files
    MaxIntake     \* bound: new files of one intake row

ASSUME FilesAssumption == Files \subseteq Nat \ {0}
ASSUME RelocationsAssumption == Relocations \in BOOLEAN

VARIABLES
    table,   \* the rows of box_files
    used,    \* the last identity assigned
    result   \* how the last operation ended

vars == <<table, used, result>>

Row == [box : Boxes, position : Nat \ {0}, archived : BOOLEAN]

Init == table = << >> /\ used = 0 /\ result = "done"

FilesIn(s, b) == {f \in DOMAIN s : s[f].box = b}
ActiveIn(s, b) == {f \in FilesIn(s, b) : ~s[f].archived}
LastPosition(b) == Max({table[f].position : f \in FilesIn(table, b)} \cup {0})

(* The rows s with new ones.                                               *)
With(s, fs, row(_)) ==
    [f \in DOMAIN s \cup fs |-> IF f \in fs THEN row(f) ELSE s[f]]

(***************************************************************************)
(* A flush that takes the table from s to t, one row after the other.      *)
(***************************************************************************)
Place(s, f) == <<s[f].box, s[f].position>>

Collides(s, t) ==
    \E f, g \in DOMAIN t :
        /\ f # g
        /\ f \in DOMAIN s => Place(s, f) # Place(t, f)
        /\ IF g < f THEN Place(t, g) = Place(t, f)
           ELSE g \in DOMAIN s /\ Place(s, g) = Place(t, f)

(* The transaction writes the states of the session in order, or none.     *)
Write(flushes) ==
    LET states == <<table>> \o flushes IN
    IF \E i \in 1..Len(flushes) : Collides(states[i], states[i + 1])
    THEN result' = "collision" /\ UNCHANGED table
    ELSE result' = "done" /\ table' = flushes[Len(flushes)]

(***************************************************************************)
(* Orders.  home tells the box each file is to be in: an order numbers the *)
(* files of every box from 1, the active ones first, and keeps the order   *)
(* of all files but those that are put somewhere else.                     *)
(***************************************************************************)
(* Mutant: archived files keep their place among the active ones.          *)
PrecedesByPosition(s, free, f, g) ==
    {f, g} \cap free = {} /\ s[f].position < s[g].position

Precedes(s, free, f, g) ==
    \/ ~s[f].archived /\ s[g].archived
    \/ /\ s[f].archived = s[g].archived
       /\ {f, g} \cap free = {}
       /\ s[f].position < s[g].position

Orders(s, home, free) ==
    {pos \in [DOMAIN home -> 1..Cardinality(DOMAIN home)] :
        \A f, g \in DOMAIN home :
            /\ pos[f] <= Cardinality({h \in DOMAIN home : home[h] = home[f]})
            /\ f # g /\ home[f] = home[g] =>
                  /\ pos[f] # pos[g]
                  /\ Precedes(s, free, f, g) => pos[f] < pos[g]}

(* Mutant: the rows take their places at once.                             *)
PersistAtOnce(s, home, pos) ==
    <<[f \in DOMAIN s |->
         IF f \in DOMAIN pos
         THEN [s[f] EXCEPT !.box = home[f], !.position = pos[f]]
         ELSE s[f]]>>

(* The offsets of the temporary places need only differ.                   *)
Persist(s, home, pos) ==
    LET fs == DOMAIN pos
        changed == {f \in fs : s[f].box # home[f] \/ s[f].position # pos[f]}
        ceiling == Max({s[f].position : f \in fs}) + Cardinality(fs) + 1000
        apart == [f \in DOMAIN s |->
                    IF f \in changed
                    THEN [s[f] EXCEPT !.position = ceiling + f]
                    ELSE s[f]]
        placed == [f \in DOMAIN s |->
                     IF f \in fs
                     THEN [s[f] EXCEPT !.box = home[f], !.position = pos[f]]
                     ELSE s[f]]
    IN  IF changed = {} THEN <<s>> ELSE <<apart, placed>>

(* The files in some boxes stay where they are.                            *)
Home(s, bs) == [f \in {g \in DOMAIN s : s[g].box \in bs} |-> s[f].box]

AtMost(m, n) == IF m < n THEN m ELSE n

(***************************************************************************)
(* The operations of the file API                                          *)
(***************************************************************************)
Create(b, p) ==
    LET f == used + 1
        row(g) == [box |-> b, position |-> LastPosition(b) + 1,
                   archived |-> FALSE]
        s == With(table, {f}, row)
        home == Home(s, {b})
    IN
    /\ f \in Files
    /\ \E pos \in Orders(s, home, {f}) :
        /\ pos[f] = AtMost(p, Cardinality(ActiveIn(s, b)))
        /\ Write(<<s>> \o Persist(s, home, pos))
    /\ used' = f

(* To another place, in another box of the lot or in its own.              *)
Move(f, b, p) ==
    LET from == table[f].box
        home == [Home(table, {from, b}) EXCEPT ![f] = b]
        count == Cardinality(ActiveIn(table, b) \cup {f})
    IN
    /\ ~table[f].archived
    /\ \E pos \in Orders(table, home, {f}) :
        /\ pos[f] = AtMost(p, count)
        /\ Write(Persist(table, home, pos))
    /\ UNCHANGED used

Archive(f) ==
    LET b == table[f].box
        s == [table EXCEPT ![f].archived = TRUE]
    IN
    /\ ~table[f].archived
    /\ \E pos \in Orders(s, Home(s, {b}), {}) :
          Write(Persist(s, Home(s, {b}), pos))
    /\ UNCHANGED used

Restore(f, p) ==
    LET b == table[f].box
        s == [table EXCEPT ![f].archived = FALSE]
    IN
    /\ table[f].archived
    /\ \E pos \in Orders(s, Home(s, {b}), {f}) :
        /\ pos[f] = AtMost(p, Cardinality(ActiveIn(s, b)))
        /\ Write(Persist(s, Home(s, {b}), pos))
    /\ UNCHANGED used

(***************************************************************************)
(* Intake: n new files for box b, and files of the lot that are found in   *)
(* other boxes move to it, after its own.  The session has changed the box *)
(* of the moved files before their order is written.                       *)
(***************************************************************************)
IntakePosition(b, k) == LastPosition(b) + (k * (k + 1)) \div 2

(* A box just created holds no files; only a relocated one may.            *)
MayTake(b, moved) ==
    /\ \A f \in moved : ~table[f].archived /\ table[f].box # b
    /\ moved # {} /\ ~Relocations => FilesIn(table, b) = {}

Intake(b, n, moved) ==
    LET new == (used + 1)..(used + n)
        row(f) == [box |-> b, position |-> IntakePosition(b, f - used),
                   archived |-> FALSE]
        s == With([f \in DOMAIN table |->
                     IF f \in moved THEN [table[f] EXCEPT !.box = b]
                     ELSE table[f]], new, row)
        home == Home(s, {b} \cup {table[f].box : f \in moved})
    IN
    /\ new \subseteq Files
    /\ MayTake(b, moved)
    /\ \E pos \in Orders(s, home, moved) :
        /\ \A f \in moved : \A g \in ActiveIn(s, b) \ moved : pos[g] < pos[f]
        /\ Write(Persist(s, home, pos))
    /\ used' = used + n

(* Merges and purges of lots delete files and leave the others in place.   *)
Drop(f) ==
    /\ table' = [g \in DOMAIN table \ {f} |-> table[g]]
    /\ result' = "done"
    /\ UNCHANGED used

Next ==
    \/ \E b \in Boxes, p \in Files : Create(b, p)
    \/ \E f \in DOMAIN table :
        \/ \E b \in Boxes, p \in Files : Move(f, b, p)
        \/ Archive(f)
        \/ \E p \in Files : Restore(f, p)
        \/ Drop(f)
    \/ \E b \in Boxes, n \in 0..MaxIntake, moved \in SUBSET DOMAIN table :
          Intake(b, n, moved)

Spec == Init /\ [][Next]_vars

(***************************************************************************)
(* Properties                                                              *)
(***************************************************************************)
TypeOK ==
    /\ DOMAIN table \subseteq Files /\ \A f \in DOMAIN table : table[f] \in Row
    /\ used \in Nat /\ \A f \in DOMAIN table : f <= used
    /\ result \in {"done", "collision"}

(* No operation fails because a row takes a place another row is about to  *)
(* leave: "avoid transient unique collisions on databases with immediate   *)
(* constraints" (_persist_orders, box_files.py).                           *)
NoTransientCollision == result # "collision"

(* In every box the active files come before the archived ones, after      *)
(* moves, intake and deletions that leave gaps as well, so that the        *)
(* numbers of the active files are their places on the printed list.       *)
ActiveFirst ==
    \A f, g \in DOMAIN table :
        /\ table[f].box = table[g].box
        /\ ~table[f].archived /\ table[g].archived
        => table[f].position < table[g].position
=============================================================================
