-------------------------- MODULE SequentialProofs --------------------------
(***************************************************************************)
(* Proofs about the two components that work on their own: the operations  *)
(* on the files of a box, which run one at a time, and the recommendation  *)
(* for a warehouse, which is a calculation.                                *)
(*                                                                         *)
(* The first part shows that the files of a box stay in order and that     *)
(* writing an order never meets the unique constraint half-way.  What an   *)
(* operation has in common with all others is that it puts all files of    *)
(* some boxes in an order and leaves the rest alone (Ordered); then        *)
(* SettledInOrder says what the table is afterwards, ApartFlush and        *)
(* SettledFlush that neither of the two flushes collides.                  *)
(*                                                                         *)
(* The second part is what the recommendation guarantees, for every        *)
(* warehouse, every observation and every demand the rounding may produce. *)
(***************************************************************************)
EXTENDS BoxFileOrders, OrderSuggestion, FiniteSetTheorems, SequenceTheorems,
        WellFoundedInduction, TLAPS

-----------------------------------------------------------------------------
(* Numbers.                                                                *)

\* Induction over the numbers, for a set of them.
LEMMA AllNumbers ==
  ASSUME NEW S, 0 \in S, \A n \in Nat : n \in S => n + 1 \in S
  PROVE  Nat \subseteq S
<1> DEFINE T == Nat \ S
<1> SUFFICES ASSUME T # {} PROVE FALSE
  OBVIOUS
<1>1. PICK x \in T : \A y \in T : <<y, x>> \notin OpToRel(<, Nat)
  BY NatLessThanWellFounded, WFMin, T \subseteq Nat
<1>2. x - 1 \in Nat /\ x - 1 < x /\ (x - 1) + 1 = x
  <2>1. x \in Nat /\ x # 0
    OBVIOUS
  <2> QED BY <2>1
<1>3. x - 1 \in S
  BY <1>1, <1>2 DEF OpToRel
<1> QED BY <1>1, <1>2, <1>3

\* A finite set of numbers has a greatest one.
LEMMA MaxOf ==
  ASSUME NEW U \in SUBSET Nat, IsFiniteSet(U), U # {}
  PROVE  Max(U) \in U /\ \A y \in U : y <= Max(U)
<1> DEFINE Bounded(V) == \E x \in V : \A y \in V : x >= y
           S == {n \in Nat : \A V \in SUBSET U :
                   V # {} /\ Cardinality(V) <= n => Bounded(V)}
<1>0. \A V \in SUBSET U : IsFiniteSet(V) /\ Cardinality(V) \in Nat
  BY FS_Subset, FS_CardinalityType
<1>1. 0 \in S
  BY <1>0, FS_EmptySet
<1>2. ASSUME NEW n \in Nat, n \in S
      PROVE  n + 1 \in S
  <2> SUFFICES ASSUME NEW V \in SUBSET U, V # {}, Cardinality(V) <= n + 1
               PROVE  Bounded(V)
    OBVIOUS
  <2>1. PICK v : v \in V
    OBVIOUS
  <2>2. IsFiniteSet(V) /\ Cardinality(V \ {v}) = Cardinality(V) - 1
    BY <1>0, <2>1, FS_RemoveElement
  <2>3. V \ {v} # {} => Bounded(V \ {v})
    BY <1>0, <1>2, <2>2
  <2>4. CASE V \ {v} = {}
    BY <2>1, <2>4
  <2>5. CASE V \ {v} # {}
    <3>1. PICK x \in V \ {v} : \A y \in V \ {v} : x >= y
      BY <2>3, <2>5
    <3>2. CASE x >= v
      BY <3>1, <3>2
    <3>3. CASE ~(x >= v)
      BY <2>1, <3>1, <3>3
    <3> QED BY <3>2, <3>3
  <2> QED BY <2>4, <2>5
<1>3. Nat \subseteq S
  <2> HIDE DEF S
  <2> QED BY <1>1, <1>2, AllNumbers
<1>4. Bounded(U)
  BY <1>0, <1>3
<1> QED BY <1>4 DEF Max

-----------------------------------------------------------------------------
(* The two flushes of _persist_orders.                                     *)
ChangedBy(s, home, pos) ==
  {f \in DOMAIN pos : s[f].box # home[f] \/ s[f].position # pos[f]}
Ceiling(s, pos) ==
  Max({s[f].position : f \in DOMAIN pos}) + Cardinality(DOMAIN pos) + 1000
Apart(s, home, pos) ==
  [f \in DOMAIN s |->
     IF f \in ChangedBy(s, home, pos)
     THEN [s[f] EXCEPT !.position = Ceiling(s, pos) + f] ELSE s[f]]
Settled(s, home, pos) ==
  [f \in DOMAIN s |->
     IF f \in DOMAIN pos
     THEN [s[f] EXCEPT !.box = home[f], !.position = pos[f]] ELSE s[f]]

LEMMA PersistFlushes ==
  ASSUME NEW s, NEW home, NEW pos
  PROVE  Persist(s, home, pos) = IF ChangedBy(s, home, pos) = {} THEN <<s>>
                                 ELSE <<Apart(s, home, pos), Settled(s, home, pos)>>
BY DEF Persist, ChangedBy, Apart, Settled, Ceiling

\* The rows s of a session, to be put in the order pos; P is what the
\* database holds.  The order is of all files of the boxes it is about.
Ordered(P, s, home, pos) ==
  /\ DOMAIN s \subseteq Files /\ \A f \in DOMAIN s : s[f] \in Row
  /\ IsFiniteSet(DOMAIN s) /\ DOMAIN home \subseteq DOMAIN s
  /\ \E free : pos \in Orders(s, home, free)
  /\ \A h \in DOMAIN home : home[h] \in Boxes
  /\ \A g \in DOMAIN s \ DOMAIN home :
       /\ g \in DOMAIN P /\ s[g] = P[g]
       /\ \A h \in DOMAIN home : s[g].box # home[h] /\ s[g].box # s[h].box
  /\ DOMAIN P \subseteq DOMAIN s
  /\ \A g \in DOMAIN P : s[g].position = P[g].position

Separate(s) ==
  \A f, g \in DOMAIN s :
    f # g => s[f].box # s[g].box \/ s[f].position # s[g].position
ActivesLead(s, D) ==
  \A f, g \in D :
    /\ s[f].box = s[g].box /\ ~s[f].archived /\ s[g].archived
    => s[f].position < s[g].position

LEMMA OrderedPositions ==
  ASSUME NEW P, NEW s, NEW home, NEW pos, Ordered(P, s, home, pos)
  PROVE  /\ DOMAIN pos = DOMAIN home
         /\ \A f \in DOMAIN home :
              /\ pos[f] \in Nat \ {0} /\ pos[f] < Ceiling(s, pos)
              /\ s[f].position < Ceiling(s, pos)
         /\ DOMAIN home # {} => Ceiling(s, pos) \in Nat
         /\ \A f, g \in DOMAIN home :
              f # g /\ home[f] = home[g] =>
                /\ pos[f] # pos[g]
                /\ ~s[f].archived /\ s[g].archived => pos[f] < pos[g]
<1> DEFINE H == DOMAIN home
           U == {s[f].position : f \in H}
<1>1. PICK free : pos \in Orders(s, home, free)
  BY DEF Ordered
<1>2. /\ pos \in [H -> 1..Cardinality(H)]
      /\ \A f, g \in H :
           f # g /\ home[f] = home[g] =>
             /\ pos[f] # pos[g]
             /\ Precedes(s, free, f, g) => pos[f] < pos[g]
  BY <1>1 DEF Orders
<1>3. IsFiniteSet(H) /\ Cardinality(H) \in Nat
  BY FS_Subset, FS_CardinalityType DEF Ordered
<1>4. \A f \in H : s[f].position \in Nat \ {0}
  BY DEF Ordered, Row
<1>5. IsFiniteSet(U) /\ U \subseteq Nat
  <2> DEFINE at == [f \in H |-> s[f].position]
  <2>1. at \in Surjection(H, U)
    BY DEF Surjection
  <2>2. IsFiniteSet(U)
    BY <1>3, <2>1, FS_Surjection
  <2> QED BY <1>4, <2>2
<1>6. DOMAIN pos = H
  BY <1>2
<1>7. H # {} => /\ Ceiling(s, pos) \in Nat
                /\ Cardinality(H) < Ceiling(s, pos)
                /\ \A f \in H : s[f].position < Ceiling(s, pos)
  <2> SUFFICES ASSUME H # {}
               PROVE  /\ Ceiling(s, pos) \in Nat
                      /\ Cardinality(H) < Ceiling(s, pos)
                      /\ \A f \in H : s[f].position < Ceiling(s, pos)
    OBVIOUS
  <2>1. U # {}
    OBVIOUS
  <2>2. Max(U) \in Nat /\ \A y \in U : y <= Max(U)
    BY <1>5, <2>1, MaxOf
  <2>3. Ceiling(s, pos) = Max(U) + Cardinality(H) + 1000
    BY <1>6 DEF Ceiling
  <2>4. \A f \in H : s[f].position <= Max(U)
    BY <2>2
  <2> HIDE DEF U, H
  <2> QED BY <1>3, <1>4, <2>2, <2>3, <2>4
<1>8. \A f \in H : pos[f] \in Nat \ {0} /\ pos[f] <= Cardinality(H)
  BY <1>2, <1>3
<1>9. \A f \in H : pos[f] < Ceiling(s, pos)
  <2> SUFFICES ASSUME NEW f \in H PROVE pos[f] < Ceiling(s, pos)
    OBVIOUS
  <2>1. H # {}
    OBVIOUS
  <2> HIDE DEF H
  <2> QED BY <1>3, <1>7, <1>8, <2>1
<1>10. \A f, g \in H : ~s[f].archived /\ s[g].archived => Precedes(s, free, f, g)
  BY DEF Precedes
<1> QED BY <1>2, <1>6, <1>7, <1>8, <1>9, <1>10

\* Where the rows are after either flush.
LEMMA FlushedRows ==
  ASSUME NEW P, NEW s, NEW home, NEW pos, Ordered(P, s, home, pos),
         NEW f \in DOMAIN s
  PROVE  /\ f \in DOMAIN home =>
              /\ Settled(s, home, pos)[f].box = home[f]
              /\ Settled(s, home, pos)[f].position = pos[f]
              /\ Settled(s, home, pos)[f].archived = s[f].archived
              /\ Settled(s, home, pos)[f] \in Row
         /\ f \notin DOMAIN home => Settled(s, home, pos)[f] = s[f]
         /\ f \in ChangedBy(s, home, pos) =>
              /\ f \in DOMAIN home
              /\ Apart(s, home, pos)[f].box = s[f].box
              /\ Apart(s, home, pos)[f].position = Ceiling(s, pos) + f
         /\ f \notin ChangedBy(s, home, pos) =>
              /\ Apart(s, home, pos)[f] = s[f]
              /\ f \in DOMAIN home => s[f].box = home[f] /\ s[f].position = pos[f]
<1>1. DOMAIN pos = DOMAIN home
  BY OrderedPositions
<1>2. s[f] \in Row
  BY DEF Ordered
<1>3. f \in DOMAIN home => home[f] \in Boxes /\ pos[f] \in Nat \ {0}
  <2>1. f \in DOMAIN home => pos[f] \in Nat \ {0}
    BY OrderedPositions
  <2> QED BY <2>1 DEF Ordered
<1> QED BY <1>1, <1>2, <1>3 DEF Settled, Apart, ChangedBy, Row

\* The order that is written: one file per place, the active ones first.
LEMMA SettledInOrder ==
  ASSUME NEW P, NEW s, NEW home, NEW pos, Ordered(P, s, home, pos),
         ActivesLead(P, DOMAIN P \ DOMAIN home), Separate(P)
  PROVE  /\ ActivesLead(Settled(s, home, pos), DOMAIN s) /\ Separate(Settled(s, home, pos))
         /\ DOMAIN Settled(s, home, pos) = DOMAIN s
         /\ \A f \in DOMAIN s : Settled(s, home, pos)[f] \in Row
<1> DEFINE t == Settled(s, home, pos)
           H == DOMAIN home
<1>1. DOMAIN t = DOMAIN s
  BY DEF Settled
<1>2. \A f \in DOMAIN s :
        /\ f \in H => t[f].box = home[f] /\ t[f].position = pos[f]
                        /\ t[f].archived = s[f].archived /\ t[f] \in Row
        /\ f \notin H => t[f] = s[f]
  BY FlushedRows
<1>3. \A f \in DOMAIN s : t[f] \in Row
  BY <1>2 DEF Ordered
<1>4. ASSUME NEW f \in DOMAIN s, NEW g \in DOMAIN s, f # g, t[f].box = t[g].box
      PROVE  /\ t[f].position # t[g].position
             /\ ~t[f].archived /\ t[g].archived => t[f].position < t[g].position
  <2>1. CASE f \in H /\ g \in H
    BY <1>2, <1>4, <2>1, OrderedPositions
  <2>2. CASE f \notin H /\ g \notin H
    <3>1. /\ t[f] = P[f] /\ t[g] = P[g]
          /\ f \in DOMAIN P \ H /\ g \in DOMAIN P \ H
      BY <1>2, <2>2 DEF Ordered
    <3>2. \A x, y \in DOMAIN P \ H :
            /\ P[x].box = P[y].box /\ ~P[x].archived /\ P[y].archived
            => P[x].position < P[y].position
      BY DEF ActivesLead
    <3> HIDE DEF t, H
    <3> QED BY <1>4, <3>1, <3>2 DEF Separate
  <2>3. CASE f \in H /\ g \notin H
    BY <1>2, <1>4, <2>3 DEF Ordered
  <2>4. CASE f \notin H /\ g \in H
    BY <1>2, <1>4, <2>4 DEF Ordered
  <2> QED BY <2>1, <2>2, <2>3, <2>4
<1>5. ActivesLead(t, DOMAIN t) /\ Separate(t)
  <2> HIDE DEF t
  <2>1. \A f, g \in DOMAIN t : ~t[f].archived /\ t[g].archived => f # g
    OBVIOUS
  <2> QED BY <1>1, <1>4, <2>1 DEF ActivesLead, Separate
<1> QED BY <1>1, <1>3, <1>5

-----------------------------------------------------------------------------
(* No flush of a session collides, unless what the session has changed     *)
(* before does: nothing but changed rows may take a place of P.            *)
Unopposed(P, s) ==
  \A f \in DOMAIN s, g \in DOMAIN P :
    f # g /\ (f \in DOMAIN P => Place(P, f) # Place(s, f))
      => Place(P, g) # Place(s, f)

LEMMA SamePlace ==
  ASSUME NEW s, NEW t, NEW f, NEW g
  PROVE  Place(s, f) = Place(t, g)
           <=> s[f].box = t[g].box /\ s[f].position = t[g].position
BY DEF Place

\* Rows that are moved out of the way take places nobody has had.
LEMMA ApartFlush ==
  ASSUME NEW P, NEW s, NEW home, NEW pos, Ordered(P, s, home, pos),
         Separate(P), Unopposed(P, s)
  PROVE  ~Collides(P, Apart(s, home, pos))
<1> DEFINE t == Apart(s, home, pos)
           c == Ceiling(s, pos)
           H == DOMAIN home
           C == ChangedBy(s, home, pos)
<1>0. /\ DOMAIN t = DOMAIN s /\ DOMAIN P \subseteq DOMAIN s
      /\ \A f \in DOMAIN s : f \in Nat \ {0} /\ s[f].position \in Nat
  BY FilesAssumption DEF Apart, Ordered, Row
<1>1. \A f \in DOMAIN s :
        /\ f \in C => /\ f \in H /\ t[f].box = s[f].box /\ t[f].position = c + f
        /\ f \notin C => /\ t[f] = s[f]
                         /\ f \in H => s[f].box = home[f] /\ s[f].position = pos[f]
  BY FlushedRows
<1>2. /\ \A f \in H : s[f].position < c
      /\ H # {} => c \in Nat
      /\ \A f, g \in H : f # g /\ home[f] = home[g] => pos[f] # pos[g]
  BY OrderedPositions
<1>3. \A g \in DOMAIN s \ H :
        /\ g \in DOMAIN P /\ s[g] = P[g]
        /\ \A h \in H : s[g].box # s[h].box
  BY DEF Ordered
<1>4. \A g \in DOMAIN P : s[g].position = P[g].position
  BY DEF Ordered
<1> HIDE DEF t, c, C, H
<1> SUFFICES ASSUME NEW f \in DOMAIN s, NEW g \in DOMAIN s, f # g,
                    f \in DOMAIN P => Place(P, f) # Place(t, f)
             PROVE  IF g < f THEN Place(t, g) # Place(t, f)
                    ELSE g \in DOMAIN P => Place(P, g) # Place(t, f)
  BY <1>0 DEF Collides, t
<1>5. CASE f \in C
  <2>1. f \in H /\ t[f].box = s[f].box /\ t[f].position = c + f /\ c \in Nat
    BY <1>1, <1>2, <1>5
  <2>2. Place(t, g) # Place(t, f)
    <3>1. CASE g \in C
      <4>1. t[g].position = c + g
        BY <1>1, <3>1
      <4> QED BY <1>0, <2>1, <4>1, SamePlace
    <3>2. CASE g \notin C /\ g \in H
      <4>1. t[g].position = s[g].position /\ s[g].position < c
        BY <1>1, <1>2, <3>2
      <4> QED BY <1>0, <2>1, <4>1, SamePlace
    <3>3. CASE g \notin H
      <4>1. t[g].box # s[f].box
        BY <1>1, <1>3, <2>1, <3>3
      <4> QED BY <2>1, <4>1, SamePlace
    <3> QED BY <3>1, <3>2, <3>3
  <2>3. g \in DOMAIN P => Place(P, g) # Place(t, f)
    <3>1. CASE g \in DOMAIN P /\ g \in H
      <4>1. P[g].position = s[g].position /\ s[g].position < c
        BY <1>2, <1>4, <3>1
      <4> QED BY <1>0, <2>1, <4>1, SamePlace
    <3>2. CASE g \in DOMAIN P /\ g \notin H
      <4>1. P[g].box # s[f].box
        BY <1>3, <2>1, <3>2
      <4> QED BY <2>1, <4>1, SamePlace
    <3> QED BY <3>1, <3>2
  <2> QED BY <2>2, <2>3
<1>6. CASE f \notin C
  <2>1. t[f] = s[f] /\ Place(t, f) = Place(s, f)
    BY <1>1, <1>6 DEF Place
  <2>2. f \in H
    <3>1. CASE f \notin H
      <4>1. f \in DOMAIN P /\ s[f] = P[f]
        BY <1>3, <3>1
      <4> QED BY <2>1, <4>1 DEF Place
    <3> QED BY <3>1
  <2>3. s[f].box = home[f] /\ s[f].position = pos[f] /\ s[f].position < c
        /\ c \in Nat
    BY <1>1, <1>2, <1>6, <2>2
  <2>4. Place(t, g) # Place(t, f)
    <3>1. CASE g \in C
      <4>1. t[g].position = c + g
        BY <1>1, <3>1
      <4> QED BY <1>0, <2>1, <2>3, <4>1, SamePlace
    <3>2. CASE g \notin C /\ g \in H
      <4>1. t[g].box = home[g] /\ t[g].position = pos[g]
        BY <1>1, <3>2
      <4>2. home[f] = home[g] => pos[f] # pos[g]
        BY <1>2, <2>2, <3>2
      <4> QED BY <2>1, <2>3, <4>1, <4>2, SamePlace
    <3>3. CASE g \notin H
      <4>1. t[g].box # s[f].box
        BY <1>1, <1>3, <2>2, <3>3
      <4> QED BY <2>1, <4>1, SamePlace
    <3> QED BY <3>1, <3>2, <3>3
  <2>5. g \in DOMAIN P => Place(P, g) # Place(t, f)
    BY <2>1 DEF Unopposed
  <2> QED BY <2>4, <2>5
<1> QED BY <1>5, <1>6

\* Then every place of the order is free, or held by a row that stays.
LEMMA SettledFlush ==
  ASSUME NEW P, NEW s, NEW home, NEW pos, Ordered(P, s, home, pos),
         Separate(P), ActivesLead(P, DOMAIN P \ DOMAIN home)
  PROVE  ~Collides(Apart(s, home, pos), Settled(s, home, pos))
<1> DEFINE a == Apart(s, home, pos)
           t == Settled(s, home, pos)
           c == Ceiling(s, pos)
           H == DOMAIN home
           C == ChangedBy(s, home, pos)
<1>0. /\ DOMAIN a = DOMAIN s /\ DOMAIN t = DOMAIN s
      /\ \A f \in DOMAIN s : f \in Nat \ {0}
  BY FilesAssumption DEF Apart, Settled, Ordered
<1>1. \A f \in DOMAIN s :
        /\ f \in H => t[f].box = home[f] /\ t[f].position = pos[f]
        /\ f \notin H => t[f] = s[f]
        /\ f \in C => f \in H /\ a[f].position = c + f
        /\ f \notin C => /\ a[f] = s[f]
                         /\ f \in H => s[f].box = home[f] /\ s[f].position = pos[f]
  BY FlushedRows
<1>2. /\ \A f \in H : pos[f] \in Nat \ {0} /\ pos[f] < c
      /\ H # {} => c \in Nat
      /\ \A f, g \in H : f # g /\ home[f] = home[g] => pos[f] # pos[g]
  BY OrderedPositions
<1>3. \A g \in DOMAIN s \ H : \A h \in H : s[g].box # home[h]
  BY DEF Ordered
<1>4. Separate(t)
  BY SettledInOrder
<1> HIDE DEF a, t, c, C, H
<1> SUFFICES ASSUME NEW f \in DOMAIN s, NEW g \in DOMAIN s, f # g,
                    Place(a, f) # Place(t, f)
             PROVE  /\ Place(t, g) # Place(t, f)
                    /\ Place(a, g) # Place(t, f)
  BY <1>0 DEF Collides, a, t
<1>5. Place(t, g) # Place(t, f)
  BY <1>0, <1>4, SamePlace DEF Separate
<1>6. f \in H
  <2>1. f \notin H => a[f] = t[f]
    BY <1>1
  <2> QED BY <2>1 DEF Place
<1>7. Place(a, g) # Place(t, f)
  <2>1. CASE g \in C
    <3>1. /\ a[g].position = c + g /\ t[f].position = pos[f]
          /\ c \in Nat /\ pos[f] \in Nat /\ pos[f] < c
      BY <1>1, <1>2, <1>6, <2>1
    <3> QED BY <1>0, <3>1, SamePlace
  <2>2. CASE g \notin C /\ g \in H
    <3>1. /\ a[g].box = home[g] /\ a[g].position = pos[g]
          /\ t[f].box = home[f] /\ t[f].position = pos[f]
      BY <1>1, <1>6, <2>2
    <3>2. home[f] = home[g] => pos[f] # pos[g]
      BY <1>2, <1>6, <2>2
    <3> QED BY <3>1, <3>2, SamePlace
  <2>3. CASE g \notin H
    <3>1. a[g].box # t[f].box
      BY <1>1, <1>3, <1>6, <2>3
    <3> QED BY <3>1, SamePlace
  <2> QED BY <2>1, <2>2, <2>3
<1> QED BY <1>5, <1>7

\* A session whose rows are in order already is flushed as it is.
LEMMA PlainFlush ==
  ASSUME NEW P, NEW s, NEW home, NEW pos, Ordered(P, s, home, pos),
         ChangedBy(s, home, pos) = {}
  PROVE  /\ s \in [DOMAIN s -> Row] => Settled(s, home, pos) = s
         /\ [f \in DOMAIN s |-> s[f]] = s => Apart(s, home, pos) = s
<1>1. \A f \in DOMAIN s : Apart(s, home, pos)[f] = s[f]
  BY FlushedRows
<1>2. ASSUME NEW f \in DOMAIN s
      PROVE  Settled(s, home, pos)[f] = s[f]
  <2>1. s[f] \in Row
    BY DEF Ordered
  <2>2. f \in DOMAIN pos => s[f].box = home[f] /\ s[f].position = pos[f]
    BY DEF ChangedBy
  <2> QED BY <2>1, <2>2 DEF Settled, Row
<1> QED BY <1>1, <1>2 DEF Apart, Settled

-----------------------------------------------------------------------------
(* A transaction of one, two or three flushes.                             *)
Wrote(t) ==
  \/ result' = "done" /\ table' = t
  \/ result' = "collision" /\ table' = table

LEMMA WriteOne ==
  ASSUME NEW a, Write(<<a>>)
  PROVE  Wrote(a) /\ (~Collides(table, a) => result' = "done")
<1> DEFINE st == <<table>> \o <<a>>
<1>1. st[1] = table /\ st[2] = a /\ Len(<<a>>) = 1 /\ <<a>>[1] = a
  OBVIOUS
<1>2. ASSUME NEW i \in 1..Len(<<a>>), Collides(st[i], st[i + 1])
      PROVE  Collides(table, a)
  <2>1. i = 1
    BY <1>1
  <2> HIDE DEF st
  <2> QED BY <1>1, <1>2, <2>1
<1> QED BY <1>1, <1>2 DEF Write, Wrote

LEMMA WriteTwo ==
  ASSUME NEW a, NEW b, Write(<<a, b>>)
  PROVE  Wrote(b) /\ (~Collides(table, a) /\ ~Collides(a, b) => result' = "done")
<1> DEFINE st == <<table>> \o <<a, b>>
<1>1. /\ st[1] = table /\ st[2] = a /\ st[3] = b
      /\ Len(<<a, b>>) = 2 /\ <<a, b>>[2] = b
  OBVIOUS
<1>2. ASSUME NEW i \in 1..Len(<<a, b>>), Collides(st[i], st[i + 1])
      PROVE  Collides(table, a) \/ Collides(a, b)
  <2>1. i = 1 \/ i = 2
    BY <1>1
  <2> HIDE DEF st
  <2>2. CASE i = 1
    BY <1>1, <1>2, <2>2
  <2>3. CASE i = 2
    BY <1>1, <1>2, <2>3
  <2> QED BY <2>1, <2>2, <2>3
<1> QED BY <1>1, <1>2 DEF Write, Wrote

LEMMA WriteThree ==
  ASSUME NEW a, NEW b, NEW c, Write(<<a>> \o <<b, c>>)
  PROVE  /\ Wrote(c)
         /\ ~Collides(table, a) /\ ~Collides(a, b) /\ ~Collides(b, c)
              => result' = "done"
<1> DEFINE fl == <<a>> \o <<b, c>>
           st == <<table>> \o fl
<1>1. /\ st[1] = table /\ st[2] = a /\ st[3] = b /\ st[4] = c
      /\ Len(fl) = 3 /\ fl[3] = c
  OBVIOUS
<1>2. ASSUME NEW i \in 1..Len(fl), Collides(st[i], st[i + 1])
      PROVE  Collides(table, a) \/ Collides(a, b) \/ Collides(b, c)
  <2>1. i = 1 \/ i = 2 \/ i = 3
    BY <1>1
  <2> HIDE DEF st
  <2>2. CASE i = 1
    BY <1>1, <1>2, <2>2
  <2>3. CASE i = 2
    BY <1>1, <1>2, <2>3
  <2>4. CASE i = 3
    BY <1>1, <1>2, <2>4
  <2> QED BY <2>1, <2>2, <2>3, <2>4
<1> QED BY <1>1, <1>2 DEF Write, Wrote

LEMMA WriteAgain ==
  ASSUME NEW a, NEW b, Write(<<a>> \o <<b>>)
  PROVE  Wrote(b) /\ (~Collides(table, a) /\ ~Collides(a, b) => result' = "done")
<1> DEFINE fl == <<a>> \o <<b>>
           st == <<table>> \o fl
<1>1. /\ st[1] = table /\ st[2] = a /\ st[3] = b
      /\ Len(fl) = 2 /\ fl[2] = b
  OBVIOUS
<1>2. ASSUME NEW i \in 1..Len(fl), Collides(st[i], st[i + 1])
      PROVE  Collides(table, a) \/ Collides(a, b)
  <2>1. i = 1 \/ i = 2
    BY <1>1
  <2> HIDE DEF st
  <2>2. CASE i = 1
    BY <1>1, <1>2, <2>2
  <2>3. CASE i = 2
    BY <1>1, <1>2, <2>3
  <2> QED BY <2>1, <2>2, <2>3
<1> QED BY <1>1, <1>2 DEF Write, Wrote

\* The rows of a session that are put in order are written in that order.
LEMMA OrderWritten ==
  ASSUME NEW P, NEW s, NEW home, NEW pos, Ordered(P, s, home, pos),
         Separate(P), ActivesLead(P, DOMAIN P \ DOMAIN home), s = [f \in DOMAIN s |-> s[f]],
         P = table, Write(Persist(s, home, pos))
  PROVE  /\ Wrote(Settled(s, home, pos))
         /\ Unopposed(P, s) => result' = "done"
<1>1. CASE ChangedBy(s, home, pos) = {}
  <2>1. Write(<<s>>)
    BY <1>1, PersistFlushes
  <2>2. s \in [DOMAIN s -> Row]
    <3>1. \A f \in DOMAIN s : s[f] \in Row
      BY DEF Ordered
    <3> QED BY <3>1
  <2>3. Settled(s, home, pos) = s /\ Apart(s, home, pos) = s
    BY <1>1, <2>2, PlainFlush
  <2> QED BY <2>1, <2>3, WriteOne, ApartFlush
<1>2. CASE ChangedBy(s, home, pos) # {}
  <2>1. Write(<<Apart(s, home, pos), Settled(s, home, pos)>>)
    BY <1>2, PersistFlushes
  <2> QED BY <2>1, WriteTwo, ApartFlush, SettledFlush
<1> QED BY <1>1, <1>2

LEMMA OrderWrittenAfter ==
  ASSUME NEW s, NEW home, NEW pos, Ordered(s, s, home, pos),
         Separate(s), ActivesLead(s, DOMAIN s \ DOMAIN home),
         s = [f \in DOMAIN s |-> s[f]],
         Write(<<s>> \o Persist(s, home, pos))
  PROVE  /\ Wrote(Settled(s, home, pos))
         /\ ~Collides(table, s) => result' = "done"
<1>0. Unopposed(s, s)
  BY DEF Unopposed
<1>1. CASE ChangedBy(s, home, pos) = {}
  <2>1. Write(<<s>> \o <<s>>)
    BY <1>1, PersistFlushes
  <2>2. s \in [DOMAIN s -> Row]
    <3>1. \A f \in DOMAIN s : s[f] \in Row
      BY DEF Ordered
    <3> QED BY <3>1
  <2>3. Settled(s, home, pos) = s /\ Apart(s, home, pos) = s
    BY <1>1, <2>2, PlainFlush
  <2> QED BY <1>0, <2>1, <2>3, WriteAgain, ApartFlush
<1>2. CASE ChangedBy(s, home, pos) # {}
  <2>1. Write(<<s>> \o <<Apart(s, home, pos), Settled(s, home, pos)>>)
    BY <1>2, PersistFlushes
  <2> QED BY <1>0, <2>1, WriteThree, ApartFlush, SettledFlush
<1> QED BY <1>1, <1>2

-----------------------------------------------------------------------------
(* The inductive invariant: the constraint of the table, and the order.    *)
FilesInv ==
  /\ DOMAIN table \subseteq Files /\ \A f \in DOMAIN table : table[f] \in Row
  /\ table = [f \in DOMAIN table |-> table[f]]
  /\ used \in Nat /\ \A f \in DOMAIN table : f <= used
  /\ result \in {"done", "collision"}
  /\ Separate(table) /\ ActivesLead(table, DOMAIN table)

LEMMA FinitelyManyFiles ==
  ASSUME FilesInv
  PROVE  IsFiniteSet(DOMAIN table)
<1>1. DOMAIN table \subseteq 1..used
  BY FilesAssumption DEF FilesInv
<1>2. IsFiniteSet(1..used)
  BY FS_Interval DEF FilesInv
<1> QED BY <1>1, <1>2, FS_Subset

\* What is written, or not, by an operation keeps the invariant.
LEMMA WrittenKept ==
  ASSUME FilesInv, NEW P, NEW s, NEW home, NEW pos, Ordered(P, s, home, pos),
         Separate(P), ActivesLead(P, DOMAIN P \ DOMAIN home), Wrote(Settled(s, home, pos)),
         used' \in Nat, used <= used', \A f \in DOMAIN s : f <= used'
  PROVE  FilesInv'
<1> DEFINE t == Settled(s, home, pos)
<1>1. /\ ActivesLead(t, DOMAIN t) /\ Separate(t) /\ DOMAIN t = DOMAIN s
      /\ \A f \in DOMAIN s : t[f] \in Row
  BY SettledInOrder
<1>2. DOMAIN s \subseteq Files
  BY DEF Ordered
<1>3. t = [f \in DOMAIN t |-> t[f]]
  BY DEF Settled
<1> HIDE DEF t
<1>4. CASE result' = "done" /\ table' = t
  <2>1. ActivesLead(table, DOMAIN table)' /\ Separate(table)'
    BY <1>1, <1>4 DEF ActivesLead, Separate
  <2> QED BY <1>1, <1>2, <1>3, <1>4, <2>1 DEF FilesInv
<1>5. CASE result' = "collision" /\ table' = table
  <2>1. ActivesLead(table, DOMAIN table)' /\ Separate(table)'
    BY <1>5 DEF FilesInv, ActivesLead, Separate
  <2>2. \A f \in DOMAIN table : f <= used'
    BY FilesAssumption DEF FilesInv
  <2> QED BY <1>5, <2>1, <2>2 DEF FilesInv
<1> QED BY <1>4, <1>5 DEF Wrote, t

LEMMA LastPositionOf ==
  ASSUME FilesInv, NEW b
  PROVE  /\ LastPosition(b) \in Nat
         /\ \A f \in DOMAIN table : table[f].box = b
              => table[f].position <= LastPosition(b)
<1> DEFINE F == FilesIn(table, b)
           V == {table[f].position : f \in F}
           U == V \cup {0}
<1>1. F \subseteq DOMAIN table /\ \A f \in F : table[f].position \in Nat
  BY DEF FilesIn, FilesInv, Row
<1>2. IsFiniteSet(F)
  BY <1>1, FinitelyManyFiles, FS_Subset
<1>3. IsFiniteSet(V)
  <2> DEFINE at == [f \in F |-> table[f].position]
  <2>1. at \in Surjection(F, V)
    BY DEF Surjection
  <2> QED BY <1>2, <2>1, FS_Surjection
<1>4. IsFiniteSet(U) /\ U \subseteq Nat /\ U # {}
  BY <1>1, <1>3, FS_AddElement
<1>5. Max(U) \in U /\ \A y \in U : y <= Max(U)
  BY <1>4, MaxOf
<1>6. Max(U) = LastPosition(b)
  BY DEF LastPosition
<1> HIDE DEF U
<1>7. LastPosition(b) \in Nat
  BY <1>4, <1>5, <1>6
<1>8. ASSUME NEW f \in DOMAIN table, table[f].box = b
      PROVE  table[f].position \in U
  BY <1>8 DEF U, FilesIn
<1> QED BY <1>5, <1>6, <1>7, <1>8

-----------------------------------------------------------------------------
(* The operations.                                                         *)

\* Files that are ordered within their boxes: all files of the boxes bs.
Within(P, s, bs) ==
  /\ DOMAIN s \subseteq Files /\ \A g \in DOMAIN s : s[g] \in Row
  /\ IsFiniteSet(DOMAIN s) /\ DOMAIN P \subseteq DOMAIN s
  /\ \A g \in DOMAIN P : s[g].position = P[g].position
  /\ \A g \in DOMAIN s : s[g].box \notin bs => g \in DOMAIN P /\ s[g] = P[g]

LEMMA HomeOrdered ==
  ASSUME NEW P, NEW s, NEW bs, NEW home, NEW pos, NEW free,
         Within(P, s, bs), home = Home(s, bs), pos \in Orders(s, home, free)
  PROVE  Ordered(P, s, home, pos) /\ DOMAIN home = {g \in DOMAIN s : s[g].box \in bs}
<1>1. /\ DOMAIN home = {g \in DOMAIN s : s[g].box \in bs}
      /\ \A g \in DOMAIN home : home[g] = s[g].box
  BY DEF Home
<1>2. \A g \in DOMAIN s : s[g].box \in Boxes
  BY DEF Row, Within
<1>3. \E fr : pos \in Orders(s, home, fr)
  OBVIOUS
<1> QED BY <1>1, <1>2, <1>3 DEF Ordered, Within

LEMMA CreateKept ==
  ASSUME FilesInv, NEW b \in Boxes, NEW p, Create(b, p)
  PROVE  FilesInv' /\ result' = "done"
<1> DEFINE f == used + 1
           new == [box |-> b, position |-> LastPosition(b) + 1, archived |-> FALSE]
           S == [g \in DOMAIN table \cup {f} |-> IF g \in {f} THEN new ELSE table[g]]
<1>0. PICK s : s = S
  OBVIOUS
<1>1. PICK pos : /\ pos \in Orders(s, Home(s, {b}), {f})
                 /\ Write(<<s>> \o Persist(s, Home(s, {b}), pos))
  BY <1>0 DEF Create, With
<1>2. f \in Files /\ used' = f /\ used \in Nat /\ f \in Nat
  <2>1. used + 1 \in Files /\ used' = used + 1
    BY Zenon DEF Create
  <2>2. used \in Nat
    BY DEF FilesInv
  <2> QED BY <2>1, <2>2
<1>3. f \notin DOMAIN table /\ LastPosition(b) \in Nat
      /\ \A g \in DOMAIN table : g \in Nat /\ g < f
  BY <1>2, LastPositionOf, FilesAssumption DEF FilesInv
<1>4. new \in Row /\ new.box = b /\ new.position = LastPosition(b) + 1
      /\ ~new.archived
  BY <1>3 DEF Row
<1>5. /\ DOMAIN s = DOMAIN table \cup {f} /\ s[f] = new
      /\ \A g \in DOMAIN table : s[g] = table[g]
      /\ s = [g \in DOMAIN s |-> s[g]]
  BY <1>0, <1>3
<1> HIDE DEF new
<1>6. /\ DOMAIN s \subseteq Files /\ \A g \in DOMAIN s : s[g] \in Row
      /\ IsFiniteSet(DOMAIN s)
  BY <1>2, <1>4, <1>5, FinitelyManyFiles, FS_AddElement DEF FilesInv
<1>7. \A g \in DOMAIN table : s[g].box = b => s[g].position < s[f].position
  <2> SUFFICES ASSUME NEW g \in DOMAIN table, s[g].box = b
               PROVE  s[g].position < s[f].position
    OBVIOUS
  <2>1. table[g].position \in Nat /\ table[g].position <= LastPosition(b)
    BY <1>5, LastPositionOf DEF FilesInv, Row
  <2> QED BY <1>3, <1>4, <1>5, <2>1
<1>8. \A g \in DOMAIN table : s[g].box = b =>
        s[g].position # s[f].position
  <2> SUFFICES ASSUME NEW g \in DOMAIN table, s[g].box = b
               PROVE  s[g].position # s[f].position
    OBVIOUS
  <2>1. s[g].position \in Nat /\ s[f].position \in Nat
    BY <1>5, <1>6 DEF Row
  <2> QED BY <1>7, <2>1
<1>9. Separate(s)
  BY <1>4, <1>5, <1>8 DEF Separate, FilesInv
<1>10. PICK home : home = Home(s, {b})
  OBVIOUS
<1>11. ~Collides(table, s)
  <2>1. \A g \in DOMAIN table : Place(s, g) # Place(s, f) /\ Place(table, g) # Place(s, f)
    BY <1>4, <1>5, <1>8, SamePlace
  <2>2. \A g \in DOMAIN table : Place(table, g) = Place(s, g)
    BY <1>5 DEF Place
  <2> SUFFICES ASSUME NEW e \in DOMAIN s, NEW g \in DOMAIN s, e # g,
                      e \in DOMAIN table => Place(table, e) # Place(s, e)
               PROVE  IF g < e THEN Place(s, g) # Place(s, e)
                      ELSE g \in DOMAIN table => Place(table, g) # Place(s, e)
    BY <1>5 DEF Collides
  <2>3. e = f /\ g \in DOMAIN table
    BY <1>5, <2>2
  <2> QED BY <2>1, <2>3
<1>12. Ordered(s, s, home, pos) /\ DOMAIN home = {g \in DOMAIN s : s[g].box \in {b}}
  <2>1. PICK free : pos \in Orders(s, home, free)
    BY <1>1, <1>10
  <2>2. Within(s, s, {b})
    BY <1>6 DEF Within
  <2> QED BY <1>10, <2>1, <2>2, HomeOrdered
<1>13. ActivesLead(s, DOMAIN s \ DOMAIN home)
  <2>1. \A g \in DOMAIN s \ DOMAIN home : g \in DOMAIN table
    BY <1>4, <1>5, <1>12
  <2> QED BY <1>5, <2>1 DEF ActivesLead, FilesInv
<1> HIDE DEF f
<1>14. Wrote(Settled(s, home, pos)) /\ result' = "done"
  BY <1>1, <1>5, <1>9, <1>10, <1>11, <1>12, <1>13, OrderWrittenAfter
<1>15. used' \in Nat /\ used <= used' /\ \A g \in DOMAIN s : g <= used'
  BY <1>2, <1>3, <1>5 DEF f
<1> QED BY <1>9, <1>12, <1>13, <1>14, <1>15, WrittenKept

\* The rest of an operation that changes no place before it orders the files.
LEMMA InPlaceKept ==
  ASSUME FilesInv, NEW s, NEW home, NEW pos,
         DOMAIN s = DOMAIN table, s = [g \in DOMAIN s |-> s[g]],
         \A g \in DOMAIN s : /\ s[g].box = table[g].box
                             /\ s[g].position = table[g].position,
         Ordered(table, s, home, pos), Write(Persist(s, home, pos)),
         used' = used
  PROVE  FilesInv' /\ result' = "done"
<1>1. PICK P : P = table
  OBVIOUS
<1>2. Ordered(P, s, home, pos) /\ Separate(P)
      /\ ActivesLead(P, DOMAIN P \ DOMAIN home)
  BY <1>1 DEF FilesInv, ActivesLead
<1>3. Unopposed(P, s)
  BY <1>1 DEF Unopposed, Place
<1>4. Wrote(Settled(s, home, pos)) /\ result' = "done"
  BY <1>1, <1>2, <1>3, OrderWritten
<1>5. used' \in Nat /\ used <= used' /\ \A f \in DOMAIN s : f <= used'
  BY DEF FilesInv
<1> QED BY <1>2, <1>4, <1>5, WrittenKept

LEMMA MoveKept ==
  ASSUME FilesInv, NEW f \in DOMAIN table, NEW b \in Boxes, NEW p, Move(f, b, p)
  PROVE  FilesInv' /\ result' = "done"
<1> DEFINE from == table[f].box
           stay == Home(table, {from, b})
<1>1. PICK home : home = [stay EXCEPT ![f] = b]
  OBVIOUS
<1>2. PICK pos : /\ pos \in Orders(table, home, {f})
                 /\ Write(Persist(table, home, pos))
  BY <1>1 DEF Move
<1>3. /\ DOMAIN home = {g \in DOMAIN table : table[g].box \in {from, b}}
      /\ \A g \in DOMAIN home : home[g] \in {from, b}
  <2>1. /\ DOMAIN stay = {g \in DOMAIN table : table[g].box \in {from, b}}
        /\ \A g \in DOMAIN stay : stay[g] = table[g].box
    BY DEF Home
  <2> HIDE DEF stay
  <2> QED BY <1>1, <2>1
<1>4. from \in Boxes
  BY DEF FilesInv, Row
<1>5. PICK s : s = table
  OBVIOUS
<1>6. Ordered(s, s, home, pos)
  <2>1. \E free : pos \in Orders(s, home, free)
    BY <1>2, <1>5
  <2>2. /\ DOMAIN s \subseteq Files /\ \A g \in DOMAIN s : s[g] \in Row
        /\ IsFiniteSet(DOMAIN s)
    BY <1>5, FinitelyManyFiles DEF FilesInv
  <2> QED BY <1>3, <1>4, <1>5, <2>1, <2>2 DEF Ordered
<1>7. used' = used
  BY DEF Move
<1>8. s = [g \in DOMAIN s |-> s[g]]
  BY <1>5 DEF FilesInv
<1> QED BY <1>2, <1>5, <1>6, <1>7, <1>8, InPlaceKept

LEMMA FlagKept ==
  ASSUME FilesInv, NEW f \in DOMAIN table, NEW flag \in BOOLEAN,
         NEW s, s = [table EXCEPT ![f].archived = flag],
         NEW pos, NEW free, pos \in Orders(s, Home(s, {table[f].box}), free),
         Write(Persist(s, Home(s, {table[f].box}), pos)), used' = used
  PROVE  FilesInv' /\ result' = "done"
<1>1. PICK b : b = table[f].box
  OBVIOUS
<1>2. PICK home : home = Home(s, {b})
  OBVIOUS
<1>3. /\ DOMAIN s = DOMAIN table /\ s = [g \in DOMAIN s |-> s[g]]
      /\ s[f] = [table[f] EXCEPT !.archived = flag]
      /\ \A g \in DOMAIN table \ {f} : s[g] = table[g]
  OBVIOUS
<1>4. /\ s[f] \in Row /\ s[f].box = b /\ s[f].position = table[f].position
  BY <1>1, <1>3 DEF FilesInv, Row
<1>5. PICK P : P = table
  OBVIOUS
<1>6. \A g \in DOMAIN s : /\ s[g] \in Row /\ s[g].box = P[g].box
                          /\ s[g].position = P[g].position
  BY <1>1, <1>3, <1>4, <1>5 DEF FilesInv
<1>7. Within(P, s, {b})
  BY <1>3, <1>4, <1>5, <1>6, FinitelyManyFiles DEF Within, FilesInv
<1>8. Ordered(P, s, home, pos) /\ Write(Persist(s, home, pos))
  BY <1>1, <1>2, <1>7, HomeOrdered
<1>9. /\ Ordered(table, s, home, pos)
      /\ \A g \in DOMAIN s : /\ s[g].box = table[g].box
                              /\ s[g].position = table[g].position
  BY <1>5, <1>6, <1>8
<1> HIDE <1>1
<1> QED BY <1>3, <1>8, <1>9, InPlaceKept

LEMMA ArchiveKept ==
  ASSUME FilesInv, NEW f \in DOMAIN table, Archive(f)
  PROVE  FilesInv' /\ result' = "done"
<1>1. PICK s : s = [table EXCEPT ![f].archived = TRUE]
  OBVIOUS
<1>2. /\ used' = used
      /\ \E pos \in Orders(s, Home(s, {table[f].box}), {}) :
           Write(Persist(s, Home(s, {table[f].box}), pos))
  BY <1>1 DEF Archive
<1> QED BY <1>1, <1>2, FlagKept

LEMMA RestoreKept ==
  ASSUME FilesInv, NEW f \in DOMAIN table, NEW p, Restore(f, p)
  PROVE  FilesInv' /\ result' = "done"
<1>1. PICK s : s = [table EXCEPT ![f].archived = FALSE]
  OBVIOUS
<1>2. /\ used' = used
      /\ \E pos \in Orders(s, Home(s, {table[f].box}), {f}) :
           Write(Persist(s, Home(s, {table[f].box}), pos))
  BY <1>1 DEF Restore
<1> QED BY <1>1, <1>2, FlagKept

LEMMA DropKept ==
  ASSUME FilesInv, NEW f \in DOMAIN table, Drop(f)
  PROVE  FilesInv' /\ result' = "done"
<1>1. /\ table' = [g \in DOMAIN table \ {f} |-> table[g]] /\ used' = used
      /\ result' = "done"
  BY DEF Drop
<1>2. /\ DOMAIN table' = DOMAIN table \ {f}
      /\ \A g \in DOMAIN table' : table'[g] = table[g]
      /\ table' = [g \in DOMAIN table' |-> table'[g]]
  BY <1>1
<1>3. Separate(table)' /\ ActivesLead(table, DOMAIN table)'
  BY <1>2 DEF FilesInv, Separate, ActivesLead
<1> QED BY <1>1, <1>2, <1>3 DEF FilesInv

LEMMA IntakePositionNext ==
  ASSUME NEW b, NEW k \in Nat \ {0}, LastPosition(b) \in Nat
  PROVE  IntakePosition(b, k) \in Nat /\ IntakePosition(b, k) > LastPosition(b)
<1>1. k * (k + 1) \in Nat /\ k * (k + 1) >= 2
  <2>1. k * (k + 1) = k * k + k
    OBVIOUS
  <2>2. k * k \in Nat /\ k * k >= 1
    OBVIOUS
  <2> QED BY <2>1, <2>2
<1>2. (k * (k + 1)) \div 2 \in Nat /\ (k * (k + 1)) \div 2 >= 1
  <2> DEFINE x == k * (k + 1)
  <2>1. x \in Nat /\ x >= 2
    BY <1>1
  <2> HIDE DEF x
  <2>2. x \div 2 \in Nat /\ x \div 2 >= 1
    BY <2>1
  <2> QED BY <2>2 DEF x
<1> QED BY <1>2 DEF IntakePosition

LEMMA IntakeKept ==
  ASSUME FilesInv, NEW b \in Boxes, NEW n \in Nat,
         NEW moved \in SUBSET DOMAIN table, Intake(b, n, moved)
  PROVE  FilesInv' /\ (~Relocations => result' = "done")
<1> DEFINE new == (used + 1)..(used + n)
           row(f) == [box |-> b, position |-> IntakePosition(b, f - used),
                      archived |-> FALSE]
           there == [f \in DOMAIN table |->
                       IF f \in moved THEN [table[f] EXCEPT !.box = b] ELSE table[f]]
           S == [f \in DOMAIN there \cup new |-> IF f \in new THEN row(f) ELSE there[f]]
           B == {b} \cup {table[f].box : f \in moved}
<1>0. PICK s, bs, home, P : s = S /\ bs = B /\ home = Home(s, bs) /\ P = table
  OBVIOUS
<1>1. PICK pos : pos \in Orders(s, home, moved) /\ Write(Persist(s, home, pos))
  BY <1>0 DEF Intake, With
<1>2. /\ new \subseteq Files /\ MayTake(b, moved) /\ used' = used + n
      /\ used \in Nat
  BY Zenon DEF Intake, FilesInv
<1>3. \A f \in new : f \in Nat /\ f - used \in Nat \ {0} /\ f \notin DOMAIN P
  BY <1>0, <1>2 DEF FilesInv
<1>4. LastPosition(b) \in Nat
  BY LastPositionOf
<1>5. \A f \in new : row(f) \in Row /\ row(f).box = b
                     /\ row(f).position > LastPosition(b)
  <2> SUFFICES ASSUME NEW f \in new
               PROVE  row(f) \in Row /\ row(f).box = b
                      /\ row(f).position > LastPosition(b)
    OBVIOUS
  <2>1. IntakePosition(b, f - used) \in Nat /\ IntakePosition(b, f - used) > LastPosition(b)
    BY <1>3, <1>4, IntakePositionNext
  <2> QED BY <1>4, <2>1 DEF Row
<1>6. /\ DOMAIN s = DOMAIN P \cup new /\ s = [f \in DOMAIN s |-> s[f]]
      /\ \A f \in new : s[f] = row(f)
      /\ \A f \in moved : s[f] = [P[f] EXCEPT !.box = b]
      /\ \A f \in DOMAIN P \ moved : s[f] = P[f]
  BY <1>0, <1>3
<1>7. \A f \in moved : /\ s[f] \in Row /\ s[f].box = b
                       /\ s[f].position = P[f].position
  BY <1>0, <1>6 DEF FilesInv, Row
<1>8. \A f \in DOMAIN P : P[f] \in Row
  BY <1>0 DEF FilesInv
<1> HIDE DEF row
<1>9. Within(P, s, bs)
  <2>1. IsFiniteSet(new) /\ IsFiniteSet(DOMAIN P)
    <3>1. used + 1 \in Int /\ used + n \in Int
      BY <1>2
    <3>2. IsFiniteSet(new)
      BY <3>1, FS_Interval
    <3> QED BY <1>0, <3>2, FinitelyManyFiles
  <2>2. IsFiniteSet(DOMAIN s)
    <3>1. IsFiniteSet(DOMAIN P \cup new)
      <4> HIDE DEF new
      <4> QED BY <2>1, FS_Union
    <3>2. DOMAIN s = DOMAIN P \cup new
      BY <1>6
    <3> QED BY <3>1, <3>2
  <2>3. DOMAIN P \subseteq Files
    BY <1>0 DEF FilesInv
  <2>4. \A g \in DOMAIN P \ moved : s[g].box \notin bs => s[g] = P[g]
    BY <1>6
  <2>5. \A g \in DOMAIN s : s[g].box \notin bs => g \in DOMAIN P /\ s[g] = P[g]
    <3>1. b \in bs
      BY <1>0
    <3>2. \A g \in new : s[g].box = b
      BY <1>5, <1>6
    <3> QED BY <1>6, <1>7, <2>4, <3>1, <3>2
  <2>6. \A g \in DOMAIN s : s[g] \in Row
    BY <1>5, <1>6, <1>7, <1>8
  <2>7. \A g \in DOMAIN P : s[g].position = P[g].position
    BY <1>6, <1>7
  <2> HIDE DEF new
  <2> QED BY <1>2, <1>6, <2>2, <2>3, <2>5, <2>6, <2>7 DEF Within
<1>10. Ordered(P, s, home, pos)
  BY <1>0, <1>1, <1>9, HomeOrdered
<1>11. Separate(P) /\ ActivesLead(P, DOMAIN P \ DOMAIN home)
  BY <1>0 DEF FilesInv, ActivesLead
<1>12. Wrote(Settled(s, home, pos)) /\ (Unopposed(P, s) => result' = "done")
  BY <1>0, <1>1, <1>6, <1>10, <1>11, OrderWritten
<1>13. used' \in Nat /\ used <= used' /\ \A f \in DOMAIN s : f <= used'
  BY <1>0, <1>2, <1>6, FilesAssumption DEF FilesInv
<1>14. FilesInv'
  BY <1>10, <1>11, <1>12, <1>13, WrittenKept
<1>15. ASSUME ~Relocations
       PROVE  Unopposed(P, s)
  <2> SUFFICES ASSUME NEW f \in DOMAIN s, NEW g \in DOMAIN P, f # g,
                      f \in DOMAIN P => Place(P, f) # Place(s, f)
               PROVE  Place(P, g) # Place(s, f)
    BY DEF Unopposed
  <2>1. CASE f \in new
    <3>1. P[g].box = b => P[g].position <= LastPosition(b)
      BY <1>0, LastPositionOf
    <3>2. s[f].box = b /\ s[f].position > LastPosition(b)
      BY <1>5, <1>6, <2>1
    <3>3. P[g].position \in Nat /\ s[f].position \in Nat
      BY <1>5, <1>6, <1>8, <2>1 DEF Row
    <3> QED BY <1>4, <3>1, <3>2, <3>3, SamePlace
  <2>2. CASE f \in moved
    <3>1. P[g].box # b
      BY <1>0, <1>2, <1>15, <2>2 DEF MayTake, FilesIn
    <3> QED BY <1>7, <2>2, <3>1, SamePlace
  <2>3. CASE f \in DOMAIN P \ moved
    BY <1>6, <2>3 DEF Place
  <2> QED BY <1>6, <2>1, <2>2, <2>3
<1> QED BY <1>12, <1>14, <1>15

LEMMA FilesKept ==
  ASSUME FilesInv, [Next]_vars
  PROVE  FilesInv' /\ (~Relocations /\ result = "done" => result' = "done")
<1>1. ASSUME NEW b \in Boxes, NEW p \in Files, Create(b, p)
      PROVE  FilesInv' /\ result' = "done"
  BY <1>1, CreateKept
<1>2. ASSUME NEW f \in DOMAIN table,
             \/ \E b \in Boxes, p \in Files : Move(f, b, p)
             \/ Archive(f)
             \/ \E p \in Files : Restore(f, p)
             \/ Drop(f)
      PROVE  FilesInv' /\ result' = "done"
  BY <1>2, MoveKept, ArchiveKept, RestoreKept, DropKept
<1>3. ASSUME NEW b \in Boxes, NEW n \in 0..MaxIntake,
             NEW moved \in SUBSET DOMAIN table, Intake(b, n, moved)
      PROVE  FilesInv' /\ (~Relocations => result' = "done")
  <2>1. n \in Nat
    OBVIOUS
  <2> QED BY <1>3, <2>1, IntakeKept
<1>4. CASE UNCHANGED vars
  <2>1. Separate(table)' /\ ActivesLead(table, DOMAIN table)'
    BY <1>4 DEF FilesInv, vars, Separate, ActivesLead
  <2> QED BY <1>4, <2>1 DEF FilesInv, vars
<1> QED BY <1>1, <1>2, <1>3, <1>4 DEF Next

LEMMA FilesStart == Init => FilesInv
<1> SUFFICES ASSUME Init PROVE FilesInv
  OBVIOUS
<1>1. table = << >> /\ DOMAIN table = {} /\ used = 0 /\ result = "done"
  BY DEF Init
<1>2. table = [f \in DOMAIN table |-> table[f]]
  BY <1>1
<1>3. Separate(table) /\ ActivesLead(table, DOMAIN table)
  BY <1>1 DEF Separate, ActivesLead
<1> QED BY <1>1, <1>2, <1>3 DEF FilesInv

\* In every box the active files come before the archived ones, after any
\* sequence of file operations, intakes and deletions, of any length and for
\* any number of boxes and files.
THEOREM ActiveFilesFirst == Spec => []ActiveFirst
<1>1. FilesInv /\ [Next]_vars => FilesInv'
  BY FilesKept
<1>2. FilesInv => ActiveFirst
  BY DEF FilesInv, ActivesLead, ActiveFirst
<1> QED BY <1>1, <1>2, FilesStart, PTL DEF Spec

\* As long as intake moves files only into a box that holds none, no flush
\* of any operation meets the unique constraint half-way: the detour of
\* _persist_orders is enough, whatever order is written.
THEOREM FlushesNeverCollide ==
  ASSUME ~Relocations
  PROVE  Spec => []NoTransientCollision
<1> DEFINE I == FilesInv /\ result = "done"
<1>1. Init => I
  BY FilesStart DEF Init
<1>2. I /\ [Next]_vars => I'
  BY FilesKept
<1>3. I => NoTransientCollision
  BY DEF NoTransientCollision
<1> QED BY <1>1, <1>2, <1>3, PTL DEF Spec

(***************************************************************************)
(*                           THE RECOMMENDATION                            *)
(***************************************************************************)

LEMMA PlanningType ==
  ASSUME NEW p \in Planning
  PROVE  /\ p.minimum \in Nat /\ p.capacity \in Nat
         /\ p.lead \in Nat /\ p.safety \in Nat
         /\ p.weight30 \in Nat /\ p.weight90 \in Nat
         /\ p.adjustment \in Int
<1>1. /\ p.minimum \in Nat /\ p.capacity \in Nat
      /\ p.adjustment \in Int
  BY DEF Planning
<1>2. p.lead \in Nat
  <2>1. p.lead \in 0..365  BY DEF Planning
  <2> QED  BY <2>1
<1>3. p.safety \in Nat
  <2>1. p.safety \in 0..500  BY DEF Planning
  <2> QED  BY <2>1
<1>4. p.weight30 \in Nat
  <2>1. p.weight30 \in 0..1000  BY DEF Planning
  <2> QED  BY <2>1
<1>5. p.weight90 \in Nat
  <2>1. p.weight90 \in 0..1000  BY DEF Planning
  <2> QED  BY <2>1
<1> QED  BY <1>1, <1>2, <1>3, <1>4, <1>5

LEMMA CeilType ==
  ASSUME NEW n \in Nat, NEW d \in Nat \ {0}
  PROVE  CeilOf(n, d) \in Nat
BY SMT DEF CeilOf

\* The quantities a suggestion compares are all numbers of boxes.
LEMMA SuggestionType ==
  ASSUME NEW p \in Planning, NEW o \in Observed, NEW x \in Nat
  PROVE  /\ SafetyStock(p, x) \in Nat
         /\ Target(p, x) \in Nat
         /\ CapacityAvailable(p, o) \in Nat
         /\ InboundSuggestion(p, o, x) \in Nat
<1>1. SafetyStock(p, x) \in Nat
  <2>1. x * p.safety \in Nat  BY PlanningType
  <2> QED  BY <2>1, CeilType DEF SafetyStock
<1>2. Target(p, x) \in Nat
  BY <1>1, PlanningType DEF Target, AtLeast0
<1>3. CapacityAvailable(p, o) \in Nat
  BY PlanningType DEF CapacityAvailable, AtLeast0, Observed
<1>4. InboundSuggestion(p, o, x) \in Nat
  BY <1>2, <1>3, PlanningType DEF InboundSuggestion, Missing, Least,
            AtLeast0, Observed
<1> QED  BY <1>1, <1>2, <1>3, <1>4

\* Whoever orders what is suggested and asks again is told to order nothing:
\* the open request counts in full, on the way to the target and to the
\* capacity alike.  (requests.py: raw_inbound and capacity_available both
\* subtract pending_inbound.)
THEOREM OrderedOnce ==
  ASSUME NEW p \in Planning, NEW o \in Observed, NEW x \in Nat
  PROVE  InboundSuggestion(p, [o EXCEPT !.pending =
                                 @ + InboundSuggestion(p, o, x)], x) = 0
<1> DEFINE s == InboundSuggestion(p, o, x)
           after == [o EXCEPT !.pending = @ + s]
<1>1. s \in Nat /\ Target(p, x) \in Nat  BY SuggestionType
<1>2. /\ after.pending = o.pending + s
      /\ after.available = o.available
      /\ after.occupied = o.occupied
      /\ after.returning = o.returning
      /\ ForecastApplied(p, after) <=> ForecastApplied(p, o)
  BY DEF Observed, ForecastApplied, EnoughHistory
<1>3. CASE ForecastApplied(p, o)
  <2>1. s = Least(Missing(Target(p, x), o), CapacityAvailable(p, o))
    BY <1>3 DEF InboundSuggestion
  <2>2. \/ Missing(Target(p, x), after) = 0
        \/ CapacityAvailable(p, after) = 0
    BY <1>1, <1>2, <2>1, PlanningType DEF Least, Missing, CapacityAvailable,
            AtLeast0, Observed
  <2>3. /\ Missing(Target(p, x), after) \in Nat
        /\ CapacityAvailable(p, after) \in Nat
    BY <1>1, <1>2, PlanningType DEF Missing, CapacityAvailable, AtLeast0,
            Observed
  <2> QED  BY <1>2, <1>3, <2>2, <2>3 DEF InboundSuggestion, Least
<1>4. CASE ~ForecastApplied(p, o)
  BY <1>1, <1>2, <1>4, PlanningType DEF InboundSuggestion, Missing,
            AtLeast0, Observed
<1> QED  BY <1>3, <1>4

\* Boxes that arrive in stock as their request is completed change nothing:
\* they leave pending_inbound and enter current_available and
\* current_occupied together.  (Boxes that arrive into quarantine are
\* occupied and not available, and do reopen the gap.)
THEOREM ArrivalNeutral ==
  ASSUME NEW p \in Planning, NEW o \in Observed, NEW x \in Nat,
         NEW k \in 0..o.pending
  PROVE  InboundSuggestion(p, [o EXCEPT !.pending = @ - k,
                                        !.available = @ + k,
                                        !.occupied = @ + k], x)
           = InboundSuggestion(p, o, x)
<1> DEFINE after == [o EXCEPT !.pending = @ - k, !.available = @ + k,
                              !.occupied = @ + k]
<1>1. Target(p, x) \in Nat  BY SuggestionType
<1>2. /\ after.pending = o.pending - k
      /\ after.available = o.available + k
      /\ after.occupied = o.occupied + k
      /\ after.returning = o.returning
      /\ ForecastApplied(p, after) <=> ForecastApplied(p, o)
  BY DEF Observed, ForecastApplied, EnoughHistory
<1>3. /\ Missing(Target(p, x), after) = Missing(Target(p, x), o)
      /\ Missing(p.minimum, after) = Missing(p.minimum, o)
      /\ CapacityAvailable(p, after) = CapacityAvailable(p, o)
  BY <1>1, <1>2, PlanningType DEF Missing, CapacityAvailable, Observed
<1> QED  BY <1>2, <1>3 DEF InboundSuggestion

\* A forecast never overfills the warehouse: what is suggested, what is on
\* its way and what is there fit once the scheduled returns have left.  (The
\* fallback suggestion has no such cap, in the code as here.)
THEOREM ForecastFits ==
  ASSUME NEW p \in Planning, NEW o \in Observed, NEW x \in Nat,
         ForecastApplied(p, o), InboundSuggestion(p, o, x) > 0
  PROVE  o.occupied + o.pending + InboundSuggestion(p, o, x)
           <= p.capacity + o.returning
<1>1. Target(p, x) \in Nat  BY SuggestionType
<1> QED  BY <1>1, PlanningType DEF InboundSuggestion, Least, Missing,
            CapacityAvailable, AtLeast0, Observed

\* Unless the capacity caps it or a negative adjustment lowers it, the
\* suggestion restores the minimum the warehouse's owner asked for: neither
\* too little history nor the forecast ever orders less than that.
THEOREM MinimumRestored ==
  ASSUME NEW p \in Planning, NEW o \in Observed, NEW x \in Nat,
         ~CapacityCapApplied(p, o, x), p.adjustment >= 0
  PROVE  o.available + o.pending + InboundSuggestion(p, o, x) >= p.minimum
<1>1. SafetyStock(p, x) \in Nat /\ Target(p, x) \in Nat  BY SuggestionType
<1>2. Target(p, x) >= p.minimum
  BY <1>1, PlanningType DEF Target, AtLeast0
<1>3. CASE ForecastApplied(p, o)
  <2>1. InboundSuggestion(p, o, x) = Missing(Target(p, x), o)
    BY <1>1, <1>3, PlanningType DEF CapacityCapApplied, InboundSuggestion,
            Least, Missing, CapacityAvailable, AtLeast0, Observed
  <2> QED  BY <1>1, <1>2, <2>1, PlanningType DEF Missing, AtLeast0, Observed
<1>4. CASE ~ForecastApplied(p, o)
  BY <1>4, PlanningType DEF InboundSuggestion, Missing, AtLeast0, Observed
<1> QED  BY <1>3, <1>4

\* Raising the minimum of a warehouse never lowers its suggestion.
THEOREM MinimumMonotone ==
  ASSUME NEW p \in Planning, NEW o \in Observed, NEW x \in Nat, NEW k \in Nat
  PROVE  InboundSuggestion(p, o, x)
           <= InboundSuggestion([p EXCEPT !.minimum = @ + k], o, x)
<1> DEFINE q == [p EXCEPT !.minimum = @ + k]
<1>1. /\ q.minimum = p.minimum + k
      /\ q.adjustment = p.adjustment
      /\ SafetyStock(q, x) = SafetyStock(p, x)
      /\ CapacityAvailable(q, o) = CapacityAvailable(p, o)
      /\ ForecastApplied(q, o) <=> ForecastApplied(p, o)
  BY PlanningType DEF SafetyStock, CapacityAvailable, ForecastApplied,
            Configured
<1>2. SafetyStock(p, x) \in Nat /\ CapacityAvailable(p, o) \in Nat
  BY SuggestionType
<1>3. /\ Target(p, x) \in Nat
      /\ Target(q, x) \in Nat
      /\ Target(p, x) <= Target(q, x)
  BY <1>1, <1>2, PlanningType DEF Target, AtLeast0
<1>4. /\ Missing(Target(p, x), o) <= Missing(Target(q, x), o)
      /\ Missing(p.minimum, o) <= Missing(q.minimum, o)
      /\ Missing(Target(p, x), o) \in Nat /\ Missing(Target(q, x), o) \in Nat
  BY <1>1, <1>3, PlanningType DEF Missing, AtLeast0, Observed
<1> QED  BY <1>1, <1>2, <1>4 DEF InboundSuggestion, Least

\* The reason shown for falling back to the minimum is worked out apart from
\* the decision to fall back; the two always agree, and a forecast is never
\* shown with insufficient confidence.
THEOREM FallbackExplained ==
  ASSUME NEW p \in Planning, NEW o \in Observed
  PROVE  /\ FallbackReason(p, o) = "none" <=> ForecastApplied(p, o)
         /\ ForecastApplied(p, o) => ForecastConfidence(o) # "insufficient"
BY DEF FallbackReason, ForecastApplied, EnoughHistory, ForecastConfidence,
       Observed

\* Demand and unit are whole numbers, and the unit is never zero.
LEMMA DemandType ==
  ASSUME NEW p \in Planning, NEW o \in Observed
  PROVE  /\ DemandOver(p, o) \in Nat
         /\ DemandUnit(p) \in Nat /\ DemandUnit(p) >= 90
<1>1. /\ o.month \in Nat /\ o.quarter \in Nat
      /\ p.weight30 + p.weight90 > 0
  BY DEF Observed, Planning
<1>2. /\ o.month * p.weight30 \in Nat
      /\ o.quarter * p.weight90 \in Nat
  BY <1>1, PlanningType
<1>3. 3 * o.month * p.weight30 + o.quarter * p.weight90 \in Nat
  BY <1>1, <1>2, PlanningType
<1>4. DemandOver(p, o) \in Nat
  BY <1>3, PlanningType DEF DemandOver
<1> QED  BY <1>1, <1>4, PlanningType DEF DemandUnit

\* Whatever the decimals do, there is a demand, and two computations of it
\* differ by one box at most.
THEOREM DemandCovered ==
  ASSUME NEW p \in Planning, NEW o \in Observed
  PROVE  /\ LeadTimeDemands(p, o) # {}
         /\ \A x, y \in LeadTimeDemands(p, o) : y <= x + 1
<1> DEFINE n == DemandOver(p, o)
           d == DemandUnit(p)
<1>1. n \in Nat /\ d \in Nat /\ d >= 90  BY DemandType
<1> HIDE DEF n, d
<1>2. ASSUME n = 0  PROVE LeadTimeDemands(p, o) # {}
  <2>1. 0 \in LeadTimeDemands(p, o)
    BY <1>1, <1>2 DEF LeadTimeDemands, n, d
  <2> QED  BY <2>1
<1>3. ASSUME n > 0  PROVE LeadTimeDemands(p, o) # {}
  <2> DEFINE q == (n - 1) \div d
  <2>1. /\ q \in Nat
        /\ q * d <= n - 1
        /\ n - 1 < (q + 1) * d
    BY <1>1, <1>3
  <2> HIDE DEF q
  <2>2. q <= q * d  BY <1>1, <2>1
  <2>3. /\ (q + 1) * d = q * d + d /\ ((q + 1) - 1) * d = q * d
        /\ q * d \in Nat
    BY <1>1, <2>1
  <2>4. q + 1 \in 0..n  BY <1>1, <1>3, <2>1, <2>2, <2>3
  <2>5. n <= (q + 1) * d  BY <1>1, <2>1, <2>3
  <2>6. ((q + 1) - 1) * d <= n  BY <1>1, <2>1, <2>3
  <2>7. q + 1 \in LeadTimeDemands(p, o)
    BY <2>4, <2>5, <2>6 DEF LeadTimeDemands, n, d
  <2> QED  BY <2>7
<1>4. ASSUME NEW x \in LeadTimeDemands(p, o), NEW y \in LeadTimeDemands(p, o)
      PROVE  y <= x + 1
  <2>1. /\ x \in Nat /\ y \in Nat
        /\ n <= x * d /\ (y - 1) * d <= n
    BY <1>1 DEF LeadTimeDemands, n, d
  <2>2. (y - 1) * d <= x * d  BY <1>1, <2>1
  <2>3. y - 1 <= x  BY <1>1, <2>1, <2>2
  <2> QED  BY <2>1, <2>3
<1> QED  BY <1>1, <1>2, <1>3, <1>4

\* A warehouse without lead time has no demand to cover, whatever its
\* history and whatever the rounding does.
THEOREM NoLeadNoDemand ==
  ASSUME NEW p \in Planning, NEW o \in Observed, p.lead = 0
  PROVE  LeadTimeDemands(p, o) \subseteq {0}
<1>1. 3 * o.month * p.weight30 + o.quarter * p.weight90 \in Int
  BY PlanningType DEF Observed
<1>2. DemandOver(p, o) = 0
  BY <1>1 DEF DemandOver
<1> QED  BY <1>2 DEF LeadTimeDemands

\* What is observed is consistent: the available boxes are among the occupied
\* ones, the boxes eligible for return too, and the consumption of a month is
\* part of that of the quarter; duplicated audit rows count in neither.
THEOREM ObservationConsistent ==
  ASSUME NEW boxes, IsFiniteSet(boxes), NEW requests,
         NEW events, IsFiniteSet(events), NEW w, NEW now, now.day \in Int,
         NEW leadEnd
  PROVE  LET o == Observe(boxes, requests, events, w, now, leadEnd) IN
         /\ o.available <= o.occupied
         /\ o.eligible <= o.occupied
         /\ o.month <= o.quarter
<1>1. \A S \in SUBSET Occupying : IsFiniteSet(Stock(boxes, w, S))
  BY FS_Subset DEF Stock
<1>2. Cardinality(Stock(boxes, w, Available))
        <= Cardinality(Stock(boxes, w, Occupying))
  <2>1. /\ Stock(boxes, w, Available) \subseteq Stock(boxes, w, Occupying)
        /\ IsFiniteSet(Stock(boxes, w, Occupying))
    BY <1>1 DEF Stock, Occupying
  <2> QED  BY <2>1, FS_Subset
<1>3. Cardinality({b \in Stock(boxes, w, {"ready_to_return"}) :
                     b.id \notin Allocated(requests, w)})
        <= Cardinality(Stock(boxes, w, Occupying))
  <2>1. /\ {b \in Stock(boxes, w, {"ready_to_return"}) :
              b.id \notin Allocated(requests, w)}
             \subseteq Stock(boxes, w, Occupying)
        /\ IsFiniteSet(Stock(boxes, w, Occupying))
    BY <1>1 DEF Stock, Occupying, Unavailable
  <2> QED  BY <2>1, FS_Subset
<1>4. Cardinality(Consumption(events, w, now, 30))
        <= Cardinality(Consumption(events, w, now, 90))
  <2>1. Consumption(events, w, now, 30) \subseteq
          Consumption(events, w, now, 90)
    BY DEF Consumption, Window, Distinct
  <2>2. IsFiniteSet(Consumption(events, w, now, 90))
    <3> DEFINE E == {e \in events : /\ e.at = w
                                    /\ e.from \in Available
                                    /\ e.to \in Unavailable
                                    /\ e.day \in Window(now, 90)
                                    /\ e.time <= now.time}
               f == [e \in E |-> [box |-> e.box, from |-> e.from,
                                  to |-> e.to, time |-> e.time,
                                  day |-> e.day]]
    <3>1. IsFiniteSet(E)  BY FS_Subset
    <3>2. f \in Surjection(E, Consumption(events, w, now, 90))
      BY DEF Surjection, Consumption, Distinct
    <3> QED  BY <3>1, <3>2, FS_Surjection DEF ExistsSurjection
  <2> QED  BY <2>1, <2>2, FS_Subset
<1> QED  BY <1>2, <1>3, <1>4 DEF Observe
=============================================================================
