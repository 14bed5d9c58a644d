----------------------- MODULE InventoryAlertsProofs -----------------------
(***************************************************************************)
(* How often the opening e-mail of an incident is sent, for any number of  *)
(* processes that dispatch it.  Two arguments meet in the invariant:       *)
(*  - every call of the transport has an attempt of its own, which is      *)
(*    reserved before the call; so the acceptances and the calls under way *)
(*    are never more than the attempts (AttemptsReserved), however many    *)
(*    processes die or lose their claim;                                   *)
(*  - as long as nothing of that kind happens, a pass owns the row it      *)
(*    works on and its claim is not too old (ClaimsHeld), so nobody else   *)
(*    takes it, and what the transport accepted is recorded or about to be *)
(*    (AcceptanceKnown): nobody sends again.                               *)
(***************************************************************************)
EXTENDS InventoryAlerts, FiniteSetTheorems, SequenceTheorems, TLAPS

-----------------------------------------------------------------------------
(* The alerts table.  It is a sequence of rows; steps rewrite it row by    *)
(* row or append to it.                                                    *)

LEMMA TableRows ==
  ASSUME TypeOK
  PROVE  /\ Len(alert) \in 0..MaxIncidents /\ DOMAIN alert = 1..Len(alert)
         /\ DOMAIN alert \subseteq Incidents
         /\ alert \in [DOMAIN alert -> AlertRow]
<1>1. /\ Len(alert) \in Nat /\ DOMAIN alert = 1..Len(alert)
      /\ alert \in [1..Len(alert) -> AlertRow]
  BY LenProperties DEF TypeOK
<1> QED BY <1>1, ConstantsAssumption DEF TypeOK, Incidents

LEMMA TableRewritten ==
  ASSUME TypeOK, NEW t, t \in [DOMAIN alert -> AlertRow]
  PROVE  /\ t \in Seq(AlertRow) /\ Len(t) = Len(alert)
         /\ DOMAIN t = DOMAIN alert
<1>1. DOMAIN alert = 1..Len(alert) /\ Len(alert) \in Nat
  BY TableRows
<1>2. t \in [1..Len(alert) -> AlertRow]
  BY <1>1
<1>3. t \in Seq(AlertRow)
  BY <1>1, <1>2
<1>4. DOMAIN t = 1..Len(t) /\ Len(t) \in Nat
  BY <1>3, LenProperties
<1> QED BY <1>1, <1>2, <1>3, <1>4

LEMMA Attempts ==
  ASSUME NEW r \in AlertRow
  PROVE  /\ r.tries \in Seq(BOOLEAN) /\ Len(r.tries) \in 0..MaxAttempts
         /\ DOMAIN r.tries = 1..Len(r.tries)
<1>1. PICK n \in 0..MaxAttempts : r.tries \in [1..n -> BOOLEAN]
  BY DEF AlertRow
<1>2. r.tries \in Seq(BOOLEAN)
  BY <1>1
<1>3. Len(r.tries) \in Nat /\ DOMAIN r.tries = 1..Len(r.tries)
  BY <1>2, LenProperties
<1> QED BY <1>1, <1>2, <1>3

\* A row with other attempts is a row.
LEMMA RowTyped ==
  ASSUME NEW r, r \in [warehouse : Warehouses, resolved : BOOLEAN, notified : BOOLEAN,
                       claim : Senders \cup {None}, age : 0..Timeout + 1,
                       tries : Seq(BOOLEAN)],
         Len(r.tries) <= MaxAttempts
  PROVE  r \in AlertRow
<1>1. /\ Len(r.tries) \in Nat /\ r.tries \in [1..Len(r.tries) -> BOOLEAN]
  BY LenProperties
<1>2. Len(r.tries) \in 0..MaxAttempts
  BY <1>1, ConstantsAssumption
<1>3. r.tries \in UNION {[1..n -> BOOLEAN] : n \in 0..MaxAttempts}
  BY <1>1, <1>2
<1> QED BY <1>3 DEF AlertRow

\* Another owner, age or mark leaves the attempts of a row alone.
LEMMA RowMarked ==
  ASSUME NEW r \in AlertRow, NEW c \in Senders \cup {None}, NEW g \in 0..Timeout + 1,
         NEW n \in BOOLEAN
  PROVE  /\ [r EXCEPT !.claim = c] \in AlertRow
         /\ [r EXCEPT !.claim = c, !.age = g] \in AlertRow
         /\ [r EXCEPT !.claim = c, !.notified = n] \in AlertRow
         /\ [r EXCEPT !.age = g] \in AlertRow
<1>1. PICK T : AlertRow = [warehouse : Warehouses, resolved : BOOLEAN, notified : BOOLEAN,
                           claim : Senders \cup {None}, age : 0..Timeout + 1, tries : T]
  BY DEF AlertRow
<1> QED BY <1>1

LEMMA Appended ==
  ASSUME NEW q \in Seq(BOOLEAN)
  PROVE  /\ Append(q, FALSE) \in Seq(BOOLEAN) /\ Len(Append(q, FALSE)) = Len(q) + 1
         /\ DOMAIN Append(q, FALSE) = 1..Len(q) + 1
         /\ \A k \in 1..Len(q) : Append(q, FALSE)[k] = q[k]
         /\ Append(q, FALSE)[Len(q) + 1] = FALSE
<1>1. /\ Append(q, FALSE) \in Seq(BOOLEAN) /\ Len(Append(q, FALSE)) = Len(q) + 1
      /\ \A k \in 1..Len(q) : Append(q, FALSE)[k] = q[k]
      /\ Append(q, FALSE)[Len(q) + 1] = FALSE
  <2> DEFINE elt == FALSE
             seq == q
             S == BOOLEAN
  <2>1. seq \in Seq(S) /\ elt \in S
    OBVIOUS
  <2> HIDE DEF elt, seq, S
  <2>2. /\ Append(seq, elt) \in Seq(S) /\ Len(Append(seq, elt)) = Len(seq) + 1
        /\ \A k \in 1..Len(seq) : Append(seq, elt)[k] = seq[k]
        /\ Append(seq, elt)[Len(seq) + 1] = elt
    BY <2>1, AppendProperties
  <2> QED BY <2>2, Zenon DEF elt, seq, S
<1>2. DOMAIN Append(q, FALSE) = 1..Len(Append(q, FALSE))
  BY <1>1, LenProperties
<1> QED BY <1>1, <1>2

LEMMA OpenedTyped ==
  ASSUME NEW w \in Warehouses
  PROVE  Opened(w) \in AlertRow /\ Opened(w).tries = <<>> /\ Len(<<>>) = 0
<1>1. <<>> \in Seq(BOOLEAN) /\ Len(<<>>) = 0
  BY EmptySeq
<1>2. Opened(w) \in [warehouse : Warehouses, resolved : BOOLEAN, notified : BOOLEAN,
                     claim : Senders \cup {None}, age : 0..Timeout + 1,
                     tries : Seq(BOOLEAN)]
  BY <1>1, ConstantsAssumption DEF Opened
<1>3. Len(Opened(w).tries) <= MaxAttempts
  BY <1>1, ConstantsAssumption DEF Opened
<1> QED BY <1>1, <1>2, <1>3, RowTyped DEF Opened

-----------------------------------------------------------------------------
(* What a step does to the rows it does not claim or try: they are resolved, *)
(* or others are appended.                                                 *)
RowsKept ==
  /\ DOMAIN alert \subseteq DOMAIN alert'
  /\ \A a \in DOMAIN alert :
       /\ alert'[a].tries = alert[a].tries
       /\ alert'[a].claim = alert[a].claim /\ alert'[a].age = alert[a].age

TableTyped == alert \in Seq(AlertRow) /\ Len(alert) <= MaxIncidents

LEMMA ResolvedRows ==
  ASSUME TypeOK, NEW S,
         alert' = [a \in DOMAIN alert |->
                     [alert[a] EXCEPT !.resolved = @ \/ a \in S]]
  PROVE  TableTyped' /\ RowsKept
<1>1. \A a \in DOMAIN alert : alert[a] \in AlertRow
  BY TableRows
<1> DEFINE t == [a \in DOMAIN alert |->
                  [alert[a] EXCEPT !.resolved = @ \/ a \in S]]
<1>a. t \in [DOMAIN alert -> AlertRow]
  BY <1>1 DEF AlertRow
<1> HIDE DEF t
<1>2. alert' = t /\ t \in [DOMAIN alert -> AlertRow]
  BY <1>a DEF t
<1>3. TableTyped'
  BY <1>2, TableRewritten DEF TableTyped, TypeOK
<1>4. \A a \in DOMAIN alert :
        /\ alert'[a].tries = alert[a].tries
        /\ alert'[a].claim = alert[a].claim /\ alert'[a].age = alert[a].age
  BY <1>1 DEF AlertRow
<1> QED BY <1>2, <1>3, <1>4 DEF RowsKept

LEMMA CommittedRows ==
  ASSUME TypeOK, NEW e \in Evaluators, CommitEvaluation(e)
  PROVE  TableTyped' /\ RowsKept
<1> DEFINE new == evaluation[e].opens
           old == [a \in DOMAIN alert |->
                     [alert[a] EXCEPT !.resolved = @ \/ a \in evaluation[e].closes]]
           n == Cardinality(new)
<1>1. PICK rows \in [1..n -> {Opened(w) : w \in new}] : alert' = old \o rows
  BY DEF CommitEvaluation
<1>2. new \subseteq Warehouses
  BY DEF TypeOK, Evaluation
<1>3. n \in Nat
  BY <1>2, ConstantsAssumption, FS_Subset, FS_CardinalityType
<1>4. rows \in Seq(AlertRow) /\ Len(rows) = n
  <2>1. rows \in [1..n -> AlertRow]
    BY <1>2, OpenedTyped
  <2> QED BY <1>3, <2>1
<1>5. \A a \in DOMAIN alert : alert[a] \in AlertRow
  BY TableRows
<1>6. old \in [DOMAIN alert -> AlertRow]
  BY <1>5 DEF AlertRow
<1>7. old \in Seq(AlertRow) /\ Len(old) = Len(alert) /\ DOMAIN alert = 1..Len(alert)
      /\ Len(alert) \in Nat
  BY <1>6, TableRewritten, TableRows
<1>8. \A a \in DOMAIN alert :
        /\ old[a].tries = alert[a].tries
        /\ old[a].claim = alert[a].claim /\ old[a].age = alert[a].age
  BY <1>5 DEF AlertRow
<1>9. Len(alert) + n <= MaxIncidents
  BY DEF CommitEvaluation
<1> HIDE DEF old, n
<1>10. /\ alert' \in Seq(AlertRow) /\ Len(alert') = Len(alert) + n
       /\ \A a \in 1..Len(alert) : alert'[a] = old[a]
  <2>1. /\ old \o rows \in Seq(AlertRow)
        /\ Len(old \o rows) = Len(old) + Len(rows)
        /\ \A a \in 1..Len(old) + Len(rows) : (old \o rows)[a] =
              IF a <= Len(old) THEN old[a] ELSE rows[a - Len(old)]
    BY <1>4, <1>7, ConcatProperties
  <2> QED BY <1>1, <1>3, <1>4, <1>7, <2>1
<1>11. DOMAIN alert' = 1..Len(alert')
  BY <1>10, LenProperties
<1> QED BY <1>3, <1>7, <1>8, <1>9, <1>10, <1>11 DEF TableTyped, RowsKept

-----------------------------------------------------------------------------
(* The inductive invariant.                                                *)

Busy(s) == sender[s].phase # "next"
Calling(s) == sender[s].phase = "send"
Calls(s, a) == Calling(s) /\ sender[s].row = a

(* A pass works on a row of the table, on one of its attempts.             *)
PassesPlaced ==
  \A s \in Senders :
    /\ Busy(s) => sender[s].row \in DOMAIN alert
    /\ sender[s].phase \in {"send", "record"} =>
         sender[s].try \in 1..Len(alert[sender[s].row].tries)

(* The attempts of an incident whose call is under way.                    *)
Pending(a) == {sender[s].try : s \in {t \in Senders : Calls(t, a)}}

AttemptsReserved ==
  /\ \A s, t \in Senders : s # t /\ Calling(s) /\ Calling(t) =>
       sender[s].row # sender[t].row \/ sender[s].try # sender[t].try
  /\ \A a \in Incidents : a \notin DOMAIN alert => accepted[a] = 0
  /\ \A a \in DOMAIN alert :
       accepted[a] + Cardinality(Pending(a)) <= Len(alert[a].tries)

ClaimsHeld ==
  \A s \in Senders : Busy(s) =>
    Owns(s, sender[s].row) /\ alert[sender[s].row].age <= Timeout

Recording(s, a) == sender[s].phase = "record" /\ sender[s].row = a /\ sender[s].ok

(* An acceptance is in the table or with the pass that will put it there.  *)
AcceptanceKnown ==
  /\ \A s \in Senders : Calling(s) =>
       accepted[sender[s].row] = 0 /\ ~Succeeded(sender[s].row)
  /\ \A s \in Senders : sender[s].phase = "record" =>
       /\ ~Succeeded(sender[s].row)
       /\ accepted[sender[s].row] = IF sender[s].ok THEN 1 ELSE 0
  /\ \A a \in DOMAIN alert : accepted[a] > 0 =>
       /\ accepted[a] = 1
       /\ Succeeded(a) \/ \E s \in Senders : Recording(s, a)

MailInv == TypeOK /\ PassesPlaced /\ AttemptsReserved
           /\ (mishaps = 0 => ClaimsHeld /\ AcceptanceKnown)

-----------------------------------------------------------------------------
LEMMA PendingFinite ==
  ASSUME TypeOK, PassesPlaced, NEW a \in DOMAIN alert
  PROVE  /\ Pending(a) \subseteq 1..Len(alert[a].tries)
         /\ IsFiniteSet(Pending(a)) /\ Cardinality(Pending(a)) \in Nat
         /\ Len(alert[a].tries) \in 0..MaxAttempts
<1>1. alert[a] \in AlertRow
  BY TableRows
<1>2. Len(alert[a].tries) \in 0..MaxAttempts
  BY <1>1, Attempts
<1>3. Pending(a) \subseteq 1..Len(alert[a].tries)
  BY DEF Pending, Calls, Calling, PassesPlaced
<1>4. IsFiniteSet(1..Len(alert[a].tries))
  BY <1>2, FS_Interval
<1> QED BY <1>2, <1>3, <1>4, FS_Subset, FS_CardinalityType

\* A call that is under way, or whose result is not recorded, goes on.
CallsKept ==
  \A t \in Senders :
    /\ sender'[t].phase \in {"send", "record"} => sender'[t] = sender[t]
    /\ sender[t].phase = "record" => sender'[t] = sender[t] \/ mishaps' # 0

AttemptsKept ==
  /\ DOMAIN alert \subseteq DOMAIN alert'
  /\ \A a \in DOMAIN alert : alert'[a].tries = alert[a].tries

\* Whatever neither reserves nor makes nor records a call keeps the invariant,
\* as long as the claims of the passes are kept.
LEMMA NoCallKeeps ==
  ASSUME MailInv, TypeOK', AttemptsKept, CallsKept, accepted' = accepted,
         \A t \in Senders : Busy(t)' => sender'[t].row \in DOMAIN alert',
         mishaps' = 0 => mishaps = 0 /\ ClaimsHeld'
  PROVE  MailInv'
<1>0. TypeOK /\ PassesPlaced /\ AttemptsReserved
  BY DEF MailInv
<1>1. \A a \in DOMAIN alert : a \in DOMAIN alert' /\ alert'[a].tries = alert[a].tries
  BY DEF AttemptsKept
<1>2. PassesPlaced'
  <2> SUFFICES ASSUME NEW t \in Senders, sender'[t].phase \in {"send", "record"}
               PROVE  sender'[t].try \in 1..Len(alert'[sender'[t].row].tries)
    BY DEF PassesPlaced, Busy
  <2>1. sender'[t] = sender[t]
    BY DEF CallsKept
  <2>2. /\ sender[t].row \in DOMAIN alert
        /\ sender[t].try \in 1..Len(alert[sender[t].row].tries)
    BY <1>0, <2>1 DEF PassesPlaced, Busy
  <2> QED BY <1>1, <2>1, <2>2
<1>3. \A a \in DOMAIN alert' \ DOMAIN alert : a \in Incidents /\ Pending(a)' = {}
  <2> SUFFICES ASSUME NEW a \in DOMAIN alert' \ DOMAIN alert
               PROVE  a \in Incidents /\ Pending(a)' = {}
    OBVIOUS
  <2>1. a \in Incidents
    <3>1. Len(alert') \in 0..MaxIncidents /\ DOMAIN alert' = 1..Len(alert')
      BY LenProperties DEF TypeOK
    <3> QED BY <3>1, ConstantsAssumption DEF Incidents
  <2>2. \A t \in Senders : ~Calls(t, a)'
    BY <1>0 DEF Calls, Calling, CallsKept, PassesPlaced, Busy
  <2> QED BY <2>1, <2>2 DEF Pending
<1>4. ASSUME NEW a \in DOMAIN alert
      PROVE  Pending(a)' \subseteq Pending(a)
  BY DEF Pending, Calls, Calling, CallsKept
<1>5. AttemptsReserved'
  <2>1. ASSUME NEW s \in Senders, NEW t \in Senders, s # t, Calling(s)', Calling(t)'
        PROVE  sender'[s].row # sender'[t].row \/ sender'[s].try # sender'[t].try
    <3>1. sender'[s] = sender[s] /\ sender'[t] = sender[t]
      BY <2>1 DEF Calling, CallsKept
    <3> QED BY <1>0, <2>1, <3>1 DEF AttemptsReserved, Calling
  <2>2. ASSUME NEW a \in Incidents, a \notin DOMAIN alert'
        PROVE  accepted'[a] = 0
    BY <1>0, <1>1, <2>2 DEF AttemptsReserved
  <2>3. ASSUME NEW a \in DOMAIN alert'
        PROVE  accepted'[a] + Cardinality(Pending(a)') <= Len(alert'[a].tries)
    <3>1. CASE a \in DOMAIN alert
      <4>1. Cardinality(Pending(a)') <= Cardinality(Pending(a)) /\ Cardinality(Pending(a)') \in Nat
        BY <1>0, <1>4, <3>1, PendingFinite, FS_Subset, FS_CardinalityType
      <4>2. accepted[a] + Cardinality(Pending(a)) <= Len(alert[a].tries)
            /\ Len(alert[a].tries) \in Nat /\ Cardinality(Pending(a)) \in Nat
        BY <1>0, <3>1, PendingFinite DEF AttemptsReserved
      <4>3. accepted[a] \in Nat
        BY <1>0, <3>1, TableRows DEF TypeOK
      <4> QED BY <1>1, <3>1, <4>1, <4>2, <4>3
    <3>2. CASE a \notin DOMAIN alert
      <4>1. accepted[a] = 0 /\ Pending(a)' = {}
        BY <1>0, <1>3, <3>2 DEF AttemptsReserved
      <4>2. alert'[a] \in AlertRow
        BY <2>3, LenProperties DEF TypeOK
      <4>3. Len(alert'[a].tries) \in Nat
        BY <4>2, Attempts
      <4> QED BY <4>1, <4>3, FS_EmptySet
    <3> QED BY <3>1, <3>2
  <2> QED BY <2>1, <2>2, <2>3 DEF AttemptsReserved
<1>6. ASSUME mishaps' = 0
      PROVE  ClaimsHeld' /\ AcceptanceKnown'
  <2>1. mishaps = 0 /\ ClaimsHeld' /\ AcceptanceKnown
    BY <1>6 DEF MailInv
  <2>2. \A a \in DOMAIN alert : Succeeded(a)' <=> Succeeded(a)
    BY <1>1 DEF Succeeded
  <2>3. ASSUME NEW t \in Senders, Busy(t)
        PROVE  sender[t].row \in DOMAIN alert
    BY <1>0, <2>3 DEF PassesPlaced
  <2>4. ASSUME NEW t \in Senders, Calling(t)'
        PROVE  accepted'[sender'[t].row] = 0 /\ ~Succeeded(sender[t].row)'
    <3>1. sender'[t] = sender[t] /\ Calling(t) /\ Busy(t)
      BY <2>4 DEF Calling, Busy, CallsKept
    <3>2. accepted[sender[t].row] = 0 /\ ~Succeeded(sender[t].row)
      BY <2>1, <3>1 DEF AcceptanceKnown
    <3> QED BY <2>3, <3>1, <3>2, <1>1 DEF Succeeded
  <2>5. ASSUME NEW t \in Senders, sender'[t].phase = "record"
        PROVE  /\ ~Succeeded(sender[t].row)'
               /\ accepted'[sender'[t].row] = IF sender'[t].ok THEN 1 ELSE 0
    <3>1. sender'[t] = sender[t] /\ Busy(t)
      BY <2>5 DEF Busy, CallsKept
    <3>2. /\ ~Succeeded(sender[t].row)
          /\ accepted[sender[t].row] = IF sender[t].ok THEN 1 ELSE 0
      BY <2>1, <2>5, <3>1 DEF AcceptanceKnown
    <3> QED BY <2>3, <3>1, <3>2, <1>1 DEF Succeeded
  <2>6. ASSUME NEW a \in DOMAIN alert', accepted'[a] > 0
        PROVE  accepted'[a] = 1 /\ (Succeeded(a)' \/ \E t \in Senders : Recording(t, a)')
    <3>1. a \in DOMAIN alert
      BY <1>0, <1>3, <2>6 DEF AttemptsReserved
    <3>2. accepted[a] = 1 /\ (Succeeded(a) \/ \E t \in Senders : Recording(t, a))
      BY <2>1, <2>6, <3>1 DEF AcceptanceKnown
    <3>3. \A t \in Senders : Recording(t, a) => Recording(t, a)'
      BY <1>6 DEF Recording, CallsKept
    <3> QED BY <2>2, <3>1, <3>2, <3>3
  <2> QED BY <2>1, <2>4, <2>5, <2>6 DEF AcceptanceKnown
<1> QED BY <1>2, <1>5, <1>6 DEF MailInv

-----------------------------------------------------------------------------
(* Steps around the passes.                                                *)

LEMMA OutsideKeeps ==
  ASSUME MailInv, TableTyped', RowsKept, TypeOK', sender' = sender, accepted' = accepted,
         mishaps' = mishaps
  PROVE  MailInv'
<1>1. AttemptsKept /\ CallsKept
  BY DEF RowsKept, AttemptsKept, CallsKept
<1>2. \A t \in Senders : Busy(t)' => /\ Busy(t) /\ sender[t].row \in DOMAIN alert
                                     /\ sender'[t].row \in DOMAIN alert'
  BY DEF Busy, MailInv, PassesPlaced, RowsKept
<1>3. mishaps' = 0 => mishaps = 0 /\ ClaimsHeld'
  BY <1>2 DEF MailInv, ClaimsHeld, Owns, RowsKept
<1> QED BY <1>1, <1>2, <1>3, NoCallKeeps

LEMMA SameRows ==
  ASSUME TypeOK, alert' = alert
  PROVE  TableTyped' /\ RowsKept
BY DEF TypeOK, TableTyped, RowsKept

LEMMA EventTyped == TypeOK /\ Event => events' \in 0..MaxTrouble
BY ConstantsAssumption DEF TypeOK, Event

LEMMA AroundKeeps ==
  ASSUME MailInv, NEW w \in Warehouses,
         MoveStock(w) \/ Appoint(w) \/ ArchiveWarehouse(w) \/ RestoreWarehouse(w)
  PROVE  MailInv'
<1>0. TypeOK
  BY DEF MailInv
<1>1. CASE MoveStock(w)
  <2>1. TypeOK'
    BY <1>0, <1>1, EventTyped DEF MoveStock, TypeOK
  <2> QED BY <1>0, <1>1, <2>1, SameRows, OutsideKeeps DEF MoveStock
<1>2. CASE Appoint(w)
  <2>1. TypeOK'
    BY <1>0, <1>2, EventTyped DEF Appoint, TypeOK
  <2> QED BY <1>0, <1>2, <2>1, SameRows, OutsideKeeps DEF Appoint
<1>3. CASE ArchiveWarehouse(w)
  <2>1. TableTyped' /\ RowsKept
    BY <1>0, <1>3, ResolvedRows DEF ArchiveWarehouse
  <2>2. TypeOK'
    BY <1>0, <1>3, <2>1, EventTyped DEF ArchiveWarehouse, TypeOK, TableTyped
  <2> QED BY <1>3, <2>1, <2>2, OutsideKeeps DEF ArchiveWarehouse
<1>4. CASE RestoreWarehouse(w)
  <2>1. TypeOK'
    BY <1>0, <1>4 DEF RestoreWarehouse, TypeOK
  <2> QED BY <1>0, <1>4, <2>1, SameRows, OutsideKeeps DEF RestoreWarehouse
<1> QED BY <1>1, <1>2, <1>3, <1>4

LEMMA EvaluationKeeps ==
  ASSUME MailInv, NEW e \in Evaluators, EvaluationStep(e) \/ AbandonEvaluation(e)
  PROVE  MailInv'
<1>0. TypeOK
  BY DEF MailInv
<1>1. evaluation[e] \in Evaluation /\ AtRest \in Evaluation
  BY <1>0 DEF TypeOK, Evaluation, AtRest
<1>2. CASE BeginEvaluation(e)
  <2>1. [AtRest EXCEPT !.running = TRUE, !.seen = low \cap active, !.todo = active]
          \in Evaluation
    BY <1>0 DEF TypeOK, Evaluation, AtRest
  <2>2. events' \in 0..MaxTrouble
    BY <1>0, <1>2, EventTyped DEF BeginEvaluation, TypeOK
  <2>3. TypeOK'
    BY <1>0, <1>2, <2>1, <2>2 DEF BeginEvaluation, TypeOK, outside
  <2> QED BY <1>0, <1>2, <2>3, SameRows, OutsideKeeps DEF BeginEvaluation
<1>3. ASSUME NEW w \in Warehouses, Reconcile(e, w)
      PROVE  MailInv'
  <2>1. OpenOf(w) \subseteq Incidents
    BY <1>0, TableRows DEF OpenOf
  <2>2. /\ [evaluation[e] EXCEPT !.todo = @ \ {w}, !.closes = @ \cup OpenOf(w)] \in Evaluation
        /\ [evaluation[e] EXCEPT !.todo = @ \ {w}] \in Evaluation
        /\ [evaluation[e] EXCEPT !.todo = @ \ {w}, !.opens = @ \cup {w}] \in Evaluation
    BY <1>1, <2>1 DEF Evaluation
  <2>3. evaluation' \in [Evaluators -> Evaluation]
    BY <1>0, <1>3, <2>2 DEF Reconcile, TypeOK
  <2>4. TypeOK'
    BY <1>0, <1>3, <2>3 DEF Reconcile, TypeOK, outside
  <2> QED BY <1>0, <1>3, <2>4, SameRows, OutsideKeeps DEF Reconcile
<1>4. CASE CommitEvaluation(e)
  <2>1. TableTyped' /\ RowsKept
    BY <1>0, <1>4, CommittedRows
  <2>2. TypeOK'
    BY <1>0, <1>1, <1>4, <2>1 DEF CommitEvaluation, TypeOK, outside, TableTyped
  <2> QED BY <1>4, <2>1, <2>2, OutsideKeeps DEF CommitEvaluation
<1>5. CASE AbandonEvaluation(e)
  <2>1. TypeOK'
    BY <1>0, <1>1, <1>5, EventTyped DEF AbandonEvaluation, TypeOK, outside
  <2> QED BY <1>0, <1>5, <2>1, SameRows, OutsideKeeps DEF AbandonEvaluation
<1> QED BY <1>2, <1>3, <1>4, <1>5 DEF EvaluationStep

-----------------------------------------------------------------------------
(* Steps of a pass.                                                        *)

Alone(s) == /\ sender' \in [Senders -> Pass]
            /\ \A t \in Senders \ {s} : sender'[t] = sender[t]

NewPasses == {NewPass} \cup {[NewPass EXCEPT !.done = D] : D \in SUBSET Incidents}

LEMMA PassEnds ==
  ASSUME TypeOK, NEW s \in Senders, NEW p \in NewPasses,
         sender' = [sender EXCEPT ![s] = p]
  PROVE  Alone(s) /\ sender'[s].phase = "next"
<1>1. NewPass \in Pass
  BY ConstantsAssumption DEF NewPass, Pass, Phase
<1>2. p \in Pass /\ p.phase = "next"
  <2>1. CASE p = NewPass
    BY <1>1, <2>1 DEF NewPass
  <2>2. ASSUME NEW D \in SUBSET Incidents, p = [NewPass EXCEPT !.done = D]
        PROVE  p \in Pass /\ p.phase = "next"
    BY <1>1, <2>2 DEF NewPass, Pass
  <2> QED BY <2>1, <2>2 DEF NewPasses
<1> QED BY <1>2 DEF Alone, TypeOK

LEMMA OnwardEnds ==
  ASSUME TypeOK, NEW s \in Senders, Onward(s)
  PROVE  Alone(s) /\ sender'[s].phase = "next"
<1>1. sender[s].done \in SUBSET Incidents
  BY DEF TypeOK, Pass
<1>2. \E p \in NewPasses : sender' = [sender EXCEPT ![s] = p]
  BY <1>1 DEF Onward, NewPasses
<1> QED BY <1>2, PassEnds

LEMMA SendersTyped ==
  ASSUME TypeOK, NEW s \in Senders
  PROVE  /\ sender[s] \in Pass
         /\ \A ph \in Phase :
              /\ [sender[s] EXCEPT !.phase = ph] \in Pass
              /\ \A n \in 0..MaxAttempts : [sender[s] EXCEPT !.phase = ph, !.try = n] \in Pass
              /\ \A k \in BOOLEAN : [sender[s] EXCEPT !.phase = ph, !.ok = k] \in Pass
BY DEF TypeOK, Pass

\* The row another pass holds is not the one this pass takes or gives back.
OthersRows(s, r) ==
  \A a \in DOMAIN alert \ {r} : alert'[a] = alert[a]

LEMMA OthersHold ==
  ASSUME MailInv, mishaps = 0, NEW s \in Senders, NEW r,
         DOMAIN alert' = DOMAIN alert, Alone(s), OthersRows(s, r),
         Busy(s) => sender[s].row = r,
         ~Busy(s) => r \in DOMAIN alert /\ Claimable(r),
         Busy(s)' => Owns(s, sender[s].row)' /\ alert'[sender'[s].row].age <= Timeout
  PROVE  ClaimsHeld'
<1> SUFFICES ASSUME NEW t \in Senders, Busy(t)', t # s
             PROVE  Owns(t, sender[t].row)' /\ alert'[sender'[t].row].age <= Timeout
  BY DEF ClaimsHeld
<1>1. sender'[t] = sender[t] /\ Busy(t)
  BY DEF Alone, Busy
<1>2. /\ sender[t].row \in DOMAIN alert
      /\ alert[sender[t].row].claim = t /\ alert[sender[t].row].age <= Timeout
  BY <1>1 DEF MailInv, PassesPlaced, ClaimsHeld, Owns
<1>3. sender[t].row # r
  <2>1. CASE Busy(s)
    BY <1>2, <2>1 DEF MailInv, ClaimsHeld, Owns
  <2>2. CASE ~Busy(s)
    <3>1. alert[sender[t].row] \in AlertRow
      BY <1>2, TableRows DEF MailInv
    <3> QED BY <1>2, <2>2, <3>1, ConstantsAssumption DEF Claimable, AlertRow
  <2> QED BY <2>1, <2>2
<1> QED BY <1>1, <1>2, <1>3 DEF OthersRows, Owns

LEMMA ClaimKeeps ==
  ASSUME MailInv, NEW s \in Senders, Claim(s)
  PROVE  MailInv'
<1>0. TypeOK
  BY DEF MailInv
<1>1. PICK a \in Due(s) :
        /\ alert' = [alert EXCEPT ![a].claim = s, ![a].age = 0]
        /\ sender' = [sender EXCEPT ![s].phase = "check", ![s].row = a,
                                    ![s].done = @ \cup {a}]
  BY DEF Claim
<1>2. a \in DOMAIN alert /\ a \in Incidents /\ Claimable(a) /\ alert[a] \in AlertRow
  BY <1>0, TableRows DEF Due
<1> DEFINE r == [alert[a] EXCEPT !.claim = s, !.age = 0]
<1>3. /\ r \in AlertRow /\ r.tries = alert[a].tries /\ r.claim = s /\ r.age = 0
  <2>1. 0 \in 0..Timeout + 1 /\ s \in Senders \cup {None}
    BY ConstantsAssumption
  <2>2. r \in AlertRow
    BY <1>2, <2>1, RowMarked
  <2> QED BY <1>2, <2>2 DEF AlertRow
<1>4. alert' = [alert EXCEPT ![a] = r]
  BY <1>0, <1>1, <1>2, TableRows
<1> HIDE DEF r
<1>5. /\ alert' \in [DOMAIN alert -> AlertRow] /\ alert'[a] = r
      /\ \A b \in DOMAIN alert \ {a} : alert'[b] = alert[b]
  BY <1>0, <1>2, <1>3, <1>4, TableRows
<1>6. TableTyped' /\ DOMAIN alert' = DOMAIN alert
  BY <1>0, <1>5, TableRewritten DEF TableTyped, TypeOK
<1>7. /\ Alone(s) /\ sender'[s].phase = "check" /\ sender'[s].row = a
  <2>1. sender[s] \in Pass /\ sender[s].done \cup {a} \in SUBSET Incidents
    BY <1>0, <1>2 DEF TypeOK, Pass
  <2>2. [sender[s] EXCEPT !.phase = "check", !.row = a, !.done = @ \cup {a}] \in Pass
    BY <1>2, <2>1 DEF Pass, Phase
  <2> QED BY <1>0, <1>1, <2>1, <2>2 DEF Alone, TypeOK, Pass
<1>8. TypeOK'
  BY <1>0, <1>6, <1>7 DEF TypeOK, TableTyped, Alone, Claim, outside
<1>9. AttemptsKept /\ CallsKept
  BY <1>3, <1>5, <1>6, <1>7 DEF AttemptsKept, CallsKept, Alone, Claim
<1>10. \A t \in Senders : Busy(t)' => sender'[t].row \in DOMAIN alert'
  BY <1>2, <1>6, <1>7 DEF Alone, Busy, MailInv, PassesPlaced
<1>11. mishaps' = 0 => mishaps = 0 /\ ClaimsHeld'
  <2>1. Owns(s, sender[s].row)' /\ alert'[sender'[s].row].age <= Timeout
    BY <1>3, <1>5, <1>7, ConstantsAssumption DEF Owns
  <2>2. ~Busy(s) /\ mishaps' = mishaps /\ OthersRows(s, a)
    BY <1>5 DEF Claim, Busy, OthersRows
  <2> QED BY <1>2, <1>6, <1>7, <2>1, <2>2, OthersHold
<1>12. accepted' = accepted
  BY DEF Claim
<1> QED BY <1>8, <1>9, <1>10, <1>11, <1>12, NoCallKeeps

LEMMA EndPassKeeps ==
  ASSUME MailInv, NEW s \in Senders, EndPass(s)
  PROVE  MailInv'
<1>0. TypeOK
  BY DEF MailInv
<1>1. Alone(s) /\ sender'[s].phase = "next"
  BY <1>0, PassEnds DEF EndPass, NewPasses
<1>2. TypeOK'
  BY <1>0, <1>1 DEF EndPass, outside, TypeOK, Alone
<1>3. AttemptsKept /\ CallsKept /\ accepted' = accepted
  BY <1>1 DEF AttemptsKept, CallsKept, Alone, EndPass
<1>4. \A t \in Senders : Busy(t)' => sender'[t] = sender[t] /\ Busy(t)
  BY <1>1 DEF Alone, Busy
<1>5. \A t \in Senders : Busy(t)' => sender'[t].row \in DOMAIN alert'
  BY <1>4 DEF MailInv, PassesPlaced, EndPass
<1>6. mishaps' = 0 => mishaps = 0 /\ ClaimsHeld'
  BY <1>4 DEF MailInv, ClaimsHeld, Owns, EndPass
<1> QED BY <1>2, <1>3, <1>5, <1>6, NoCallKeeps

\* One row is rewritten.
LEMMA OneRow ==
  ASSUME TypeOK, NEW a \in DOMAIN alert, NEW r \in AlertRow,
         alert' = [alert EXCEPT ![a] = r]
  PROVE  /\ TableTyped' /\ DOMAIN alert' = DOMAIN alert /\ alert'[a] = r
         /\ \A b \in DOMAIN alert \ {a} : alert'[b] = alert[b]
         /\ \A s \in Senders : OthersRows(s, a)
<1>1. /\ alert' \in [DOMAIN alert -> AlertRow] /\ alert'[a] = r
      /\ \A b \in DOMAIN alert \ {a} : alert'[b] = alert[b]
  BY TableRows
<1> QED BY <1>1, TableRewritten DEF TableTyped, TypeOK, OthersRows

LEMMA CheckKeeps ==
  ASSUME MailInv, NEW s \in Senders, Check(s)
  PROVE  MailInv'
<1>0. TypeOK
  BY DEF MailInv
<1> DEFINE a == sender[s].row
<1>1. /\ sender[s].phase = "check" /\ Busy(s) /\ a \in DOMAIN alert
      /\ alert[a] \in AlertRow
      /\ accepted' = accepted /\ mishaps' = mishaps
  BY <1>0, TableRows DEF Check, Busy, MailInv, PassesPlaced
<1>2. CASE /\ alert' = alert
           /\ sender' = [sender EXCEPT ![s].phase = "reserve"]
  <2>1. Alone(s) /\ sender'[s].phase = "reserve" /\ sender'[s].row = a
    <3>1. [sender[s] EXCEPT !.phase = "reserve"] \in Pass /\ sender[s] \in Pass
      BY <1>0, SendersTyped DEF Phase
    <3> QED BY <1>0, <1>2, <3>1 DEF Alone, TypeOK, Pass
  <2>2. TypeOK'
    BY <1>0, <1>2, <2>1 DEF Check, outside, TypeOK, Alone
  <2>3. AttemptsKept /\ CallsKept
    BY <1>1, <1>2, <2>1 DEF AttemptsKept, CallsKept, Alone
  <2>4. \A t \in Senders : Busy(t)' => sender'[t].row \in DOMAIN alert'
    BY <1>1, <1>2, <2>1 DEF Alone, Busy, MailInv, PassesPlaced
  <2>5. mishaps' = 0 => mishaps = 0 /\ ClaimsHeld'
    <3>1. mishaps = 0 => Owns(s, sender[s].row)' /\ alert'[sender'[s].row].age <= Timeout
      BY <1>1, <1>2, <2>1 DEF MailInv, ClaimsHeld, Owns
    <3>2. OthersRows(s, a)
      BY <1>2 DEF OthersRows
    <3> QED BY <1>1, <1>2, <2>1, <3>1, <3>2, OthersHold
  <2> QED BY <1>1, <2>2, <2>3, <2>4, <2>5, NoCallKeeps
<1>3. CASE /\ Onward(s)
           /\ \/ alert' = [Releasing(s, a) EXCEPT ![a].notified = TRUE]
              \/ alert' = Releasing(s, a)
  <2>1. PICK c \in Senders \cup {None}, n \in BOOLEAN :
          alert' = [alert EXCEPT ![a] = [alert[a] EXCEPT !.claim = c, !.notified = n]]
    <3> DEFINE c == IF Owns(s, a) THEN None ELSE alert[a].claim
    <3>1. c \in Senders \cup {None} /\ alert[a].notified \in BOOLEAN
      BY <1>1 DEF AlertRow
    <3>2. Releasing(s, a) = [alert EXCEPT ![a] = [alert[a] EXCEPT !.claim = c]]
      BY <1>0, <1>1, TableRows DEF Releasing
    <3> HIDE DEF c
    <3>3. [alert[a] EXCEPT !.claim = c] =
            [alert[a] EXCEPT !.claim = c, !.notified = alert[a].notified]
      BY <1>1 DEF AlertRow
    <3>4. [Releasing(s, a) EXCEPT ![a].notified = TRUE] =
            [alert EXCEPT ![a] = [alert[a] EXCEPT !.claim = c, !.notified = TRUE]]
      <4> DEFINE x == [alert[a] EXCEPT !.claim = c]
                 t == [alert EXCEPT ![a] = x]
      <4>1. t[a] = x /\ DOMAIN t = DOMAIN alert
        BY <1>0, <1>1, TableRows
      <4>2. [x EXCEPT !.notified = TRUE] = [alert[a] EXCEPT !.claim = c, !.notified = TRUE]
        BY <1>1 DEF AlertRow
      <4>3. [t EXCEPT ![a].notified = TRUE] = [t EXCEPT ![a] = [x EXCEPT !.notified = TRUE]]
        BY <1>1, <4>1
      <4>4. [t EXCEPT ![a] = [x EXCEPT !.notified = TRUE]]
              = [alert EXCEPT ![a] = [x EXCEPT !.notified = TRUE]]
        BY <1>0, <1>1, TableRows
      <4> QED BY <3>2, <4>2, <4>3, <4>4
    <3>5. \E n \in BOOLEAN :
            alert' = [alert EXCEPT ![a] = [alert[a] EXCEPT !.claim = c, !.notified = n]]
      <4>1. CASE alert' = [Releasing(s, a) EXCEPT ![a].notified = TRUE]
        BY <3>4, <4>1
      <4>2. CASE alert' = Releasing(s, a)
        BY <3>1, <3>2, <3>3, <4>2
      <4> QED BY <1>3, <4>1, <4>2
    <3> HIDE DEF a
    <3> QED BY <3>1, <3>5
  <2> DEFINE r == [alert[a] EXCEPT !.claim = c, !.notified = n]
  <2>2. r \in AlertRow /\ r.tries = alert[a].tries
    BY <1>1, RowMarked DEF AlertRow
  <2>3. /\ TableTyped' /\ DOMAIN alert' = DOMAIN alert /\ OthersRows(s, a)
        /\ alert'[a] = r /\ \A b \in DOMAIN alert \ {a} : alert'[b] = alert[b]
    BY <1>0, <1>1, <2>1, <2>2, OneRow
  <2> HIDE DEF r
  <2>4. Alone(s) /\ sender'[s].phase = "next"
    BY <1>0, <1>3, OnwardEnds
  <2>5. TypeOK'
    BY <1>0, <2>3, <2>4 DEF Check, outside, TypeOK, TableTyped, Alone
  <2>6. AttemptsKept /\ CallsKept
    BY <1>1, <2>2, <2>3, <2>4 DEF AttemptsKept, CallsKept, Alone
  <2>7. \A t \in Senders : Busy(t)' => sender'[t].row \in DOMAIN alert'
    BY <2>3, <2>4 DEF Alone, Busy, MailInv, PassesPlaced
  <2>8. mishaps' = 0 => mishaps = 0 /\ ClaimsHeld'
    BY <1>1, <2>3, <2>4, OthersHold DEF Busy
  <2> QED BY <1>1, <2>5, <2>6, <2>7, <2>8, NoCallKeeps
<1> QED BY <1>2, <1>3 DEF Check

-----------------------------------------------------------------------------
(* The call and what surrounds it.  With no mishap a claim is exclusive:   *)
(* no other pass works on the incident.                                    *)

LEMMA Exclusive ==
  ASSUME MailInv, mishaps = 0, NEW s \in Senders, NEW t \in Senders,
         Busy(s), Busy(t), sender[s].row = sender[t].row
  PROVE  s = t
BY DEF MailInv, ClaimsHeld, Owns

LEMMA ReserveKeeps ==
  ASSUME MailInv, NEW s \in Senders, Reserve(s)
  PROVE  MailInv'
<1>0. TypeOK /\ PassesPlaced /\ AttemptsReserved
  BY DEF MailInv
<1> DEFINE a == sender[s].row
           n == Len(alert[a].tries)
<1>1. /\ sender[s].phase = "reserve" /\ Busy(s) /\ a \in DOMAIN alert
      /\ alert[a] \in AlertRow /\ a \in Incidents
      /\ accepted' = accepted /\ mishaps' = mishaps
  BY <1>0, TableRows DEF Reserve, Busy, PassesPlaced
<1>2. CASE UNCHANGED alert /\ Onward(s)
  <2>1. Alone(s) /\ sender'[s].phase = "next"
    BY <1>0, <1>2, OnwardEnds
  <2>2. TypeOK'
    BY <1>0, <1>2, <2>1 DEF Reserve, outside, TypeOK, Alone
  <2>3. AttemptsKept /\ CallsKept
    BY <1>1, <1>2, <2>1 DEF AttemptsKept, CallsKept, Alone
  <2>4. \A t \in Senders : Busy(t)' => sender'[t] = sender[t] /\ Busy(t)
    BY <2>1 DEF Alone, Busy
  <2>5. \A t \in Senders : Busy(t)' => sender'[t].row \in DOMAIN alert'
    BY <1>0, <1>2, <2>4 DEF PassesPlaced
  <2>6. mishaps' = 0 => mishaps = 0 /\ ClaimsHeld'
    BY <1>1, <1>2, <2>4 DEF MailInv, ClaimsHeld, Owns
  <2> QED BY <1>1, <2>2, <2>3, <2>5, <2>6, NoCallKeeps
<1>3. CASE /\ Owns(s, a) /\ n < MaxAttempts /\ ~Succeeded(a)
           /\ alert' = [alert EXCEPT ![a].tries = Append(@, FALSE)]
           /\ sender' = [sender EXCEPT ![s].phase = "send", ![s].try = n + 1]
  <2>1. /\ n \in 0..MaxAttempts /\ alert[a].tries \in Seq(BOOLEAN)
        /\ DOMAIN alert[a].tries = 1..n
    BY <1>1, Attempts
  <2> DEFINE q == Append(alert[a].tries, FALSE)
             r == [alert[a] EXCEPT !.tries = q]
  <2>2. /\ q \in Seq(BOOLEAN) /\ Len(q) = n + 1 /\ DOMAIN q = 1..n + 1
        /\ (\A k \in 1..n : q[k] = alert[a].tries[k]) /\ q[n + 1] = FALSE
    BY <2>1, Appended, Zenon
  <2>3. r \in AlertRow /\ r.tries = q /\ r.claim = alert[a].claim /\ r.age = alert[a].age
    <3>1. r \in [warehouse : Warehouses, resolved : BOOLEAN, notified : BOOLEAN,
                 claim : Senders \cup {None}, age : 0..Timeout + 1, tries : Seq(BOOLEAN)]
      BY <1>1, <2>2 DEF AlertRow
    <3>2. r.tries = q
      BY <1>1 DEF AlertRow
    <3>3. Len(r.tries) <= MaxAttempts
      <4> HIDE DEF r, q, n
      <4> QED BY <1>3, <2>1, <2>2, <3>2, ConstantsAssumption
    <3> QED BY <1>1, <3>1, <3>2, <3>3, RowTyped DEF AlertRow
  <2>4. alert' = [alert EXCEPT ![a] = r]
    BY <1>0, <1>1, <1>3, TableRows
  <2> HIDE DEF q, r
  <2>5. /\ TableTyped' /\ DOMAIN alert' = DOMAIN alert /\ alert'[a] = r /\ OthersRows(s, a)
        /\ \A b \in DOMAIN alert \ {a} : alert'[b] = alert[b]
    BY <1>0, <1>1, <2>3, <2>4, OneRow
  <2>6. /\ Alone(s) /\ sender'[s].phase = "send" /\ sender'[s].row = a
        /\ sender'[s].try = n + 1
    <3>1. n + 1 \in 0..MaxAttempts
      BY <1>3, <2>1, ConstantsAssumption
    <3>2. [sender[s] EXCEPT !.phase = "send", !.try = n + 1] \in Pass /\ sender[s] \in Pass
      BY <1>0, <3>1, SendersTyped DEF Phase
    <3> HIDE DEF n
    <3> QED BY <1>0, <1>3, <3>2 DEF Alone, TypeOK, Pass
  <2>7. \A t \in Senders \ {s} : sender'[t] = sender[t]
    BY <2>6 DEF Alone
  <2>8. TypeOK'
    BY <1>0, <2>5, <2>6 DEF Reserve, outside, TypeOK, TableTyped, Alone
  <2>9. PassesPlaced'
    <3>1. \A b \in DOMAIN alert : Len(alert[b].tries) \in Nat
      BY <1>0, TableRows, Attempts
    <3>2. \A b \in DOMAIN alert : Len(alert[b].tries) <= Len(alert'[b].tries)
                                  /\ Len(alert'[b].tries) \in Nat
      BY <2>1, <2>2, <2>3, <2>5, <3>1
    <3>3. n + 1 \in 1..Len(alert'[a].tries)
      BY <2>1, <2>2, <2>3, <2>5
    <3>4. ASSUME NEW t \in Senders, t # s
          PROVE  /\ Busy(t)' => sender'[t].row \in DOMAIN alert'
                 /\ sender'[t].phase \in {"send", "record"} =>
                      sender'[t].try \in 1..Len(alert'[sender'[t].row].tries)
      <4>1. sender'[t] = sender[t]
        BY <2>7, <3>4
      <4>2. /\ Busy(t) => sender[t].row \in DOMAIN alert
            /\ sender[t].phase \in {"send", "record"} =>
                 /\ Busy(t)
                 /\ sender[t].try \in 1..Len(alert[sender[t].row].tries)
        BY <1>0 DEF PassesPlaced, Busy
      <4> QED BY <2>5, <3>1, <3>2, <4>1, <4>2 DEF Busy
    <3> QED BY <1>1, <2>5, <2>6, <3>3, <3>4 DEF PassesPlaced
  <2>10. \A t \in Senders \ {s} : Calls(t, a) => sender[t].try \in 1..n
    BY <1>0 DEF Calls, Calling, PassesPlaced
  <2>11. AttemptsReserved'
    <3>1. ASSUME NEW t \in Senders, NEW u \in Senders, t # u, Calling(t)', Calling(u)'
          PROVE  sender'[t].row # sender'[u].row \/ sender'[t].try # sender'[u].try
      <4>1. CASE t # s /\ u # s
        BY <1>0, <2>7, <3>1, <4>1 DEF AttemptsReserved, Calling
      <4>2. CASE t = s
        BY <2>1, <2>6, <2>7, <2>10, <3>1, <4>2 DEF Calls, Calling
      <4>3. CASE u = s
        BY <2>1, <2>6, <2>7, <2>10, <3>1, <4>3 DEF Calls, Calling
      <4> QED BY <4>1, <4>2, <4>3
    <3>2. ASSUME NEW b \in DOMAIN alert'
          PROVE  accepted'[b] + Cardinality(Pending(b)') <= Len(alert'[b].tries)
      <4>1. /\ b \in DOMAIN alert
            /\ accepted[b] + Cardinality(Pending(b)) <= Len(alert[b].tries)
            /\ IsFiniteSet(Pending(b)) /\ Cardinality(Pending(b)) \in Nat
            /\ accepted[b] \in Nat /\ Len(alert[b].tries) \in Nat
            /\ Pending(b) \subseteq 1..Len(alert[b].tries)
        BY <1>0, <2>5, <3>2, PendingFinite, TableRows DEF AttemptsReserved, TypeOK
      <4>2. CASE b = a
        <5>1. Pending(b)' = Pending(b) \cup {n + 1}
          BY <1>1, <2>6, <2>7, <4>2 DEF Pending, Calls, Calling
        <5>2. n + 1 \notin Pending(b)
          BY <2>1, <4>1, <4>2
        <5>3. Cardinality(Pending(b)') = Cardinality(Pending(b)) + 1
          BY <4>1, <5>1, <5>2, FS_AddElement
        <5>4. Len(alert'[b].tries) = Len(alert[b].tries) + 1
          BY <2>2, <2>3, <2>5, <4>2
        <5> QED BY <1>1, <4>1, <5>3, <5>4
      <4>3. CASE b # a
        <5>1. Pending(b)' = Pending(b)
          BY <1>1, <2>6, <2>7, <4>3 DEF Pending, Calls, Calling
        <5> QED BY <1>1, <2>5, <4>1, <4>3, <5>1
      <4> QED BY <4>2, <4>3
    <3>3. \A b \in Incidents : b \notin DOMAIN alert' => accepted'[b] = 0
      BY <1>0, <1>1, <2>5 DEF AttemptsReserved
    <3> QED BY <3>1, <3>2, <3>3 DEF AttemptsReserved
  <2>12. ASSUME mishaps' = 0
         PROVE  ClaimsHeld' /\ AcceptanceKnown'
    <3>1. mishaps = 0 /\ ClaimsHeld /\ AcceptanceKnown
      BY <1>1, <2>12 DEF MailInv
    <3>2. ClaimsHeld'
      <4>1. Owns(s, sender[s].row)' /\ alert'[sender'[s].row].age <= Timeout
        BY <1>1, <2>3, <2>5, <2>6, <3>1 DEF ClaimsHeld, Owns
      <4> QED BY <1>1, <2>5, <2>6, <3>1, <4>1, OthersHold
    <3>3. \A b \in DOMAIN alert : Succeeded(b)' <=> Succeeded(b)
      <4>1. \A b \in DOMAIN alert : b # a => (Succeeded(b)' <=> Succeeded(b))
        BY <2>5 DEF Succeeded
      <4>2. ASSUME NEW b \in DOMAIN alert, b = a PROVE ~Succeeded(b)'
        <5>1. \A k \in 1..n : ~alert[a].tries[k]
          BY <1>3, <2>1 DEF Succeeded
        <5>2. alert'[b].tries = q
          BY <2>3, <2>5, <4>2
        <5>3. \A k \in DOMAIN q : ~q[k]
          <6> HIDE DEF n
          <6>1. \A k \in 1..n + 1 : k \in 1..n \/ k = n + 1
            BY <2>1
          <6> QED BY <2>2, <5>1, <6>1
        <5> QED BY <5>2, <5>3 DEF Succeeded
      <4> QED BY <1>3, <4>1, <4>2
    <3>4. accepted[a] = 0
      <4>1. accepted[a] \in Nat
        BY <1>0, <1>1 DEF TypeOK
      <4>2. SUFFICES ASSUME accepted[a] > 0 PROVE FALSE
        BY <4>1
      <4>3. PICK t \in Senders : Recording(t, a)
        BY <1>1, <1>3, <3>1, <4>2 DEF AcceptanceKnown
      <4>4. s = t
        BY <1>1, <3>1, <4>3, Exclusive DEF Recording, Busy
      <4> QED BY <1>1, <4>3, <4>4 DEF Recording
    <3>5. \A t \in Senders : Busy(t) => sender[t].row \in DOMAIN alert
      BY <1>0 DEF PassesPlaced
    <3>6. ASSUME NEW t \in Senders, Calling(t)'
          PROVE  accepted'[sender'[t].row] = 0 /\ ~Succeeded(sender[t].row)'
      <4>1. CASE t = s
        BY <1>1, <1>3, <2>6, <3>3, <3>4, <4>1
      <4>2. CASE t # s
        <5>1. sender'[t] = sender[t] /\ Calling(t) /\ Busy(t)
          BY <2>7, <3>6, <4>2 DEF Calling, Busy
        <5>2. accepted[sender[t].row] = 0 /\ ~Succeeded(sender[t].row)
          BY <3>1, <5>1 DEF AcceptanceKnown
        <5> QED BY <1>1, <3>3, <3>5, <5>1, <5>2
      <4> QED BY <4>1, <4>2
    <3>7. ASSUME NEW t \in Senders, sender'[t].phase = "record"
          PROVE  /\ ~Succeeded(sender[t].row)'
                 /\ accepted'[sender'[t].row] = IF sender'[t].ok THEN 1 ELSE 0
      <4>1. sender'[t] = sender[t] /\ Busy(t)
        BY <2>6, <2>7, <3>7 DEF Busy
      <4>2. /\ ~Succeeded(sender[t].row)
            /\ accepted[sender[t].row] = IF sender[t].ok THEN 1 ELSE 0
        BY <3>1, <3>7, <4>1 DEF AcceptanceKnown
      <4> QED BY <1>1, <3>3, <3>5, <4>1, <4>2
    <3>8. ASSUME NEW b \in DOMAIN alert', accepted'[b] > 0
          PROVE  accepted'[b] = 1 /\ (Succeeded(b)' \/ \E t \in Senders : Recording(t, b)')
      <4>1. accepted[b] = 1 /\ (Succeeded(b) \/ \E t \in Senders : Recording(t, b))
        BY <1>1, <2>5, <3>1, <3>8 DEF AcceptanceKnown
      <4>2. \A t \in Senders : Recording(t, b) => Recording(t, b)'
        BY <1>1, <2>7 DEF Recording
      <4> QED BY <1>1, <2>5, <3>3, <4>1, <4>2
    <3> QED BY <3>2, <3>6, <3>7, <3>8 DEF AcceptanceKnown
  <2> QED BY <2>8, <2>9, <2>11, <2>12 DEF MailInv
<1> QED BY <1>2, <1>3 DEF Reserve
LEMMA SendKeeps ==
  ASSUME MailInv, NEW s \in Senders, Send(s)
  PROVE  MailInv'
<1>0. TypeOK /\ PassesPlaced /\ AttemptsReserved
  BY DEF MailInv
<1> DEFINE a == sender[s].row
           n == sender[s].try
<1>1. /\ sender[s].phase = "send" /\ Busy(s) /\ Calling(s) /\ a \in DOMAIN alert
      /\ a \in Incidents /\ n \in 1..Len(alert[a].tries) /\ alert' = alert
  BY <1>0, TableRows DEF Send, Busy, Calling, PassesPlaced
<1>2. PICK taken \in BOOLEAN, reported \in BOOLEAN :
        /\ IF taken = reported THEN UNCHANGED mishaps ELSE taken /\ Mishap
        /\ accepted' = [accepted EXCEPT ![a] = IF taken THEN @ + 1 ELSE @]
        /\ sender' = [sender EXCEPT ![s].phase = "record", ![s].ok = reported]
  BY DEF Send
<1>3. /\ Alone(s) /\ sender'[s].phase = "record" /\ sender'[s].row = a
      /\ sender'[s].try = n /\ sender'[s].ok = reported
  <2>1. [sender[s] EXCEPT !.phase = "record", !.ok = reported] \in Pass /\ sender[s] \in Pass
    BY <1>0, SendersTyped DEF Phase
  <2> QED BY <1>0, <1>2, <2>1 DEF Alone, TypeOK, Pass
<1>4. \A t \in Senders \ {s} : sender'[t] = sender[t]
  BY <1>3 DEF Alone
<1>5. /\ accepted \in [Incidents -> Nat] /\ accepted' \in [Incidents -> Nat]
      /\ accepted'[a] = IF taken THEN accepted[a] + 1 ELSE accepted[a]
      /\ \A b \in Incidents \ {a} : accepted'[b] = accepted[b]
  <2>1. accepted \in [Incidents -> Nat]
    BY <1>0 DEF TypeOK
  <2>2. (IF taken THEN accepted[a] + 1 ELSE accepted[a]) \in Nat
    BY <1>1, <2>1
  <2> QED BY <1>1, <1>2, <2>1, <2>2
<1>6. mishaps' \in 0..MaxTrouble /\ (mishaps' = 0 => mishaps = 0 /\ taken = reported)
  <2>1. CASE taken = reported
    BY <1>0, <1>2, <2>1 DEF TypeOK
  <2>2. CASE taken # reported
    <3>1. Mishap
      BY <1>2, <2>2, Zenon
    <3>2. /\ events \in Nat /\ mishaps \in Nat /\ events + mishaps < MaxTrouble
          /\ mishaps' = mishaps + 1
      BY <1>0, <3>1, ConstantsAssumption DEF TypeOK, Mishap
    <3> QED BY <3>2, ConstantsAssumption
  <2> QED BY <2>1, <2>2
<1>7. TypeOK'
  BY <1>0, <1>1, <1>3, <1>5, <1>6 DEF Send, outside, TypeOK, Alone
<1>8. PassesPlaced'
  <2>1. ASSUME NEW t \in Senders, t # s
        PROVE  /\ Busy(t)' => sender'[t].row \in DOMAIN alert'
               /\ sender'[t].phase \in {"send", "record"} =>
                    sender'[t].try \in 1..Len(alert'[sender'[t].row].tries)
    BY <1>0, <1>1, <1>4, <2>1 DEF PassesPlaced, Busy
  <2> QED BY <1>1, <1>3, <2>1 DEF PassesPlaced
<1>9. AttemptsReserved'
  <2>1. ASSUME NEW t \in Senders, NEW u \in Senders, t # u, Calling(t)', Calling(u)'
        PROVE  sender'[t].row # sender'[u].row \/ sender'[t].try # sender'[u].try
    <3>1. t # s /\ u # s
      BY <1>3, <2>1 DEF Calling
    <3> QED BY <1>0, <1>4, <2>1, <3>1 DEF AttemptsReserved, Calling
  <2>2. ASSUME NEW b \in DOMAIN alert'
        PROVE  accepted'[b] + Cardinality(Pending(b)') <= Len(alert'[b].tries)
    <3>1. /\ b \in DOMAIN alert /\ b \in Incidents
          /\ accepted[b] + Cardinality(Pending(b)) <= Len(alert[b].tries)
          /\ IsFiniteSet(Pending(b)) /\ Cardinality(Pending(b)) \in Nat
          /\ accepted[b] \in Nat /\ Len(alert[b].tries) \in Nat
      BY <1>0, <1>1, <2>2, PendingFinite, TableRows DEF AttemptsReserved, TypeOK
    <3>2. CASE b = a
      <4>1. n \in Pending(b)
        BY <1>1, <3>2 DEF Pending, Calls
      <4>2. Pending(b)' = Pending(b) \ {n}
        <5>1. \A t \in Senders : Calls(t, a) /\ t # s => sender[t].try # n
          BY <1>0, <1>1 DEF AttemptsReserved, Calls
        <5>2. \A t \in Senders : Calls(t, b)' <=> Calls(t, a) /\ t # s
          BY <1>3, <1>4, <3>2 DEF Calls, Calling
        <5>3. Pending(b)' = {sender'[t].try : t \in {u \in Senders : Calls(u, b)'}}
          BY DEF Pending
        <5>4. Pending(b)' = {sender[t].try : t \in {u \in Senders : Calls(u, a) /\ u # s}}
          BY <1>4, <5>2, <5>3
        <5>5. Pending(b) = {sender[t].try : t \in {u \in Senders : Calls(u, a)}}
          BY <3>2 DEF Pending
        <5> HIDE DEF a, n
        <5>6. \A x : x \in Pending(b)' <=> x \in Pending(b) \ {n}
          <6>1. \A t \in Senders : Calls(t, a) => (t # s <=> sender[t].try # n)
            BY <5>1 DEF n
          <6> QED BY <5>4, <5>5, <6>1
        <5> QED BY <5>6
      <4>3. Cardinality(Pending(b)') = Cardinality(Pending(b)) - 1
        <5> HIDE DEF n
        <5>1. Cardinality(Pending(b) \ {n}) = Cardinality(Pending(b)) - 1
          BY <3>1, <4>1, FS_RemoveElement
        <5> QED BY <4>2, <5>1
      <4>4. accepted'[b] <= accepted[b] + 1 /\ accepted'[b] \in Nat
        BY <1>5, <3>1, <3>2
      <4> QED BY <1>1, <3>1, <4>3, <4>4
    <3>3. CASE b # a
      <4>1. Pending(b)' = Pending(b)
        BY <1>1, <1>3, <1>4, <3>3 DEF Pending, Calls, Calling
      <4> QED BY <1>1, <1>5, <3>1, <3>3, <4>1
    <3> QED BY <3>2, <3>3
  <2>3. \A b \in Incidents : b \notin DOMAIN alert' => accepted'[b] = 0
    BY <1>0, <1>1, <1>5 DEF AttemptsReserved
  <2> QED BY <2>1, <2>2, <2>3 DEF AttemptsReserved
<1>10. ASSUME mishaps' = 0
       PROVE  ClaimsHeld' /\ AcceptanceKnown'
  <2>1. mishaps = 0 /\ ClaimsHeld /\ AcceptanceKnown /\ taken = reported
    BY <1>6, <1>10 DEF MailInv
  <2>2. \A t \in Senders : Busy(t)' => Busy(t) /\ sender'[t].row = sender[t].row
    BY <1>1, <1>3, <1>4 DEF Busy
  <2>3. ClaimsHeld'
    BY <1>1, <2>1, <2>2 DEF ClaimsHeld, Owns
  <2>4. \A b : Succeeded(b)' <=> Succeeded(b)
    BY <1>1 DEF Succeeded
  <2>5. accepted[a] = 0 /\ ~Succeeded(a)
    BY <1>1, <2>1 DEF AcceptanceKnown
  <2>6. accepted'[a] = IF reported THEN 1 ELSE 0
    BY <1>5, <2>1, <2>5
  <2>7. ASSUME NEW t \in Senders, t # s, Busy(t)'
        PROVE  /\ Busy(t) /\ sender'[t] = sender[t] /\ sender[t].row # a
               /\ accepted'[sender[t].row] = accepted[sender[t].row]
    <3>1. Busy(t) /\ sender'[t] = sender[t]
      BY <1>4, <2>7 DEF Busy
    <3>2. sender[t].row # a
      BY <1>1, <2>1, <2>7, <3>1, Exclusive
    <3>3. sender[t].row \in Incidents
      BY <1>0, <3>1, TableRows DEF PassesPlaced
    <3> QED BY <1>5, <3>1, <3>2, <3>3
  <2>8. ASSUME NEW t \in Senders, Calling(t)'
        PROVE  accepted'[sender'[t].row] = 0 /\ ~Succeeded(sender[t].row)'
    <3>1. t # s /\ Busy(t)'
      BY <1>3, <2>8 DEF Calling, Busy
    <3>2. sender'[t] = sender[t] /\ Calling(t)
      BY <2>7, <2>8, <3>1 DEF Calling
    <3>3. accepted[sender[t].row] = 0 /\ ~Succeeded(sender[t].row)
      BY <2>1, <3>2 DEF AcceptanceKnown
    <3> QED BY <1>1, <2>7, <3>1, <3>2, <3>3 DEF Succeeded
  <2>9. ASSUME NEW t \in Senders, sender'[t].phase = "record"
        PROVE  /\ ~Succeeded(sender[t].row)'
               /\ accepted'[sender'[t].row] = IF sender'[t].ok THEN 1 ELSE 0
    <3>1. CASE t = s
      BY <1>1, <1>3, <2>5, <2>6, <3>1 DEF Succeeded
    <3>2. CASE t # s
      <4>1. Busy(t)'
        BY <2>9 DEF Busy
      <4>2. sender'[t] = sender[t] /\ accepted'[sender[t].row] = accepted[sender[t].row]
        BY <2>7, <3>2, <4>1
      <4>3. /\ ~Succeeded(sender[t].row)
            /\ accepted[sender[t].row] = IF sender[t].ok THEN 1 ELSE 0
        BY <2>1, <2>9, <4>2 DEF AcceptanceKnown
      <4> QED BY <1>1, <4>2, <4>3 DEF Succeeded
    <3> QED BY <3>1, <3>2
  <2>10. ASSUME NEW b \in DOMAIN alert', accepted'[b] > 0
         PROVE  accepted'[b] = 1 /\ (Succeeded(b)' \/ \E t \in Senders : Recording(t, b)')
    <3>1. CASE b = a
      BY <1>3, <2>6, <2>10, <3>1 DEF Recording
    <3>2. CASE b # a
      <4>1. accepted'[b] = accepted[b]
        BY <1>0, <1>1, <1>5, <2>10, <3>2, TableRows
      <4>2. accepted[b] = 1 /\ (Succeeded(b) \/ \E t \in Senders : Recording(t, b))
        BY <1>1, <2>1, <2>10, <4>1 DEF AcceptanceKnown
      <4>3. \A t \in Senders : Recording(t, b) => Recording(t, b)'
        BY <1>1, <1>4 DEF Recording
      <4> QED BY <2>4, <4>1, <4>2, <4>3
    <3> QED BY <3>1, <3>2
  <2> QED BY <2>3, <2>8, <2>9, <2>10 DEF AcceptanceKnown
<1> QED BY <1>7, <1>8, <1>9, <1>10 DEF MailInv

LEMMA RecordKeeps ==
  ASSUME MailInv, NEW s \in Senders, Record(s)
  PROVE  MailInv'
<1>0. TypeOK /\ PassesPlaced /\ AttemptsReserved
  BY DEF MailInv
<1> DEFINE a == sender[s].row
           n == sender[s].try
           k == sender[s].ok
           L == Len(alert[a].tries)
<1>1. /\ sender[s].phase = "record" /\ Busy(s) /\ a \in DOMAIN alert
      /\ alert[a] \in AlertRow /\ a \in Incidents /\ n \in 1..L
      /\ accepted' = accepted /\ mishaps' = mishaps
  BY <1>0, TableRows DEF Record, Busy, PassesPlaced
<1>2. /\ L \in 0..MaxAttempts /\ alert[a].tries \in Seq(BOOLEAN)
      /\ DOMAIN alert[a].tries = 1..L /\ k \in BOOLEAN
  BY <1>0, <1>1, Attempts DEF TypeOK, Pass
<1> DEFINE q == [alert[a].tries EXCEPT ![n] = k]
<1>3. q \in Seq(BOOLEAN) /\ Len(q) = L /\ DOMAIN q = 1..L /\ q[n] = k
  <2>1. alert[a].tries \in [1..L -> BOOLEAN]
    BY <1>2, LenProperties
  <2>2. q \in [1..L -> BOOLEAN] /\ q[n] = k
    BY <1>1, <1>2, <2>1
  <2> HIDE DEF q, L
  <2>3. q \in Seq(BOOLEAN) /\ L \in Nat
    BY <1>2, <2>2
  <2>4. Len(q) = L
    BY <2>2, <2>3, LenProperties
  <2> QED BY <2>2, <2>3, <2>4
<1>4. PICK c \in Senders \cup {None}, m \in BOOLEAN :
        alert' = [alert EXCEPT ![a] =
                    [alert[a] EXCEPT !.tries = q, !.claim = c, !.notified = m]]
  <2> DEFINE x == [alert[a] EXCEPT !.tries = q]
             tried == [alert EXCEPT ![a] = x]
  <2>1. /\ alert' = IF Owns(s, a)
                    THEN [tried EXCEPT ![a].claim = None, ![a].notified = @ \/ k]
                    ELSE tried
        /\ DOMAIN tried = DOMAIN alert /\ tried[a] = x
    <3>1. [alert EXCEPT ![a].tries[n] = k] = tried
      BY <1>0, <1>1, TableRows
    <3> QED BY <1>0, <1>1, <3>1, TableRows DEF Record
  <2>2. x.notified = alert[a].notified /\ x.notified \in BOOLEAN
        /\ alert[a].claim \in Senders \cup {None}
    BY <1>1 DEF AlertRow
  <2>3. x = [alert[a] EXCEPT !.tries = q, !.claim = alert[a].claim,
                             !.notified = alert[a].notified]
    BY <1>1 DEF AlertRow
  <2>4. CASE Owns(s, a)
    <3> DEFINE m == x.notified \/ k
    <3>1. [x EXCEPT !.claim = None, !.notified = m]
            = [alert[a] EXCEPT !.tries = q, !.claim = None, !.notified = m]
      BY <1>1 DEF AlertRow
    <3>2. [tried EXCEPT ![a].claim = None, ![a].notified = @ \/ k]
            = [tried EXCEPT ![a] = [x EXCEPT !.claim = None, !.notified = m]]
      BY <1>1, <2>1
    <3>3. m \in BOOLEAN
      OBVIOUS
    <3> HIDE DEF m, x
    <3>4. alert' = [alert EXCEPT ![a] = [x EXCEPT !.claim = None, !.notified = m]]
      BY <1>1, <2>1, <2>4, <3>2
    <3> HIDE DEF a, q
    <3> QED BY <3>1, <3>3, <3>4
  <2>5. CASE ~Owns(s, a)
    <3>1. alert' = [alert EXCEPT ![a] = x]
      BY <2>1, <2>5
    <3> HIDE DEF x, q
    <3> QED BY <2>2, <2>3, <3>1
  <2> QED BY <2>4, <2>5
<1> DEFINE r == [alert[a] EXCEPT !.tries = q, !.claim = c, !.notified = m]
<1>5. r \in AlertRow /\ r.tries = q
  <2>1. r \in [warehouse : Warehouses, resolved : BOOLEAN, notified : BOOLEAN,
               claim : Senders \cup {None}, age : 0..Timeout + 1, tries : Seq(BOOLEAN)]
    BY <1>1, <1>3 DEF AlertRow
  <2>2. r.tries = q
    BY <1>1 DEF AlertRow
  <2>3. Len(r.tries) <= MaxAttempts
    <3> HIDE DEF r, q, L
    <3> QED BY <1>2, <1>3, <2>2, ConstantsAssumption
  <2> QED BY <2>1, <2>2, <2>3, RowTyped
<1>6. /\ TableTyped' /\ DOMAIN alert' = DOMAIN alert /\ OthersRows(s, a)
      /\ alert'[a] = r /\ \A b \in DOMAIN alert \ {a} : alert'[b] = alert[b]
  <2> HIDE DEF r
  <2>1. alert' = [alert EXCEPT ![a] = r]
    BY <1>4 DEF r
  <2> QED BY <1>0, <1>1, <1>5, <2>1, OneRow
<1> HIDE DEF r, q
<1>7. /\ Alone(s) /\ sender'[s].phase = "next"
      /\ \A t \in Senders \ {s} : sender'[t] = sender[t]
  BY <1>0, OnwardEnds DEF Record, Alone
<1>8. TypeOK'
  BY <1>0, <1>6, <1>7 DEF Record, outside, TypeOK, TableTyped, Alone
<1>9. \A b \in DOMAIN alert : Len(alert'[b].tries) = Len(alert[b].tries)
  BY <1>3, <1>5, <1>6
<1>10. PassesPlaced'
  <2>1. ASSUME NEW t \in Senders, t # s
        PROVE  /\ Busy(t)' => sender'[t].row \in DOMAIN alert'
               /\ sender'[t].phase \in {"send", "record"} =>
                    sender'[t].try \in 1..Len(alert'[sender'[t].row].tries)
    <3>1. sender'[t] = sender[t]
      BY <1>7, <2>1
    <3>2. /\ Busy(t) => sender[t].row \in DOMAIN alert
          /\ sender[t].phase \in {"send", "record"} =>
               /\ Busy(t)
               /\ sender[t].try \in 1..Len(alert[sender[t].row].tries)
      BY <1>0 DEF PassesPlaced, Busy
    <3> QED BY <1>6, <1>9, <3>1, <3>2 DEF Busy
  <2> QED BY <1>7, <2>1 DEF PassesPlaced, Busy
<1>11. \A t \in Senders : Calling(t)' => Calling(t) /\ t # s /\ sender'[t] = sender[t]
  BY <1>7 DEF Calling
<1>12. AttemptsReserved'
  <2>1. ASSUME NEW b \in DOMAIN alert'
        PROVE  accepted'[b] + Cardinality(Pending(b)') <= Len(alert'[b].tries)
    <3>1. Pending(b)' = Pending(b)
      BY <1>1, <1>7 DEF Pending, Calls, Calling
    <3> QED BY <1>0, <1>1, <1>6, <1>9, <2>1, <3>1 DEF AttemptsReserved
  <2>2. \A b \in Incidents : b \notin DOMAIN alert' => accepted'[b] = 0
    BY <1>0, <1>1, <1>6 DEF AttemptsReserved
  <2>3. ASSUME NEW t \in Senders, NEW u \in Senders, t # u, Calling(t)', Calling(u)'
        PROVE  sender'[t].row # sender'[u].row \/ sender'[t].try # sender'[u].try
    BY <1>0, <1>11, <2>3 DEF AttemptsReserved
  <2> QED BY <2>1, <2>2, <2>3 DEF AttemptsReserved
<1>13. ASSUME mishaps' = 0
       PROVE  ClaimsHeld' /\ AcceptanceKnown'
  <2>1. mishaps = 0 /\ ClaimsHeld /\ AcceptanceKnown
    BY <1>1, <1>13 DEF MailInv
  <2>2. ClaimsHeld'
    BY <1>1, <1>6, <1>7, <2>1, OthersHold DEF Busy
  <2>3. \A b \in DOMAIN alert \ {a} : Succeeded(b)' <=> Succeeded(b)
    BY <1>6 DEF Succeeded
  <2>4. ASSUME NEW t \in Senders, Busy(t)'
        PROVE  /\ Busy(t) /\ sender'[t] = sender[t] /\ t # s
               /\ sender[t].row \in DOMAIN alert \ {a}
    <3>1. Busy(t) /\ sender'[t] = sender[t] /\ t # s
      BY <1>7, <2>4 DEF Busy
    <3>2. sender[t].row # a
      BY <1>1, <2>1, <3>1, Exclusive
    <3> QED BY <1>0, <3>1, <3>2 DEF PassesPlaced
  <2>5. ASSUME NEW t \in Senders, Calling(t)'
        PROVE  accepted'[sender'[t].row] = 0 /\ ~Succeeded(sender[t].row)'
    <3>1. Busy(t)' /\ Calling(t)
      BY <2>5, <1>11 DEF Calling, Busy
    <3>2. sender'[t] = sender[t] /\ sender[t].row \in DOMAIN alert \ {a}
      BY <2>4, <3>1
    <3>3. accepted[sender[t].row] = 0 /\ ~Succeeded(sender[t].row)
      BY <2>1, <3>1 DEF AcceptanceKnown
    <3> QED BY <1>1, <1>6, <3>2, <3>3 DEF Succeeded
  <2>6. ASSUME NEW t \in Senders, sender'[t].phase = "record"
        PROVE  /\ ~Succeeded(sender[t].row)'
               /\ accepted'[sender'[t].row] = IF sender'[t].ok THEN 1 ELSE 0
    <3>1. Busy(t)'
      BY <2>6 DEF Busy
    <3>2. sender'[t] = sender[t] /\ sender[t].row \in DOMAIN alert \ {a}
      BY <2>4, <3>1
    <3>3. /\ ~Succeeded(sender[t].row)
          /\ accepted[sender[t].row] = IF sender[t].ok THEN 1 ELSE 0
      BY <2>1, <2>6, <3>2 DEF AcceptanceKnown
    <3> QED BY <1>1, <1>6, <3>2, <3>3 DEF Succeeded
  <2>7. ASSUME NEW b \in DOMAIN alert', accepted'[b] > 0
        PROVE  accepted'[b] = 1 /\ (Succeeded(b)' \/ \E t \in Senders : Recording(t, b)')
    <3>1. b \in DOMAIN alert /\ accepted[b] = 1
          /\ (Succeeded(b) \/ \E t \in Senders : Recording(t, b))
      BY <1>1, <1>6, <2>1, <2>7 DEF AcceptanceKnown
    <3>2. CASE b = a
      <4>1. k = TRUE
        <5>1. accepted[a] = IF k THEN 1 ELSE 0
          BY <1>1, <2>1 DEF AcceptanceKnown
        <5> QED BY <1>2, <3>1, <3>2, <5>1
      <4>2. n \in DOMAIN alert'[b].tries /\ alert'[b].tries[n]
        BY <1>1, <1>3, <1>5, <1>6, <3>2, <4>1
      <4>3. Succeeded(b)'
        BY <4>2 DEF Succeeded
      <4> QED BY <1>1, <3>1, <4>3
    <3>3. CASE b # a
      <4>1. \A t \in Senders : Recording(t, b) => Recording(t, b)'
        BY <1>7, <3>3 DEF Recording
      <4> QED BY <1>1, <2>3, <3>1, <3>3, <4>1
    <3> QED BY <3>2, <3>3
  <2> QED BY <2>2, <2>5, <2>6, <2>7 DEF AcceptanceKnown
<1> QED BY <1>8, <1>10, <1>12, <1>13 DEF MailInv

LEMMA CrashPassKeeps ==
  ASSUME MailInv, NEW s \in Senders, CrashPass(s)
  PROVE  MailInv'
<1>0. TypeOK
  BY DEF MailInv
<1>1. Alone(s) /\ sender'[s].phase = "next"
  BY <1>0, PassEnds DEF CrashPass, NewPasses
<1>2. mishaps' \in 0..MaxTrouble /\ mishaps' # 0
  BY <1>0, ConstantsAssumption DEF CrashPass, Mishap, TypeOK
<1>3. TypeOK'
  BY <1>0, <1>1, <1>2 DEF CrashPass, outside, TypeOK, Alone
<1>4. AttemptsKept /\ CallsKept /\ accepted' = accepted
  BY <1>1, <1>2 DEF AttemptsKept, CallsKept, Alone, CrashPass
<1>5. \A t \in Senders : Busy(t)' => sender'[t].row \in DOMAIN alert'
  BY <1>1 DEF Alone, Busy, MailInv, PassesPlaced, CrashPass
<1> QED BY <1>2, <1>3, <1>4, <1>5, NoCallKeeps

LEMMA TickKeeps ==
  ASSUME MailInv, Tick
  PROVE  MailInv'
<1>0. TypeOK /\ PassesPlaced
  BY DEF MailInv
<1>1. \A a \in DOMAIN alert : alert[a] \in AlertRow
  BY <1>0, TableRows
<1> DEFINE t == [a \in DOMAIN alert |->
                   IF alert[a].claim # None /\ alert[a].age <= Timeout
                   THEN [alert[a] EXCEPT !.age = @ + 1] ELSE alert[a]]
<1>2. alert' = t
  BY DEF Tick
<1>3. t \in [DOMAIN alert -> AlertRow]
  <2> SUFFICES ASSUME NEW a \in DOMAIN alert PROVE t[a] \in AlertRow
    OBVIOUS
  <2>1. CASE alert[a].claim # None /\ alert[a].age <= Timeout
    <3>1. alert[a].age + 1 \in 0..Timeout + 1
      BY <1>1, <2>1, ConstantsAssumption DEF AlertRow
    <3>2. [alert[a] EXCEPT !.age = alert[a].age + 1] \in AlertRow
      <4> DEFINE g == alert[a].age + 1
      <4>1. alert[a] \in AlertRow /\ g \in 0..Timeout + 1
        BY <1>1, <3>1
      <4> HIDE DEF g
      <4>2. [alert[a] EXCEPT !.age = g] \in AlertRow
        <5>1. PICK c \in Senders \cup {None} : TRUE
          OBVIOUS
        <5>2. alert[a].notified \in BOOLEAN
          BY <4>1 DEF AlertRow
        <5> QED BY <4>1, <5>1, <5>2, RowMarked
      <4> QED BY <4>2 DEF g
    <3> QED BY <2>1, <3>2
  <2> QED BY <1>1, <2>1
<1>4. \A a \in DOMAIN alert :
        /\ t[a].tries = alert[a].tries /\ t[a].claim = alert[a].claim
        /\ t[a].age = IF alert[a].claim # None /\ alert[a].age <= Timeout
                      THEN alert[a].age + 1 ELSE alert[a].age
  BY <1>1 DEF AlertRow
<1> HIDE DEF t
<1>5. TableTyped' /\ DOMAIN alert' = DOMAIN alert
  BY <1>0, <1>2, <1>3, TableRewritten DEF TableTyped, TypeOK
<1>6. mishaps' \in 0..MaxTrouble
      /\ (mishaps' = 0 => /\ mishaps = 0
                          /\ \A s \in Senders, a \in DOMAIN alert :
                               ~(Working(s, a) /\ alert[a].age = Timeout))
  BY <1>0, ConstantsAssumption DEF Tick, Mishap, TypeOK
<1>7. TypeOK'
  BY <1>0, <1>5, <1>6 DEF Tick, outside, TypeOK, TableTyped
<1>8. AttemptsKept /\ CallsKept /\ accepted' = accepted /\ sender' = sender
  BY <1>2, <1>4, <1>5 DEF AttemptsKept, CallsKept, Tick
<1>9. \A s \in Senders : Busy(s)' => Busy(s) /\ sender[s].row \in DOMAIN alert
                                     /\ sender'[s].row \in DOMAIN alert'
  BY <1>0, <1>5, <1>8 DEF Busy, PassesPlaced
<1>10. mishaps' = 0 => mishaps = 0 /\ ClaimsHeld'
  <2> SUFFICES ASSUME mishaps' = 0, NEW s \in Senders, Busy(s)'
               PROVE  Owns(s, sender[s].row)' /\ alert'[sender'[s].row].age <= Timeout
    BY <1>6 DEF ClaimsHeld
  <2> DEFINE a == sender[s].row
  <2>1. /\ mishaps = 0 /\ Busy(s) /\ a \in DOMAIN alert
        /\ Owns(s, a) /\ alert[a].age <= Timeout
    BY <1>6, <1>9 DEF MailInv, ClaimsHeld
  <2>2. sender[s].phase \in {"check", "reserve", "send", "record"}
    BY <1>0, <2>1 DEF TypeOK, Pass, Phase, Busy
  <2>3. alert[a].age # Timeout
    BY <1>6, <2>1, <2>2 DEF Working
  <2>4. alert[a].age \in 0..Timeout + 1
    BY <1>1, <2>1 DEF AlertRow
  <2>5. alert'[a].claim = s /\ alert'[a].age <= Timeout
    BY <1>2, <1>4, <2>1, <2>3, <2>4, ConstantsAssumption DEF Owns
  <2> QED BY <1>8, <2>5 DEF Owns
<1> QED BY <1>7, <1>8, <1>9, <1>10, NoCallKeeps

-----------------------------------------------------------------------------
LEMMA InitHolds == Init => MailInv
<1> SUFFICES ASSUME Init PROVE MailInv
  OBVIOUS
<1>1. alert = <<>> /\ alert \in Seq(AlertRow) /\ Len(alert) = 0 /\ DOMAIN alert = {}
  <2>1. alert = <<>> /\ <<>> \in Seq(AlertRow) /\ Len(<<>>) = 0
    BY EmptySeq DEF Init
  <2>2. DOMAIN alert = 1..Len(alert)
    BY <2>1, LenProperties
  <2> QED BY <2>1, <2>2
<1>2. NewPass \in Pass /\ AtRest \in Evaluation
  BY ConstantsAssumption DEF NewPass, Pass, Phase, AtRest, Evaluation
<1>3. TypeOK
  BY <1>1, <1>2, ConstantsAssumption DEF Init, TypeOK, Incidents
<1>4. \A s \in Senders : sender[s].phase = "next"
  BY DEF Init, NewPass
<1>5. PassesPlaced /\ AttemptsReserved /\ ClaimsHeld /\ AcceptanceKnown
  BY <1>1, <1>4 DEF Init, PassesPlaced, AttemptsReserved, ClaimsHeld, AcceptanceKnown,
                    Busy, Calling
<1> QED BY <1>3, <1>5 DEF MailInv

LEMMA Stutters == MailInv /\ UNCHANGED vars => MailInv'
<1> SUFFICES ASSUME MailInv, UNCHANGED vars PROVE MailInv'
  OBVIOUS
<1>1. TypeOK'
  BY DEF vars, MailInv, TypeOK
<1> QED BY <1>1, SameRows, OutsideKeeps DEF vars, MailInv

LEMMA StepKeeps == MailInv /\ [Next]_vars => MailInv'
<1> SUFFICES ASSUME MailInv, [Next]_vars PROVE MailInv'
  OBVIOUS
<1>1. ASSUME NEW w \in Warehouses,
             MoveStock(w) \/ Appoint(w) \/ ArchiveWarehouse(w) \/ RestoreWarehouse(w)
      PROVE  MailInv'
  BY <1>1, AroundKeeps
<1>2. ASSUME NEW e \in Evaluators, EvaluationStep(e) \/ AbandonEvaluation(e)
      PROVE  MailInv'
  BY <1>2, EvaluationKeeps
<1>3. ASSUME NEW s \in Senders, SenderStep(s)
      PROVE  MailInv'
  BY <1>3, ClaimKeeps, EndPassKeeps, CheckKeeps, ReserveKeeps, SendKeeps, RecordKeeps
     DEF SenderStep
<1>4. ASSUME NEW s \in Senders, CrashPass(s)
      PROVE  MailInv'
  BY <1>4, CrashPassKeeps
<1>5. CASE Tick
  BY <1>5, TickKeeps
<1>6. CASE UNCHANGED vars
  BY <1>6, Stutters
<1> QED BY <1>1, <1>2, <1>3, <1>4, <1>5, <1>6 DEF Next

LEMMA MailBounded == MailInv => MailPerIncident
<1> SUFFICES ASSUME MailInv, NEW a \in Incidents
             PROVE  accepted[a] <= (IF mishaps = 0 THEN 1 ELSE MaxAttempts)
  BY DEF MailPerIncident
<1>0. TypeOK /\ PassesPlaced /\ AttemptsReserved
  BY DEF MailInv
<1>1. accepted[a] \in Nat
  BY <1>0 DEF TypeOK
<1>2. CASE a \notin DOMAIN alert
  BY <1>0, <1>2, ConstantsAssumption DEF AttemptsReserved
<1>3. CASE a \in DOMAIN alert /\ mishaps = 0
  BY <1>1, <1>3 DEF MailInv, AcceptanceKnown
<1>4. CASE a \in DOMAIN alert /\ mishaps # 0
  <2>1. /\ accepted[a] + Cardinality(Pending(a)) <= Len(alert[a].tries)
        /\ Cardinality(Pending(a)) \in Nat /\ Len(alert[a].tries) \in 0..MaxAttempts
    BY <1>0, <1>4, PendingFinite DEF AttemptsReserved
  <2> QED BY <1>1, <1>4, <2>1, ConstantsAssumption
<1> QED BY <1>2, <1>3, <1>4

LEMMA MailInvariant == Spec => []MailInv
BY InitHolds, StepKeeps, PTL DEF Spec

(* The tables, the transactions and the passes keep their types: a commit  *)
(* appends rows, and no row gets more attempts than MaxAttempts.           *)
THEOREM TypeCorrect == Spec => []TypeOK
<1>1. MailInv => TypeOK
  BY DEF MailInv
<1> QED BY <1>1, MailInvariant, PTL

(* With no mishap an incident sends one opening e-mail, however many       *)
(* processes run dispatch_pending_notifications at once; with mishaps, at  *)
(* most _MAX_TRIGGERED_ATTEMPTS.                                           *)
THEOREM OneMailPerIncident == Spec => []MailPerIncident
BY MailInvariant, MailBounded, PTL
=============================================================================
