------------------------- MODULE RequestOutboxProofs -------------------------
(***************************************************************************)
(* Proofs about the e-mail outbox, for any number of rows and processes    *)
(* and any lease, cap and pass length.  The bound on transport calls and   *)
(* the truth of the sent mark need no timing assumption; that an e-mail is *)
(* accepted once needs passes no longer than the lease.                    *)
(***************************************************************************)
EXTENDS RequestOutbox, TLAPS

\* The pass works on a row: everything between a claim and the write that
\* ends the work on the row.
Holding(w) == pass[w].phase \notin {"idle", "claiming"}

\* What a pass knows of its row, type correctness included.
HasRow ==
  \A w \in Workers :
    /\ Holding(w) => pass[w].row \in Rows
    /\ pass[w].phase \in {"sending", "finalizing"} => pass[w].reserved > 0

TypeInv == TypeOK /\ HasRow

LEMMA TypeInit == Init => TypeInv
  BY OutboxAssumption DEF Init, TypeInv, TypeOK, HasRow, Holding, Row, Pass,
     Phase, Idle, AgeCap

LEMMA Bounds ==
  /\ 0 \in 0..AgeCap /\ 0 \in 0..MaxPass /\ 0 \in 0..MaxAttempts
  /\ \A n \in 0..MaxPass : n \in 0..AgeCap
  /\ \A n \in 0..MaxPass : n < MaxPass => n + 1 \in 0..MaxPass
  /\ \A n \in 0..AgeCap : Older(n) \in 0..AgeCap
  /\ \A n \in 0..MaxAttempts : n < MaxAttempts =>
       n + 1 \in 0..MaxAttempts /\ n + 1 > 0 /\ n + 1 \in 1..MaxAttempts
  BY OutboxAssumption DEF AgeCap, Older

\* Every write replaces one row by a value, and every step of a pass
\* replaces that pass.
LEMMA RowWrite ==
  ASSUME row \in [Rows -> Row], NEW w \in Workers, pass[w].row \in Rows,
         NEW guard \in BOOLEAN, NEW values \in Row, Write(w, guard, values)
  PROVE  row' \in [Rows -> Row]
  BY DEF Write

LEMMA PassMove ==
  ASSUME TypeInv, NEW w \in Workers, NEW v \in Pass,
         pass' = [pass EXCEPT ![w] = v],
         v.phase \notin {"idle", "claiming"} => v.row \in Rows,
         v.phase \in {"sending", "finalizing"} => v.reserved > 0
  PROVE  pass' \in [Workers -> Pass] /\ HasRow'
  BY DEF TypeInv, TypeOK, HasRow, Holding

LEMMA PassEnds ==
  ASSUME TypeInv, NEW w \in Workers, pass' = [pass EXCEPT ![w] = Idle]
  PROVE  pass' \in [Workers -> Pass] /\ HasRow'
<1>1. Idle \in Pass
  BY Bounds DEF Idle, Pass, Phase
<1> QED BY <1>1, PassMove DEF Idle

LEMMA PassGoesOn ==
  ASSUME TypeInv, NEW w \in Workers, pass' = [pass EXCEPT ![w] = NextRow(w)]
  PROVE  pass' \in [Workers -> Pass] /\ HasRow'
<1>1. pass[w] \in Pass
  BY DEF TypeInv, TypeOK
<1>2. NextRow(w) \in Pass /\ NextRow(w).phase = "claiming"
  BY <1>1, Bounds DEF NextRow, Pass, Phase
<1> QED BY <1>2, PassMove

LEMMA DisownedRows ==
  ASSUME row \in [Rows -> Row], NEW w \in Workers, row' = Disowned(w)
  PROVE  row' \in [Rows -> Row]
  BY DEF Disowned, Row

LEMMA SurroundingsTyped ==
  ASSUME TypeInv,
         \/ Tick
         \/ \E r \in Rows : Enqueue(r) \/ ChangeRecipient(r) \/ BackoffOver(r)
  PROVE  TypeInv'
<1> USE DEF TypeInv, TypeOK
<1>1. ASSUME NEW r \in Rows, Enqueue(r) PROVE TypeInv'
  BY <1>1 DEF Enqueue, Row, HasRow, Holding
<1>2. ASSUME NEW r \in Rows, ChangeRecipient(r) PROVE TypeInv'
  BY <1>2 DEF ChangeRecipient, HasRow, Holding
<1>3. ASSUME NEW r \in Rows, BackoffOver(r) PROVE TypeInv'
  <2>1. row' = [row EXCEPT ![r].waiting = FALSE] /\ row[r] \in Row
    BY <1>3 DEF BackoffOver
  <2>2. [row[r] EXCEPT !.waiting = FALSE] \in Row
    BY <2>1 DEF Row
  <2>3. row' \in [Rows -> Row]
    BY <2>1, <2>2
  <2> QED BY <1>3, <2>3 DEF BackoffOver, HasRow, Holding
<1>4. CASE Tick
  <2>1. ASSUME NEW r \in Rows PROVE row'[r] \in Row
    <3>1. row[r] \in Row /\ Older(row[r].age) \in 0..AgeCap
      BY Bounds DEF Row
    <3>2. [row[r] EXCEPT !.age = Older(@)] \in Row
      BY <3>1 DEF Row
    <3> QED BY <1>4, <3>1, <3>2 DEF Tick
  <2>2. ASSUME NEW w \in Workers
        PROVE  /\ pass'[w] \in Pass
               /\ \A f \in {"phase", "row", "reserved"} : pass'[w][f] = pass[w][f]
    <3>1. pass[w] \in Pass
      OBVIOUS
    <3>2. CASE Active(w)
      <4>1. pass[w].age + 1 \in 0..MaxPass
        BY <1>4, <3>1, <3>2, Bounds DEF Tick, Pass
      <4>2. pass'[w] = [pass[w] EXCEPT !.age = @ + 1]
        BY <1>4, <3>2 DEF Tick
      <4> QED BY <3>1, <4>1, <4>2 DEF Pass
    <3>3. CASE ~Active(w)
      BY <1>4, <3>1, <3>3 DEF Tick
    <3> QED BY <3>2, <3>3
  <2>3. row' \in [Rows -> Row] /\ pass' \in [Workers -> Pass]
    BY <1>4, <2>1, <2>2 DEF Tick
  <2>4. HasRow'
    BY <2>2 DEF HasRow, Holding
  <2> QED BY <1>4, <2>3, <2>4 DEF Tick
<1> QED BY <1>1, <1>2, <1>3, <1>4

LEMMA PassTyped ==
  ASSUME TypeInv, NEW w \in Workers, StartPass(w) \/ PassStep(w) \/ Abort(w)
  PROVE  TypeInv'
<1> USE DEF TypeInv, TypeOK
<1>0. pass[w] \in Pass
  OBVIOUS
<1>1. CASE StartPass(w)
  <2>1. pass' \in [Workers -> Pass] /\ HasRow'
    BY <1>1 DEF StartPass, Pass, Phase, HasRow, Holding
  <2> QED BY <1>1, <2>1 DEF StartPass
<1>2. ASSUME NEW r \in Rows, Claim(w, r) PROVE TypeInv'
  <2>1. pass[w].age \in 0..AgeCap /\ row[r] \in Row
    BY <1>0, Bounds DEF Pass
  <2>2. [row[r] EXCEPT !.claim = w, !.age = pass[w].age] \in Row
    BY <2>1 DEF Row
  <2>3. row' \in [Rows -> Row]
    BY <1>2, <2>2 DEF Claim
  <2>4. [pass[w] EXCEPT !.phase = "checking", !.row = r,
                        !.done = @ \union {r}] \in Pass
    BY <1>0 DEF Pass, Phase
  <2>5. pass' = [pass EXCEPT ![w] = [pass[w] EXCEPT !.phase = "checking",
                                 !.row = r, !.done = @ \union {r}]]
    BY <1>2 DEF Claim
  <2>6. pass' \in [Workers -> Pass] /\ HasRow'
    BY <1>0, <2>4, <2>5, PassMove DEF Pass
  <2> QED BY <1>2, <2>3, <2>6 DEF Claim
<1>3. CASE EndPass(w)
  BY <1>3, DisownedRows, PassEnds DEF EndPass
<1>4. CASE Check(w)
  <2>1. PICK to \in {"releasing", "discarding", "reserving"} :
          pass' = [pass EXCEPT ![w].phase = to]
    BY <1>4 DEF Check
  <2>2. [pass[w] EXCEPT !.phase = to] \in Pass
    BY <1>0, <2>1 DEF Pass, Phase
  <2>3. pass[w].row \in Rows
    BY <1>4 DEF Check, HasRow, Holding
  <2>4. pass' \in [Workers -> Pass] /\ HasRow'
    BY <1>0, <2>1, <2>2, <2>3, PassMove DEF Pass
  <2> QED BY <1>4, <2>4 DEF Check
<1> DEFINE r == pass[w].row
<1>5. Holding(w) => r \in Rows /\ row[r] \in Row
  BY DEF HasRow
<1>6. CASE Release(w)
  <2>1. [row[r] EXCEPT !.claim = Unclaimed, !.age = 0] \in Row
    BY <1>5, <1>6, Bounds DEF Release, Holding, Row
  <2>2. row' \in [Rows -> Row]
    BY <1>5, <1>6, <2>1, RowWrite DEF Release, Holding, Owns
  <2> QED BY <1>6, <2>2, PassGoesOn DEF Release
<1>7. CASE Discard(w)
  <2>1. [row[r] EXCEPT !.discarded = TRUE, !.claim = Unclaimed, !.age = 0,
                       !.ok = FALSE] \in Row
    BY <1>5, <1>7, Bounds DEF Discard, Holding, Row
  <2>2. row' \in [Rows -> Row]
    BY <1>5, <1>7, <2>1, RowWrite DEF Discard, Holding
  <2> QED BY <1>7, <2>2, PassGoesOn DEF Discard
<1>8. CASE Reserve(w)
  <2>1. CASE MayReserve(w, r)
    <3>1. row[r].attempts + 1 \in 0..MaxAttempts /\ row[r].attempts + 1 > 0
      BY <1>5, <1>8, <2>1, Bounds DEF MayReserve, Reserve, Holding, Row
    <3>2. [row[r] EXCEPT !.attempts = @ + 1, !.ok = FALSE] \in Row
      BY <1>5, <1>8, <3>1 DEF Reserve, Holding, Row
    <3>3. row' \in [Rows -> Row]
      BY <1>5, <1>8, <2>1, <3>2 DEF Reserve, Holding, Write
    <3>4. [pass[w] EXCEPT !.phase = "sending",
                          !.reserved = row[r].attempts + 1] \in Pass
      BY <1>0, <3>1 DEF Pass, Phase
    <3>5. pass' = [pass EXCEPT ![w] = [pass[w] EXCEPT !.phase = "sending",
                                         !.reserved = row[r].attempts + 1]]
      BY <1>8, <2>1 DEF Reserve
    <3>6. pass' \in [Workers -> Pass] /\ HasRow'
      BY <1>0, <1>5, <1>8, <3>1, <3>4, <3>5, PassMove DEF Reserve, Holding, Pass
    <3> QED BY <1>8, <3>3, <3>6 DEF Reserve
  <2>2. CASE ~MayReserve(w, r)
    <3>1. row' = row
      BY <1>8, <2>2 DEF Reserve, Write
    <3>2. pass' = [pass EXCEPT ![w] = NextRow(w)]
      BY <1>8, <2>2 DEF Reserve
    <3> QED BY <1>8, <3>1, <3>2, PassGoesOn DEF Reserve
  <2> QED BY <2>1, <2>2
<1>9. CASE Send(w)
  <2>1. PICK taken, reported \in BOOLEAN :
          /\ accepted' = [accepted EXCEPT ![r] = IF taken THEN @ + 1 ELSE @]
          /\ pass' = [pass EXCEPT ![w].phase = "finalizing", ![w].ok = reported]
    BY <1>9 DEF Send
  <2>2. /\ r \in Rows /\ calls[r] \in [1..MaxAttempts -> Nat]
        /\ pass[w].reserved \in 1..MaxAttempts /\ pass[w].reserved > 0
    BY <1>0, <1>5, <1>9 DEF Send, HasRow, Holding, Pass
  <2>3. [pass[w] EXCEPT !.phase = "finalizing", !.ok = reported] \in Pass
    BY <1>0, <2>1 DEF Pass, Phase
  <2>7. pass' = [pass EXCEPT ![w] = [pass[w] EXCEPT !.phase = "finalizing",
                                                    !.ok = reported]]
    BY <2>1
  <2>4. pass' \in [Workers -> Pass] /\ HasRow'
    <3> DEFINE v == [pass[w] EXCEPT !.phase = "finalizing", !.ok = reported]
    <3>1. v \in Pass /\ v.row \in Rows /\ v.reserved > 0
      BY <1>0, <2>2, <2>3 DEF Pass
    <3>2. pass' = [pass EXCEPT ![w] = v]
      BY <2>7
    <3> HIDE DEF v
    <3> QED BY <3>1, <3>2, PassMove
  <2>5. accepted' \in [Rows -> Nat]
    BY <2>1, <2>2
  <2>8. calls' = [calls EXCEPT ![r] =
                   [calls[r] EXCEPT ![pass[w].reserved] = @ + 1]]
    BY <1>9 DEF Send
  <2>9. [calls[r] EXCEPT ![pass[w].reserved] = @ + 1] \in [1..MaxAttempts -> Nat]
    <3> DEFINE c == calls[r]
               n == pass[w].reserved
    <3>1. c \in [1..MaxAttempts -> Nat] /\ n \in 1..MaxAttempts
      BY <2>2
    <3> HIDE DEF c, n
    <3>2. [c EXCEPT ![n] = @ + 1] \in [1..MaxAttempts -> Nat]
      BY <3>1
    <3> QED BY <3>2 DEF c, n
  <2>6. calls' \in [Rows -> [1..MaxAttempts -> Nat]]
    BY <2>8, <2>9
  <2> QED BY <1>9, <2>4, <2>5, <2>6 DEF Send
<1>10. CASE Finalize(w)
  <2>1. pass[w].ok \in BOOLEAN /\ row[r].sent \in BOOLEAN
          /\ row[r].waiting \in BOOLEAN
    BY <1>0, <1>5, <1>10 DEF Finalize, Holding, Pass, Row
  <2>2. [row[r] EXCEPT !.claim = Unclaimed, !.age = 0, !.ok = pass[w].ok,
                       !.sent = @ \/ pass[w].ok,
                       !.waiting = @ \/ ~pass[w].ok] \in Row
    BY <1>5, <1>10, <2>1, Bounds DEF Finalize, Holding, Row
  <2>3. row' \in [Rows -> Row]
    BY <1>5, <1>10, <2>2, RowWrite DEF Finalize, Holding, MayFinalize
  <2> QED BY <1>10, <2>3, PassGoesOn DEF Finalize
<1>11. CASE Abort(w)
  <2>1. aborts' \in 0..MaxAborts
    BY <1>11, OutboxAssumption DEF Abort
  <2> QED BY <1>11, <2>1, DisownedRows, PassEnds DEF Abort
<1> QED BY <1>1, <1>2, <1>3, <1>4, <1>6, <1>7, <1>8, <1>9, <1>10, <1>11
        DEF PassStep

LEMMA TypeStep == TypeInv /\ [Next]_vars => TypeInv'
<1>1. TypeInv /\ UNCHANGED vars => TypeInv'
  BY DEF vars, TypeInv, TypeOK, HasRow, Holding
<1> QED BY <1>1, SurroundingsTyped, PassTyped DEF Next

\* The tables and the passes keep their shapes; in particular attempts never
\* exceed the cap.
THEOREM TypeCorrect == Spec => []TypeOK
<1>1. TypeInv => TypeOK
  BY DEF TypeInv
<1> QED BY TypeInit, TypeStep, <1>1, PTL DEF Spec

-----------------------------------------------------------------------------
(* One transport call for each reserved attempt.                           *)

Sending(w) == pass[w].phase = "sending"

\* The attempts being sent are counted on their rows, have not been used, and
\* are different: this is what makes the bound inductive.
Reservations ==
  /\ \A w \in Workers : Sending(w) =>
       /\ pass[w].reserved <= row[pass[w].row].attempts
       /\ calls[pass[w].row][pass[w].reserved] = 0
  /\ \A w, v \in Workers :
       /\ w # v /\ Sending(w) /\ Sending(v)
       /\ pass[w].row = pass[v].row
       => pass[w].reserved # pass[v].reserved

CallInv == TypeInv /\ OneCallPerAttempt /\ Reservations

\* What every step but a reservation and a call leaves alone.
CallsKept ==
  /\ calls' = calls
  /\ \A r \in Rows : row'[r].attempts = row[r].attempts
  /\ \A w \in Workers : Sending(w)' =>
       Sending(w) /\ pass'[w].row = pass[w].row
                  /\ pass'[w].reserved = pass[w].reserved

LEMMA KeptCallInv == CallInv /\ TypeInv' /\ CallsKept => CallInv'
<1> SUFFICES ASSUME CallInv, TypeInv', CallsKept PROVE CallInv'
  OBVIOUS
<1>1. \A w \in Workers : Sending(w) => pass[w].row \in Rows
  BY DEF CallInv, TypeInv, HasRow, Holding, Sending
<1>2. OneCallPerAttempt'
  BY DEF CallInv, CallsKept, OneCallPerAttempt
<1>3. Reservations'
  BY <1>1 DEF CallInv, CallsKept, Reservations, Sending
<1> QED BY <1>2, <1>3 DEF CallInv

LEMMA CallsKeptBy ==
  ASSUME TypeInv, [Next]_vars,
         ~\E w \in Workers : Reserve(w) \/ Send(w)
  PROVE  CallsKept
<1> USE DEF TypeInv, TypeOK, CallsKept, Sending
<1>1. ASSUME NEW r \in Rows, Enqueue(r) \/ ChangeRecipient(r) \/ BackoffOver(r)
      PROVE  CallsKept
  <2>1. CASE Enqueue(r)
    BY <2>1 DEF Enqueue, Row
  <2>2. CASE ChangeRecipient(r)
    BY <2>2 DEF ChangeRecipient
  <2>3. CASE BackoffOver(r)
    <3>1. row' = [row EXCEPT ![r].waiting = FALSE]
            /\ calls' = calls /\ pass' = pass
      BY <2>3 DEF BackoffOver
    <3> QED BY <3>1 DEF Row
  <2> QED BY <1>1, <2>1, <2>2, <2>3
<1>2. CASE Tick
  BY <1>2 DEF Tick, Active, Row, Pass
<1>3. ASSUME NEW w \in Workers, StartPass(w) PROVE CallsKept
  BY <1>3 DEF StartPass, Pass
<1>4. ASSUME NEW w \in Workers, NEW r \in Rows, Claim(w, r) PROVE CallsKept
  BY <1>4 DEF Claim, Pass, Row
<1>5. ASSUME NEW w \in Workers, EndPass(w) \/ Abort(w) PROVE CallsKept
  <2>1. /\ row' = Disowned(w) /\ calls' = calls
        /\ pass' = [pass EXCEPT ![w] = Idle]
    BY <1>5 DEF EndPass, Abort
  <2>2. \A r \in Rows : row'[r].attempts = row[r].attempts
    BY <2>1 DEF Disowned, Row
  <2>3. \A v \in Workers : v # w => pass'[v] = pass[v]
    BY <2>1
  <2>4. ~Sending(w)'
    BY <2>1 DEF Idle
  <2> QED BY <2>1, <2>2, <2>3, <2>4
<1>6. ASSUME NEW w \in Workers, Check(w) PROVE CallsKept
  BY <1>6 DEF Check, Pass
<1>7. ASSUME NEW w \in Workers, Release(w) \/ Discard(w) PROVE CallsKept
  <2>1. CASE Release(w)
    BY <2>1 DEF Release, Write, NextRow, Row, Pass
  <2>2. CASE Discard(w)
    BY <2>2 DEF Discard, Write, NextRow, Row, Pass
  <2> QED BY <1>7, <2>1, <2>2
<1>8. ASSUME NEW w \in Workers, Finalize(w) PROVE CallsKept
  BY <1>8 DEF Finalize, Write, NextRow, Row, Pass
<1>9. CASE UNCHANGED vars
  BY <1>9 DEF vars
<1> QED BY <1>1, <1>2, <1>3, <1>4, <1>5, <1>6, <1>7, <1>8, <1>9
        DEF Next, PassStep

LEMMA CallStep == CallInv /\ [Next]_vars => CallInv'
<1> SUFFICES ASSUME CallInv, [Next]_vars PROVE CallInv'
  OBVIOUS
<1>1. TypeInv' /\ TypeInv
  BY TypeStep DEF CallInv
<1>2. CASE ~\E w \in Workers : Reserve(w) \/ Send(w)
  BY <1>1, <1>2, CallsKeptBy, KeptCallInv
<1>3. ASSUME NEW w \in Workers, Reserve(w) PROVE CallInv'
  <2> DEFINE r == pass[w].row
  <2>1. r \in Rows /\ row[r] \in Row /\ pass[w] \in Pass
    BY <1>1, <1>3 DEF TypeInv, TypeOK, HasRow, Holding, Reserve
  <2>2. CASE ~MayReserve(w, r)
    <3>1. row' = row /\ calls' = calls /\ pass' = [pass EXCEPT ![w] = NextRow(w)]
      BY <1>1, <1>3, <2>2 DEF Reserve, Write, TypeInv, TypeOK
    <3>2. CallsKept
      BY <1>1, <2>1, <3>1 DEF CallsKept, NextRow, Sending, Pass, TypeInv, TypeOK
    <3> QED BY <1>1, <3>2, KeptCallInv
  <2>3. CASE MayReserve(w, r)
    <3> DEFINE n == row[r].attempts + 1
    <3>1. /\ calls' = calls
          /\ row'[r].attempts = n
          /\ \A q \in Rows : q # r => row'[q] = row[q]
          /\ Sending(w)' /\ pass'[w].row = r /\ pass'[w].reserved = n
          /\ \A v \in Workers : v # w => pass'[v] = pass[v]
      BY <1>1, <1>3, <2>1, <2>3
         DEF Reserve, Write, Sending, TypeInv, TypeOK, Row, Pass
    <3>2. row[r].attempts \in 0..MaxAttempts /\ n \in 1..MaxAttempts
      BY <2>1, <2>3, Bounds DEF MayReserve, Row
    <3>3. ASSUME NEW q \in Rows, NEW m \in 1..MaxAttempts
          PROVE  calls'[q][m] <= IF m <= row'[q].attempts THEN 1 ELSE 0
      <4>1. calls[q][m] <= IF m <= row[q].attempts THEN 1 ELSE 0
        BY DEF CallInv, OneCallPerAttempt
      <4>2. CASE q = r
        <5>1. m <= row[r].attempts => m <= n
          BY <3>2
        <5>2. calls[q][m] \in Nat
          BY <1>1 DEF TypeInv, TypeOK
        <5> QED BY <3>1, <4>1, <4>2, <5>1, <5>2
      <4>3. CASE q # r
        BY <3>1, <4>1, <4>3
      <4> QED BY <4>2, <4>3
    <3>4. calls[r][n] = 0
      <4>1. calls[r][n] \in Nat
        BY <1>1, <2>1, <3>2 DEF TypeInv, TypeOK
      <4>2. calls[r][n] <= IF n <= row[r].attempts THEN 1 ELSE 0
        BY <2>1, <3>2 DEF CallInv, OneCallPerAttempt
      <4> QED BY <3>2, <4>1, <4>2
    <3>5. ASSUME NEW v \in Workers, Sending(v)'
          PROVE  /\ pass'[v].reserved <= row'[pass'[v].row].attempts
                 /\ calls'[pass'[v].row][pass'[v].reserved] = 0
      <4>1. CASE v = w
        BY <3>1, <3>2, <3>4, <4>1
      <4>2. CASE v # w
        <5>1. /\ Sending(v) /\ pass'[v] = pass[v] /\ pass[v].row \in Rows
              /\ pass[v].reserved \in 0..MaxAttempts
          BY <1>1, <3>1, <3>5, <4>2
             DEF Sending, TypeInv, TypeOK, HasRow, Holding, Pass
        <5>2. /\ pass[v].reserved <= row[pass[v].row].attempts
              /\ calls[pass[v].row][pass[v].reserved] = 0
          BY <5>1 DEF CallInv, Reservations
        <5> QED BY <3>1, <3>2, <5>1, <5>2
      <4> QED BY <4>1, <4>2
    <3>6. ASSUME NEW v \in Workers, v # w, Sending(v)', pass'[v].row = r
          PROVE  pass'[v].reserved # n
      <4>1. Sending(v) /\ pass'[v] = pass[v] /\ pass[v].reserved \in 0..MaxAttempts
        BY <1>1, <3>1, <3>6 DEF Sending, TypeInv, TypeOK, Pass
      <4>2. pass[v].reserved <= row[r].attempts
        BY <3>6, <4>1 DEF CallInv, Reservations
      <4> QED BY <3>2, <4>1, <4>2
    <3>7. \A u, v \in Workers : u # w /\ v # w /\ u # v /\ Sending(u)'
            /\ Sending(v)' /\ pass'[u].row = pass'[v].row
            => pass'[u].reserved # pass'[v].reserved
      BY <3>1 DEF CallInv, Reservations, Sending
    <3>8. Reservations'
      BY <3>1, <3>5, <3>6, <3>7 DEF Reservations
    <3> QED BY <1>1, <3>3, <3>8 DEF CallInv, OneCallPerAttempt
  <2> QED BY <2>2, <2>3
<1>4. ASSUME NEW w \in Workers, Send(w) PROVE CallInv'
  <2> DEFINE r == pass[w].row
             n == pass[w].reserved
  <2>1. r \in Rows /\ n \in 1..MaxAttempts /\ Sending(w)
    BY <1>1, <1>4 DEF TypeInv, TypeOK, HasRow, Holding, Send, Sending, Pass
  <2>2. /\ row' = row
        /\ ~Sending(w)'
        /\ \A v \in Workers : v # w => pass'[v] = pass[v]
    BY <1>1, <1>4 DEF Send, Sending, TypeInv, TypeOK, Pass
  <2>3. /\ calls'[r][n] = calls[r][n] + 1
        /\ \A q \in Rows, m \in 1..MaxAttempts :
             q # r \/ m # n => calls'[q][m] = calls[q][m]
    BY <1>1, <1>4, <2>1 DEF Send, TypeInv, TypeOK
  <2>4. calls[r][n] = 0 /\ n <= row[r].attempts
    BY <2>1 DEF CallInv, Reservations
  <2>5. OneCallPerAttempt'
    BY <2>2, <2>3, <2>4 DEF CallInv, OneCallPerAttempt
  <2>6. Reservations'
    <3>1. ASSUME NEW v \in Workers, Sending(v)'
          PROVE  /\ v # w /\ Sending(v) /\ pass'[v] = pass[v]
                 /\ pass[v].row \in Rows /\ pass[v].reserved \in 1..MaxAttempts
                 /\ pass[v].row # r \/ pass[v].reserved # n
      <4>1. v # w /\ Sending(v) /\ pass'[v] = pass[v]
        BY <2>2, <3>1 DEF Sending
      <4>2. pass[v].row \in Rows /\ pass[v].reserved \in 1..MaxAttempts
        <5>1. pass[v].row \in Rows /\ pass[v].reserved > 0
          BY <1>1, <4>1 DEF TypeInv, HasRow, Holding, Sending
        <5>2. pass[v].reserved \in 0..MaxAttempts
          BY <1>1 DEF TypeInv, TypeOK, Pass
        <5> QED BY <5>1, <5>2
      <4> QED BY <2>1, <4>1, <4>2 DEF CallInv, Reservations
    <3> QED BY <2>2, <2>3, <3>1 DEF CallInv, Reservations, Sending
  <2> QED BY <1>1, <2>5, <2>6 DEF CallInv
<1> QED BY <1>2, <1>3, <1>4

\* Whatever crashes, takes over or answers late, the transport is called at
\* most once for each reserved attempt, hence at most MaxAttempts times.
THEOREM TransportBounded == Spec => []OneCallPerAttempt
<1>1. Init => CallInv
  <2> SUFFICES ASSUME Init PROVE CallInv
    OBVIOUS
  <2>1. OneCallPerAttempt
    BY OutboxAssumption DEF Init, OneCallPerAttempt
  <2>2. Reservations
    BY DEF Init, Reservations, Sending, Idle
  <2> QED BY <2>1, <2>2, TypeInit DEF CallInv
<1>2. CallInv => OneCallPerAttempt
  BY DEF CallInv
<1> QED BY <1>1, <1>2, CallStep, PTL DEF Spec

-----------------------------------------------------------------------------
(* The sent mark is true.                                                  *)

Reported(w) == pass[w].phase = "finalizing" /\ pass[w].ok

SentInv ==
  /\ TypeInv
  /\ SentIsTrue
  /\ \A w \in Workers : Reported(w) => accepted[pass[w].row] > 0

\* What every step but a call and the record of its result leaves alone.
OutcomeKept ==
  /\ accepted' = accepted
  /\ \A r \in Rows : row'[r].sent =>
       row[r].sent /\ row'[r].ok = row[r].ok
                   /\ row'[r].discarded = row[r].discarded
  /\ \A w \in Workers : Reported(w)' => Reported(w) /\ pass'[w].row = pass[w].row

LEMMA OutcomeKeptBy ==
  ASSUME TypeInv, [Next]_vars,
         ~\E w \in Workers : Send(w) \/ Finalize(w)
  PROVE  OutcomeKept
<1> USE DEF TypeInv, TypeOK, OutcomeKept, Reported
<1>1. ASSUME NEW r \in Rows, Enqueue(r) \/ ChangeRecipient(r) \/ BackoffOver(r)
      PROVE  OutcomeKept
  <2>1. CASE Enqueue(r)
    BY <2>1 DEF Enqueue, Row
  <2>2. CASE ChangeRecipient(r)
    BY <2>2 DEF ChangeRecipient
  <2>3. CASE BackoffOver(r)
    <3>1. row' = [row EXCEPT ![r].waiting = FALSE]
            /\ accepted' = accepted /\ pass' = pass
      BY <2>3 DEF BackoffOver
    <3> QED BY <3>1 DEF Row
  <2> QED BY <1>1, <2>1, <2>2, <2>3
<1>2. CASE Tick
  BY <1>2 DEF Tick, Active, Row, Pass
<1>3. ASSUME NEW w \in Workers, StartPass(w) PROVE OutcomeKept
  BY <1>3 DEF StartPass, Pass
<1>4. ASSUME NEW w \in Workers, NEW r \in Rows, Claim(w, r) PROVE OutcomeKept
  BY <1>4 DEF Claim, Pass, Row
<1>5. ASSUME NEW w \in Workers, EndPass(w) \/ Abort(w) PROVE OutcomeKept
  <2>1. /\ row' = Disowned(w) /\ accepted' = accepted
        /\ pass' = [pass EXCEPT ![w] = Idle]
    BY <1>5 DEF EndPass, Abort
  <2>2. \A r \in Rows : /\ row'[r].sent = row[r].sent /\ row'[r].ok = row[r].ok
                         /\ row'[r].discarded = row[r].discarded
    BY <2>1 DEF Disowned, Row
  <2>3. \A v \in Workers : v # w => pass'[v] = pass[v]
    BY <2>1
  <2>4. ~Reported(w)'
    BY <2>1 DEF Idle
  <2> QED BY <2>1, <2>2, <2>3, <2>4
<1>6. ASSUME NEW w \in Workers, Check(w) PROVE OutcomeKept
  BY <1>6 DEF Check, Pass
<1>7. ASSUME NEW w \in Workers, Release(w) PROVE OutcomeKept
  BY <1>7 DEF Release, Write, NextRow, Row, Pass
<1>8. ASSUME NEW w \in Workers, Discard(w) PROVE OutcomeKept
  <2> DEFINE r == pass[w].row
  <2>1. r \in Rows /\ row[r] \in Row
    BY <1>8 DEF Discard, HasRow, Holding
  <2>2. /\ accepted' = accepted /\ ~Reported(w)'
        /\ \A v \in Workers : v # w => pass'[v] = pass[v]
        /\ \A q \in Rows : q # r => row'[q] = row[q]
    BY <1>8, <2>1 DEF Discard, Write, NextRow, Pass
  <2>3. row'[r] = row[r] \/ (~row'[r].sent)
    <3>1. CASE Owns(w, r) /\ Open(r)
      <4>1. row'[r] = [row[r] EXCEPT !.discarded = TRUE, !.claim = Unclaimed,
                                     !.age = 0, !.ok = FALSE]
        BY <1>8, <2>1, <3>1 DEF Discard, Write
      <4>2. ~row[r].sent
        BY <3>1 DEF Open
      <4> QED BY <2>1, <4>1, <4>2 DEF Row
    <3>2. CASE ~(Owns(w, r) /\ Open(r))
      BY <1>8, <2>1, <3>2 DEF Discard, Write
    <3> QED BY <3>1, <3>2
  <2> QED BY <2>2, <2>3
<1>9. ASSUME NEW w \in Workers, Reserve(w) PROVE OutcomeKept
  <2>1. CASE MayReserve(w, pass[w].row)
    <3> DEFINE r == pass[w].row
    <3>1. r \in Rows /\ row[r] \in Row
      BY <1>9 DEF Reserve, HasRow, Holding
    <3>2. /\ accepted' = accepted /\ ~Reported(w)'
          /\ \A v \in Workers : v # w => pass'[v] = pass[v]
          /\ \A q \in Rows : q # r => row'[q] = row[q]
      BY <1>9, <2>1, <3>1 DEF Reserve, Write, Pass
    <3>3. row'[r] = [row[r] EXCEPT !.attempts = @ + 1, !.ok = FALSE]
      BY <1>9, <2>1, <3>1 DEF Reserve, Write
    <3>4. ~row[r].sent
      BY <2>1 DEF MayReserve, Open
    <3>5. ~row'[r].sent
      BY <3>1, <3>3, <3>4 DEF Row
    <3> QED BY <3>2, <3>5
  <2>2. CASE ~MayReserve(w, pass[w].row)
    BY <1>9, <2>2 DEF Reserve, NextRow, Write, Row, Pass
  <2> QED BY <2>1, <2>2
<1>10. CASE UNCHANGED vars
  BY <1>10 DEF vars
<1> QED BY <1>1, <1>2, <1>3, <1>4, <1>5, <1>6, <1>7, <1>8, <1>9, <1>10
        DEF Next, PassStep

LEMMA SentStep == SentInv /\ [Next]_vars => SentInv'
<1> SUFFICES ASSUME SentInv, [Next]_vars PROVE SentInv'
  OBVIOUS
<1>1. TypeInv' /\ TypeInv
  BY TypeStep DEF SentInv
<1>2. CASE ~\E w \in Workers : Send(w) \/ Finalize(w)
  <2>1. OutcomeKept
    BY <1>1, <1>2, OutcomeKeptBy
  <2> QED BY <1>1, <2>1 DEF SentInv, SentIsTrue, OutcomeKept
<1>3. ASSUME NEW w \in Workers, Send(w) PROVE SentInv'
  <2> DEFINE r == pass[w].row
  <2>1. r \in Rows
    BY <1>1, <1>3 DEF TypeInv, HasRow, Holding, Send
  <2>2. PICK taken, reported \in BOOLEAN :
          /\ reported => taken
          /\ accepted' = [accepted EXCEPT ![r] = IF taken THEN @ + 1 ELSE @]
          /\ pass' = [pass EXCEPT ![w].phase = "finalizing", ![w].ok = reported]
    BY <1>3 DEF Send
  <2>3. /\ \A q \in Rows : accepted'[q] >= accepted[q] /\ accepted[q] \in Nat
        /\ taken => accepted'[r] > 0
    BY <1>1, <2>1, <2>2 DEF TypeInv, TypeOK
  <2>4. /\ pass'[w].row = r /\ pass'[w].ok = reported
        /\ \A v \in Workers : v # w => pass'[v] = pass[v]
    BY <1>1, <2>2 DEF TypeInv, TypeOK, Pass
  <2>5. ASSUME NEW v \in Workers, Reported(v)' PROVE accepted'[pass'[v].row] > 0
    <3>1. CASE v = w
      BY <2>2, <2>3, <2>4, <2>5, <3>1 DEF Reported
    <3>2. CASE v # w
      <4>1. Reported(v) /\ pass'[v].row = pass[v].row /\ pass[v].row \in Rows
        BY <1>1, <2>4, <2>5, <3>2 DEF Reported, TypeInv, HasRow, Holding
      <4>2. accepted[pass[v].row] > 0
        BY <4>1 DEF SentInv
      <4>3. accepted'[pass[v].row] \in Nat
        BY <1>1, <4>1 DEF TypeInv, TypeOK
      <4> QED BY <2>3, <4>1, <4>2, <4>3
    <3> QED BY <3>1, <3>2
  <2>6. SentIsTrue'
    <3>1. ASSUME NEW q \in Rows, row[q].sent PROVE accepted'[q] > 0
      <4>1. accepted[q] > 0 /\ accepted'[q] \in Nat
        BY <1>1, <3>1 DEF SentInv, SentIsTrue, TypeInv, TypeOK
      <4> QED BY <2>3, <4>1
    <3>2. row' = row
      BY <1>3 DEF Send
    <3> QED BY <3>1, <3>2 DEF SentInv, SentIsTrue
  <2> QED BY <1>1, <2>5, <2>6 DEF SentInv
<1>4. ASSUME NEW w \in Workers, Finalize(w) PROVE SentInv'
  <2> DEFINE r == pass[w].row
  <2>1. r \in Rows /\ row[r] \in Row /\ pass[w] \in Pass
    BY <1>1, <1>4 DEF TypeInv, TypeOK, HasRow, Holding, Finalize
  <2>2. /\ accepted' = accepted
        /\ \A v \in Workers : v # w => pass'[v] = pass[v]
        /\ ~Reported(w)'
        /\ \A q \in Rows : q # r => row'[q] = row[q]
    BY <1>1, <1>4, <2>1
       DEF Finalize, Write, NextRow, Reported, TypeInv, TypeOK, Pass
  <2>3. ASSUME row'[r].sent
        PROVE  accepted[r] > 0 /\ row'[r].ok /\ ~row'[r].discarded
    <3>1. CASE MayFinalize(w, r)
      <4>1. row'[r] = [row[r] EXCEPT !.claim = Unclaimed, !.age = 0,
                         !.ok = pass[w].ok, !.sent = @ \/ pass[w].ok,
                         !.waiting = @ \/ ~pass[w].ok]
        BY <1>1, <1>4, <2>1, <3>1 DEF Finalize, Write, TypeInv, TypeOK
      <4>2. ~row[r].sent /\ ~row[r].discarded
        BY <3>1 DEF MayFinalize, Open
      <4>3. pass[w].ok
        BY <2>1, <2>3, <4>1, <4>2 DEF Row
      <4>4. Reported(w)
        BY <1>4, <4>3 DEF Finalize, Reported
      <4> QED BY <2>1, <4>1, <4>2, <4>3, <4>4 DEF SentInv, Row
    <3>2. CASE ~MayFinalize(w, r)
      <4>1. row'[r] = row[r]
        BY <1>1, <1>4, <2>1, <3>2 DEF Finalize, Write, TypeInv, TypeOK
      <4> QED BY <2>1, <2>3, <4>1 DEF SentInv, SentIsTrue
    <3> QED BY <3>1, <3>2
  <2>4. SentIsTrue'
    BY <2>2, <2>3 DEF SentInv, SentIsTrue
  <2> QED BY <1>1, <2>2, <2>4 DEF SentInv, Reported
<1> QED BY <1>2, <1>3, <1>4

\* A sent row was accepted by the transport, is not discarded, and no late
\* result takes that back, whatever the timing.
THEOREM SentMarkTrue == Spec => []SentIsTrue
<1>1. Init => SentInv
  BY TypeInit DEF Init, SentInv, SentIsTrue, Reported, Idle
<1>2. SentInv => SentIsTrue
  BY DEF SentInv
<1> QED BY <1>1, <1>2, SentStep, PTL DEF Spec

-----------------------------------------------------------------------------
(* No pass outlives the lease: the holder of a row is alone with it.       *)

\* A pass holds the lease of the row it works on, and the lease is as old as
\* the pass.
Exclusive ==
  \A w \in Workers : Holding(w) =>
    row[pass[w].row].claim = w /\ row[pass[w].row].age = pass[w].age

\* A step that leaves the lease of every row that is still held alone.
LeasesKept ==
  \A v \in Workers : Holding(v)' =>
    /\ Holding(v)
    /\ pass'[v].row = pass[v].row /\ pass'[v].age = pass[v].age
    /\ row'[pass[v].row].claim = row[pass[v].row].claim
    /\ row'[pass[v].row].age = row[pass[v].row].age

\* A step of w that gives up its row or leaves the lease of it alone.
OwnStep(w) ==
  LET r == pass[w].row
  IN /\ \A v \in Workers : v # w => pass'[v] = pass[v]
     /\ \A q \in Rows : q # r => row'[q] = row[q]
     /\ row[r].claim = w \/ row'[r] = row[r]
     /\ \/ ~Holding(w)'
        \/ /\ pass'[w].row = r /\ pass'[w].age = pass[w].age
           /\ row'[r].claim = row[r].claim /\ row'[r].age = row[r].age

LEMMA WorkIsOwn ==
  ASSUME TypeInv, NEW w \in Workers,
         Check(w) \/ Release(w) \/ Discard(w) \/ Reserve(w) \/ Send(w) \/ Finalize(w)
  PROVE  OwnStep(w) /\ Holding(w) /\ pass[w].row \in Rows
<1> DEFINE r == pass[w].row
<1>1. Holding(w) /\ r \in Rows /\ row[r] \in Row /\ pass[w] \in Pass
  BY DEF Check, Release, Discard, Reserve, Send, Finalize, Holding, TypeInv,
         TypeOK, HasRow
<1> USE DEF TypeInv, TypeOK, OwnStep
<1>2. CASE Check(w)
  BY <1>1, <1>2 DEF Check, Pass
<1>3. CASE Release(w)
  BY <1>1, <1>3 DEF Release, Write, NextRow, Owns, Holding, Pass
<1>4. CASE Discard(w)
  BY <1>1, <1>4 DEF Discard, Write, NextRow, Owns, Holding, Pass
<1>5. CASE Reserve(w)
  <2>1. CASE MayReserve(w, r)
    <3>1. row' = [row EXCEPT ![r] = [row[r] EXCEPT !.attempts = @ + 1, !.ok = FALSE]]
      BY <1>5, <2>1 DEF Reserve, Write
    <3>2. pass' = [pass EXCEPT ![w] = [pass[w] EXCEPT !.phase = "sending",
                                         !.reserved = row[r].attempts + 1]]
      BY <1>5, <2>1 DEF Reserve
    <3> QED BY <1>1, <2>1, <3>1, <3>2 DEF MayReserve, Owns, Row, Pass
  <2>2. CASE ~MayReserve(w, r)
    BY <1>1, <1>5, <2>2 DEF Reserve, Write, NextRow, Holding, Pass
  <2> QED BY <2>1, <2>2
<1>6. CASE Send(w)
  <2>1. row' = row /\ \E reported \in BOOLEAN :
          pass' = [pass EXCEPT ![w].phase = "finalizing", ![w].ok = reported]
    BY <1>6 DEF Send
  <2> QED BY <1>1, <2>1 DEF Pass
<1>7. CASE Finalize(w)
  BY <1>1, <1>7 DEF Finalize, MayFinalize, Write, NextRow, Owns, Holding, Pass
<1> QED BY <1>1, <1>2, <1>3, <1>4, <1>5, <1>6, <1>7

LEMMA ExclusiveStep ==
  ASSUME TypeInv, Exclusive, [Next]_vars, MaxPass <= Lease
  PROVE  Exclusive'
<1>1. TypeInv'
  BY TypeStep
<1>2. LeasesKept => Exclusive'
  BY DEF LeasesKept, Exclusive
<1> USE DEF TypeInv, TypeOK
<1>3. ASSUME NEW r \in Rows, Enqueue(r) \/ ChangeRecipient(r) \/ BackoffOver(r)
      PROVE  LeasesKept
  <2>1. pass' = pass /\ \A q \in Rows : row'[q].claim = row[q].claim
                                       /\ row'[q].age = row[q].age
    <3>1. CASE Enqueue(r)
      BY <3>1 DEF Enqueue, Row
    <3>2. CASE ChangeRecipient(r)
      BY <3>2 DEF ChangeRecipient
    <3>3. CASE BackoffOver(r)
      <4>1. row' = [row EXCEPT ![r].waiting = FALSE] /\ pass' = pass
        BY <3>3 DEF BackoffOver
      <4> QED BY <4>1 DEF Row
    <3> QED BY <1>3, <3>1, <3>2, <3>3
  <2> QED BY <2>1 DEF LeasesKept, HasRow, Holding
<1>4. ASSUME Tick PROVE Exclusive'
  <2>1. SUFFICES ASSUME NEW w \in Workers, Holding(w)'
        PROVE  /\ row'[pass'[w].row].claim = w
               /\ row'[pass'[w].row].age = pass'[w].age
    BY DEF Exclusive
  <2>2. pass[w] \in Pass
    OBVIOUS
  <2>3. Holding(w) /\ Active(w)
    BY <1>4, <2>1, <2>2 DEF Tick, Holding, Active, Pass
  <2>4. pass'[w] = [pass[w] EXCEPT !.age = @ + 1] /\ pass[w].age < MaxPass
    BY <1>4, <2>3 DEF Tick
  <2> DEFINE r == pass[w].row
  <2>5. r \in Rows /\ row[r] \in Row /\ row[r].claim = w /\ row[r].age = pass[w].age
    BY <2>3 DEF HasRow, Exclusive
  <2>6. row'[r] = [row[r] EXCEPT !.age = Older(@)]
    BY <1>4, <2>5, MarkersAssumption DEF Tick
  <2>7. Older(row[r].age) = pass[w].age + 1
    BY <2>2, <2>4, <2>5, OutboxAssumption DEF Older, AgeCap, Pass
  <2> QED BY <2>2, <2>4, <2>5, <2>6, <2>7 DEF Pass, Row
<1>5. ASSUME NEW w \in Workers, StartPass(w) PROVE LeasesKept
  BY <1>5 DEF StartPass, LeasesKept, Holding, Pass
<1>6. ASSUME NEW w \in Workers, NEW r \in Rows, Claim(w, r) PROVE Exclusive'
  <2>1. /\ row' = [row EXCEPT ![r] = [row[r] EXCEPT !.claim = w, !.age = pass[w].age]]
        /\ pass' = [pass EXCEPT ![w] = [pass[w] EXCEPT !.phase = "checking",
                                           !.row = r, !.done = @ \union {r}]]
    BY <1>6 DEF Claim
  <2>2. ASSUME NEW v \in Workers, v # w, Holding(v), pass[v].row = r PROVE FALSE
    <3>1. row[r].claim = v /\ row[r].age = pass[v].age
      BY <2>2 DEF Exclusive
    <3>2. Stale(r, w)
      BY <1>6, <3>1, MarkersAssumption DEF Claim, Eligible
    <3>3. pass[v].age \in 0..MaxPass /\ pass[w].age \in 0..MaxPass
      BY DEF Pass
    <3> QED BY <3>1, <3>2, <3>3, OutboxAssumption DEF Stale
  <2>3. ASSUME NEW v \in Workers, Holding(v)'
        PROVE  /\ row'[pass'[v].row].claim = v
               /\ row'[pass'[v].row].age = pass'[v].age
    <3>1. CASE v = w
      BY <2>1, <3>1 DEF Row, Pass
    <3>2. CASE v # w
      <4>1. pass'[v] = pass[v] /\ Holding(v)
        BY <2>1, <2>3, <3>2 DEF Holding
      <4>2. pass[v].row # r /\ pass[v].row \in Rows
        BY <2>2, <3>2, <4>1 DEF HasRow
      <4> QED BY <2>1, <4>1, <4>2 DEF Exclusive
    <3> QED BY <3>1, <3>2
  <2> QED BY <2>3 DEF Exclusive
<1>7. ASSUME NEW w \in Workers, EndPass(w) \/ Abort(w) PROVE LeasesKept
  <2>1. row' = Disowned(w) /\ pass' = [pass EXCEPT ![w] = Idle]
    BY <1>7 DEF EndPass, Abort
  <2>2. ASSUME NEW v \in Workers, Holding(v)'
        PROVE  Holding(v) /\ pass'[v] = pass[v] /\ v # w
    BY <2>1, <2>2 DEF Holding, Idle
  <2>3. ASSUME NEW v \in Workers, Holding(v)'
        PROVE  row'[pass[v].row] = row[pass[v].row]
    <3>1. Holding(v) /\ v # w
      BY <2>2, <2>3
    <3>2. pass[v].row \in Rows /\ row[pass[v].row].claim # w
      BY <3>1 DEF HasRow, Exclusive
    <3> QED BY <2>1, <3>2 DEF Disowned
  <2> QED BY <2>2, <2>3 DEF LeasesKept
<1>8. ASSUME NEW w \in Workers,
             Check(w) \/ Release(w) \/ Discard(w) \/ Reserve(w) \/ Send(w) \/ Finalize(w)
      PROVE  LeasesKept
  <2>1. OwnStep(w) /\ Holding(w) /\ pass[w].row \in Rows
    BY <1>8, WorkIsOwn
  <2>2. ASSUME NEW v \in Workers, v # w, Holding(v)'
        PROVE  /\ Holding(v) /\ pass'[v] = pass[v]
               /\ row'[pass[v].row] = row[pass[v].row]
    <3>1. Holding(v) /\ pass'[v] = pass[v] /\ pass[v].row \in Rows
      BY <2>1, <2>2 DEF OwnStep, Holding, HasRow
    <3>2. row[pass[v].row].claim = v
      BY <3>1 DEF Exclusive
    <3> QED BY <2>1, <2>2, <3>1, <3>2 DEF OwnStep
  <2> QED BY <2>1, <2>2 DEF OwnStep, LeasesKept
<1>9. CASE UNCHANGED vars
  <2>1. row' = row /\ pass' = pass
    BY <1>9 DEF vars
  <2> QED BY <1>2, <2>1 DEF LeasesKept, Holding
<1> QED BY <1>2, <1>3, <1>4, <1>5, <1>6, <1>7, <1>8, <1>9 DEF Next, PassStep

-----------------------------------------------------------------------------
(* Under the same condition, without aborted passes and with a transport   *)
(* that answers truly, an e-mail is accepted once.                         *)

Timely == MaxPass <= Lease /\ MaxAborts = 0 /\ ~Ambiguous

Working(w) ==
  pass[w].phase \in {"discarding", "reserving", "sending", "finalizing"}

\* The row a pass works on is open, with the attempt it reserved; an accepted
\* row is sent or about to be recorded as sent by its holder.
Delivery ==
  /\ \A w \in Workers : Working(w) => Open(pass[w].row)
  /\ \A w \in Workers : pass[w].phase \in {"sending", "finalizing"} =>
       row[pass[w].row].attempts = pass[w].reserved
  /\ \A r \in Rows : accepted[r] <= 1
  /\ \A r \in Rows : row[r].discarded => accepted[r] = 0
  /\ \A r \in Rows : accepted[r] > 0 =>
       row[r].sent \/ \E w \in Workers : Reported(w) /\ pass[w].row = r

\* A step that touches neither outcomes, nor attempts, nor working passes.
DeliveryKept ==
  /\ accepted' = accepted
  /\ \A r \in Rows : /\ row'[r].sent = row[r].sent
                      /\ row'[r].discarded = row[r].discarded
                      /\ row'[r].attempts = row[r].attempts
  /\ \A w \in Workers : Working(w) \/ Working(w)' =>
       /\ pass'[w].phase = pass[w].phase /\ pass'[w].row = pass[w].row
       /\ pass'[w].reserved = pass[w].reserved /\ pass'[w].ok = pass[w].ok

LEMMA KeptDelivery ==
  ASSUME TypeInv, Delivery, DeliveryKept
  PROVE  Delivery'
<1>1. ASSUME NEW w \in Workers, Working(w)'
      PROVE  /\ Working(w) /\ pass[w].row \in Rows /\ pass'[w].row = pass[w].row
             /\ pass'[w].phase = pass[w].phase
             /\ pass'[w].reserved = pass[w].reserved
  BY <1>1 DEF DeliveryKept, Working, TypeInv, HasRow, Holding
<1>2. \A w \in Workers : Working(w)' =>
        ~row'[pass'[w].row].sent /\ ~row'[pass'[w].row].discarded
  BY <1>1 DEF Delivery, DeliveryKept, Open
<1>3. \A w \in Workers : pass'[w].phase \in {"sending", "finalizing"} =>
        row'[pass'[w].row].attempts = pass'[w].reserved
  BY <1>1 DEF Delivery, DeliveryKept, Working
<1>4. \A r \in Rows : accepted'[r] > 0 =>
        row'[r].sent \/ \E w \in Workers : Reported(w)' /\ pass'[w].row = r
  <2>1. ASSUME NEW w \in Workers, Reported(w)
        PROVE  Reported(w)' /\ pass'[w].row = pass[w].row
    BY <2>1 DEF DeliveryKept, Reported, Working
  <2> QED BY <2>1 DEF Delivery, DeliveryKept
<1>5. \A r \in Rows : accepted'[r] <= 1 /\ (row'[r].discarded => accepted'[r] = 0)
  BY DEF Delivery, DeliveryKept
<1> QED BY <1>2, <1>3, <1>4, <1>5 DEF Delivery, Open

LEMMA DeliveryKeptBy ==
  ASSUME TypeInv, [Next]_vars, Timely,
         ~\E w \in Workers : Check(w) \/ Discard(w) \/ Reserve(w) \/ Send(w)
                              \/ Finalize(w)
  PROVE  DeliveryKept
<1> USE DEF TypeInv, TypeOK, DeliveryKept, Working
<1>1. ASSUME NEW r \in Rows, Enqueue(r) \/ ChangeRecipient(r) \/ BackoffOver(r)
      PROVE  DeliveryKept
  <2>1. CASE Enqueue(r)
    BY <2>1 DEF Enqueue, Row
  <2>2. CASE ChangeRecipient(r)
    BY <2>2 DEF ChangeRecipient
  <2>3. CASE BackoffOver(r)
    <3>1. row' = [row EXCEPT ![r].waiting = FALSE]
            /\ accepted' = accepted /\ pass' = pass
      BY <2>3 DEF BackoffOver
    <3> QED BY <3>1 DEF Row
  <2> QED BY <1>1, <2>1, <2>2, <2>3
<1>2. CASE Tick
  BY <1>2 DEF Tick, Active, Row, Pass
<1>3. ASSUME NEW w \in Workers, StartPass(w) PROVE DeliveryKept
  BY <1>3 DEF StartPass, Pass
<1>4. ASSUME NEW w \in Workers, NEW r \in Rows, Claim(w, r) PROVE DeliveryKept
  BY <1>4 DEF Claim, Pass, Row
<1>5. ASSUME NEW w \in Workers, EndPass(w) PROVE DeliveryKept
  <2>1. /\ row' = Disowned(w) /\ accepted' = accepted
        /\ pass' = [pass EXCEPT ![w] = Idle]
    BY <1>5 DEF EndPass
  <2>2. \A r \in Rows : /\ row'[r].sent = row[r].sent
                         /\ row'[r].discarded = row[r].discarded
                         /\ row'[r].attempts = row[r].attempts
    BY <2>1 DEF Disowned, Row
  <2>3. \A v \in Workers : v # w => pass'[v] = pass[v]
    BY <2>1
  <2>4. ~Working(w)' /\ ~Working(w)
    BY <1>5, <2>1 DEF Idle, EndPass
  <2> QED BY <2>1, <2>2, <2>3, <2>4
<1>6. ASSUME NEW w \in Workers, Release(w) PROVE DeliveryKept
  <2>1. \A r \in Rows : /\ row'[r].sent = row[r].sent
                         /\ row'[r].discarded = row[r].discarded
                         /\ row'[r].attempts = row[r].attempts
    BY <1>6 DEF Release, Write, Row
  <2>2. /\ \A v \in Workers : v # w => pass'[v] = pass[v]
        /\ ~Working(w)' /\ ~Working(w) /\ accepted' = accepted
    BY <1>6 DEF Release, NextRow, Pass
  <2> QED BY <2>1, <2>2
<1>7. ASSUME NEW w \in Workers, Abort(w) PROVE FALSE
  BY <1>7 DEF Abort, Timely
<1>8. CASE UNCHANGED vars
  BY <1>8 DEF vars
<1> QED BY <1>1, <1>2, <1>3, <1>4, <1>5, <1>6, <1>7, <1>8 DEF Next, PassStep

\* What a step of w on its row must establish.
LEMMA OwnDelivery ==
  ASSUME TypeInv, Exclusive, Delivery, NEW w \in Workers, OwnStep(w),
         Holding(w), pass[w].row \in Rows,
         accepted'[pass[w].row] <= 1,
         \A q \in Rows : q # pass[w].row => accepted'[q] = accepted[q],
         Working(w)' => /\ pass'[w].row = pass[w].row
                        /\ Open(pass[w].row)',
         pass'[w].phase \in {"sending", "finalizing"} =>
           row'[pass[w].row].attempts = pass'[w].reserved,
         row'[pass[w].row].discarded => accepted'[pass[w].row] = 0,
         accepted'[pass[w].row] > 0 =>
           row'[pass[w].row].sent \/ (Reported(w)' /\ pass'[w].row = pass[w].row)
  PROVE  Delivery'
<1> DEFINE r == pass[w].row
<1>1. ASSUME NEW v \in Workers, v # w
      PROVE  /\ pass'[v] = pass[v]
             /\ Holding(v) => /\ pass[v].row \in Rows /\ pass[v].row # r
                             /\ row'[pass[v].row] = row[pass[v].row]
  BY <1>1 DEF OwnStep, Exclusive, TypeInv, HasRow
<1>2. ASSUME NEW v \in Workers, Working(v)' PROVE Open(pass[v].row)' /\ pass'[v].row = pass[v].row
  <2>1. CASE v = w
    BY <1>2, <2>1
  <2>2. CASE v # w
    <3>1. Working(v) /\ Holding(v)
      BY <1>1, <1>2, <2>2 DEF Working, Holding
    <3> QED BY <1>1, <2>2, <3>1 DEF Delivery, Open
  <2> QED BY <2>1, <2>2
<1>3. ASSUME NEW v \in Workers, pass'[v].phase \in {"sending", "finalizing"}
      PROVE  row'[pass'[v].row].attempts = pass'[v].reserved
  <2>1. CASE v = w
    BY <1>3, <2>1 DEF Working
  <2>2. CASE v # w
    <3>1. Holding(v)
      BY <1>1, <1>3, <2>2 DEF Holding
    <3> QED BY <1>1, <1>3, <2>2, <3>1 DEF Delivery
  <2> QED BY <2>1, <2>2
<1>4. ASSUME NEW q \in Rows
      PROVE  /\ accepted'[q] <= 1
             /\ row'[q].discarded => accepted'[q] = 0
             /\ accepted'[q] > 0 => row'[q].sent
                  \/ \E v \in Workers : Reported(v)' /\ pass'[v].row = q
  <2>1. CASE q = r
    BY <2>1
  <2>2. CASE q # r
    <3>1. row'[q] = row[q] /\ accepted'[q] = accepted[q]
      BY <2>2 DEF OwnStep
    <3>2. ASSUME NEW v \in Workers, Reported(v), pass[v].row = q
          PROVE  Reported(v)' /\ pass'[v].row = q
      BY <1>1, <2>2, <3>2 DEF Reported
    <3> QED BY <3>1, <3>2 DEF Delivery
  <2> QED BY <2>1, <2>2
<1>5. \A v \in Workers : Working(v)' =>
        ~row'[pass'[v].row].sent /\ ~row'[pass'[v].row].discarded
  BY <1>2 DEF Open
<1> QED BY <1>3, <1>4, <1>5 DEF Delivery, Open

\* A pass that has not reported yet works on a row nobody accepted.
LEMMA NotYetAccepted ==
  ASSUME TypeInv, Exclusive, Delivery, NEW w \in Workers,
         Holding(w), ~Reported(w), ~row[pass[w].row].sent
  PROVE  accepted[pass[w].row] = 0
<1>1. pass[w].row \in Rows /\ accepted[pass[w].row] \in Nat
  BY DEF TypeInv, TypeOK, HasRow
<1>2. ASSUME NEW v \in Workers, Reported(v), pass[v].row = pass[w].row PROVE FALSE
  BY <1>2 DEF Exclusive, Reported, Holding
<1> QED BY <1>1, <1>2 DEF Delivery

LEMMA DeliveryStep ==
  ASSUME TypeInv, Exclusive, Delivery, [Next]_vars, Timely
  PROVE  Delivery'
<1>1. CASE ~\E w \in Workers : Check(w) \/ Discard(w) \/ Reserve(w) \/ Send(w)
                                \/ Finalize(w)
  BY <1>1, DeliveryKeptBy, KeptDelivery
<1>2. ASSUME NEW w \in Workers,
             Check(w) \/ Discard(w) \/ Reserve(w) \/ Send(w) \/ Finalize(w)
      PROVE  Delivery'
  <2> DEFINE r == pass[w].row
  <2>1. OwnStep(w) /\ Holding(w) /\ r \in Rows
    BY <1>2, WorkIsOwn
  <2>2. row[r] \in Row /\ pass[w] \in Pass /\ accepted[r] \in Nat /\ row[r].claim = w
    BY <2>1 DEF TypeInv, TypeOK, Exclusive
  <2>3. CASE Check(w)
    <3>1. /\ row' = row /\ accepted' = accepted
          /\ pass'[w] = [pass[w] EXCEPT !.phase = pass'[w].phase]
          /\ pass'[w].phase \in {"releasing", "discarding", "reserving"}
          /\ pass'[w].phase # "releasing" => Open(r)
      BY <2>2, <2>3 DEF Check, Open, TypeInv, TypeOK, Pass
    <3>2. ~Reported(w)
      BY <2>3 DEF Check, Reported
    <3>3. accepted[r] <= 1 /\ (row[r].discarded => accepted[r] = 0)
            /\ (accepted[r] > 0 => row[r].sent)
      BY <2>1, <2>2, <3>2, NotYetAccepted DEF Delivery
    <3>4. pass'[w].row = r
      BY <2>2, <3>1 DEF Pass
    <3> QED BY <2>1, <3>1, <3>3, <3>4, OwnDelivery DEF Working, Open
  <2>4. CASE Discard(w)
    <3>1. Open(r) /\ ~Reported(w)
      BY <2>4 DEF Discard, Delivery, Working, Reported
    <3>2. accepted[r] = 0
      BY <2>1, <3>1, NotYetAccepted DEF Open
    <3>3. accepted' = accepted /\ pass'[w].phase = "claiming"
      BY <2>2, <2>4 DEF Discard, NextRow, TypeInv, TypeOK, Pass
    <3> QED BY <2>1, <3>2, <3>3, OwnDelivery DEF Working
  <2>5. CASE Reserve(w)
    <3>1. Open(r) /\ ~Reported(w)
      BY <2>5 DEF Reserve, Delivery, Working, Reported
    <3>2. accepted[r] = 0 /\ accepted' = accepted
      BY <2>1, <2>5, <3>1, NotYetAccepted DEF Open, Reserve
    <3>3. CASE MayReserve(w, r)
      <4>1. /\ row'[r] = [row[r] EXCEPT !.attempts = @ + 1, !.ok = FALSE]
            /\ pass'[w] = [pass[w] EXCEPT !.phase = "sending",
                                          !.reserved = row[r].attempts + 1]
        BY <2>1, <2>5, <3>3 DEF Reserve, Write, TypeInv, TypeOK
      <4>2. /\ pass'[w].row = r /\ row'[r].attempts = pass'[w].reserved
            /\ row'[r].sent = row[r].sent /\ row'[r].discarded = row[r].discarded
        BY <2>2, <4>1 DEF Row, Pass
      <4> QED BY <2>1, <3>1, <3>2, <4>2, OwnDelivery DEF Open
    <3>4. CASE ~MayReserve(w, r)
      <4>1. pass'[w].phase = "claiming"
        BY <2>2, <2>5, <3>4 DEF Reserve, NextRow, TypeInv, TypeOK, Pass
      <4> QED BY <2>1, <3>2, <4>1, OwnDelivery DEF Working
    <3> QED BY <3>3, <3>4
  <2>6. CASE Send(w)
    <3>1. Open(r) /\ ~Reported(w) /\ row[r].attempts = pass[w].reserved
      BY <2>6 DEF Send, Delivery, Working, Reported
    <3>2. accepted[r] = 0
      BY <2>1, <3>1, NotYetAccepted DEF Open
    <3>3. PICK taken, reported \in BOOLEAN :
            /\ taken /\ ~reported => Ambiguous
            /\ accepted' = [accepted EXCEPT ![r] = IF taken THEN @ + 1 ELSE @]
            /\ pass' = [pass EXCEPT ![w].phase = "finalizing", ![w].ok = reported]
      BY <2>6 DEF Send
    <3>4. /\ pass'[w].row = r /\ pass'[w].phase = "finalizing"
          /\ pass'[w].ok = reported /\ pass'[w].reserved = pass[w].reserved
      BY <2>2, <3>3 DEF TypeInv, TypeOK, Pass
    <3>5. /\ accepted'[r] <= 1 /\ (accepted'[r] > 0 => taken)
          /\ \A q \in Rows : q # r => accepted'[q] = accepted[q]
      BY <2>1, <3>2, <3>3 DEF TypeInv, TypeOK
    <3>6. row' = row
      BY <2>6 DEF Send
    <3> QED BY <2>1, <3>1, <3>3, <3>4, <3>5, <3>6, OwnDelivery
            DEF Open, Timely, Reported
  <2>7. CASE Finalize(w)
    <3>1. MayFinalize(w, r)
      BY <2>2, <2>7 DEF Finalize, Delivery, Working, MayFinalize, Owns
    <3>2. row'[r] = [row[r] EXCEPT !.claim = Unclaimed, !.age = 0,
                       !.ok = pass[w].ok, !.sent = @ \/ pass[w].ok,
                       !.waiting = @ \/ ~pass[w].ok]
      BY <2>1, <2>7, <3>1 DEF Finalize, Write, TypeInv, TypeOK
    <3>3. accepted' = accepted /\ pass'[w].phase = "claiming"
      BY <2>2, <2>7 DEF Finalize, NextRow, TypeInv, TypeOK, Pass
    <3>4. Open(r)
      BY <3>1 DEF MayFinalize
    <3>5. ~row'[r].discarded
      BY <2>2, <3>2, <3>4 DEF Row, Open
    <3>6. accepted[r] > 0 => row'[r].sent
      <4>1. CASE Reported(w)
        BY <2>2, <3>2, <4>1 DEF Reported, Row, Pass
      <4>2. CASE ~Reported(w)
        BY <2>1, <2>2, <3>4, <4>2, NotYetAccepted DEF Open
      <4> QED BY <4>1, <4>2
    <3> QED BY <2>1, <3>3, <3>5, <3>6, OwnDelivery DEF Working, Delivery
  <2> QED BY <1>2, <2>3, <2>4, <2>5, <2>6, <2>7
<1> QED BY <1>1, <1>2

\* When no pass outlives the lease, none is cut short and the transport
\* answers truly, each e-mail is accepted at most once and a discarded one
\* never: the frozen clock of a pass and the takeover of old claims do no harm.
THEOREM AcceptedOnce ==
  ASSUME Timely
  PROVE  Spec => [](SendsOnce /\ DiscardedUnsent)
<1> DEFINE Inv == TypeInv /\ Exclusive /\ Delivery
<1>1. Init => Inv
  BY TypeInit DEF Init, Exclusive, Delivery, Holding, Working, Idle
<1>2. Inv /\ [Next]_vars => Inv'
  BY TypeStep, ExclusiveStep, DeliveryStep DEF Timely
<1>3. Inv => SendsOnce /\ DiscardedUnsent
  BY DEF Delivery, SendsOnce, DiscardedUnsent
<1> QED BY <1>1, <1>2, <1>3, PTL DEF Spec

-----------------------------------------------------------------------------
(* The lease protects a row from every pass but its holder's.  Only a row  *)
(* that was queued is ever claimed, so a repeated request event never      *)
(* meets a claimed one.                                                    *)

LeasedQueued == \A r \in Rows : row[r].claim # Unclaimed => row[r].queued

LeaseInv == TypeInv /\ LeasedQueued

\* A step that changes no more of a row than its age and its back-off.
Untouched(r) ==
  [row'[r] EXCEPT !.age = 0, !.waiting = FALSE]
    = [row[r] EXCEPT !.age = 0, !.waiting = FALSE]

LEMMA AgedUntouched ==
  ASSUME NEW r \in Rows, row[r] \in Row,
         \/ row'[r] = row[r]
         \/ \E n : row'[r] = [row[r] EXCEPT !.age = n]
         \/ row'[r] = [row[r] EXCEPT !.waiting = FALSE]
  PROVE  Untouched(r) /\ row'[r].claim = row[r].claim
                      /\ row'[r].queued = row[r].queued
  BY DEF Untouched, Row

\* What a pass writes it writes to its own row, and only with its token.
LEMMA OwnWrite ==
  ASSUME TypeInv, NEW w \in Workers,
         Release(w) \/ Discard(w) \/ Reserve(w) \/ Finalize(w)
  PROVE  /\ pass'[w] # pass[w]
         /\ \A r \in Rows : row'[r] # row[r] => row[r].claim = w
         /\ \A r \in Rows : row'[r].queued = row[r].queued
<1> DEFINE r == pass[w].row
<1>1. r \in Rows /\ row[r] \in Row /\ pass[w] \in Pass
  BY DEF TypeInv, TypeOK, HasRow, Holding, Release, Discard, Reserve, Finalize
<1>2. row \in [Rows -> Row] /\ pass \in [Workers -> Pass]
  BY DEF TypeInv, TypeOK
<1>3. NextRow(w).phase = "claiming"
  BY <1>1 DEF NextRow, Pass
<1>4. CASE Release(w)
  BY <1>1, <1>2, <1>3, <1>4 DEF Release, Write, Owns, Row
<1>5. CASE Discard(w)
  BY <1>1, <1>2, <1>3, <1>5 DEF Discard, Write, Owns, Row
<1>6. CASE Reserve(w)
  <2>1. pass'[w].phase \in {"sending", "claiming"} /\ pass[w].phase = "reserving"
    BY <1>1, <1>2, <1>3, <1>6 DEF Reserve, Pass
  <2>2. /\ \A q \in Rows : row'[q] # row[q] => row[q].claim = w
        /\ \A q \in Rows : row'[q].queued = row[q].queued
    BY <1>1, <1>2, <1>6 DEF Reserve, Write, MayReserve, Owns, Row
  <2> QED BY <2>1, <2>2
<1>7. CASE Finalize(w)
  BY <1>1, <1>2, <1>3, <1>7 DEF Finalize, Write, MayFinalize, Owns, Row
<1> QED BY <1>4, <1>5, <1>6, <1>7

\* Each step leaves a claimed row untouched, or is its holder's, or takes over
\* a claim that has run out.
LEMMA LeaseRespected ==
  ASSUME LeaseInv, [Next]_vars, NEW r \in Rows
  PROVE  /\ row'[r].claim # Unclaimed => row'[r].queued
         /\ \A w \in Workers : row[r].claim = w =>
              Untouched(r) \/ pass'[w] # pass[w] \/ Lost(r, w)
<1> DEFINE Respected ==
             /\ row'[r].claim # Unclaimed => row'[r].queued
             /\ \A w \in Workers : row[r].claim = w =>
                  Untouched(r) \/ pass'[w] # pass[w] \/ Lost(r, w)
<1>1. /\ row \in [Rows -> Row] /\ row[r] \in Row
      /\ pass \in [Workers -> Pass]
      /\ row[r].claim # Unclaimed => row[r].queued
  BY DEF LeaseInv, TypeInv, TypeOK, LeasedQueued
<1>2. ASSUME \/ row'[r] = row[r]
             \/ \E n : row'[r] = [row[r] EXCEPT !.age = n]
             \/ row'[r] = [row[r] EXCEPT !.waiting = FALSE]
      PROVE  Respected
  BY <1>1, <1>2, AgedUntouched
<1>3. ASSUME NEW q \in Rows, Enqueue(q) PROVE Respected
  <2>1. CASE q = r
    <3>1. row'[r] = [row[r] EXCEPT !.queued = TRUE] /\ ~row[r].queued
      BY <1>1, <1>3, <2>1 DEF Enqueue
    <3>2. row[r].claim = Unclaimed /\ row'[r].claim = Unclaimed
      BY <1>1, <3>1 DEF Row
    <3> QED BY <3>2, MarkersAssumption
  <2>2. CASE q # r
    BY <1>1, <1>2, <1>3, <2>2 DEF Enqueue
  <2> QED BY <2>1, <2>2
<1>4. ASSUME NEW q \in Rows, ChangeRecipient(q) PROVE Respected
  BY <1>2, <1>4 DEF ChangeRecipient
<1>5. ASSUME NEW q \in Rows, BackoffOver(q) PROVE Respected
  <2>1. row' = [row EXCEPT ![q] = [row[q] EXCEPT !.waiting = FALSE]]
    BY <1>1, <1>5 DEF BackoffOver
  <2> QED BY <1>1, <1>2, <2>1
<1>6. ASSUME NEW w \in Workers, StartPass(w) \/ Check(w) \/ Send(w)
      PROVE  Respected
  <2>1. row' = row
    BY <1>6 DEF StartPass, Check, Send
  <2> QED BY <1>2, <2>1
<1>7. ASSUME NEW v \in Workers, NEW q \in Rows, Claim(v, q) PROVE Respected
  <2>1. CASE q = r
    <3>1. row'[r] = [row[r] EXCEPT !.claim = v, !.age = pass[v].age]
      BY <1>1, <1>7, <2>1 DEF Claim
    <3>2. row'[r].claim = v /\ row'[r].queued
      BY <1>1, <1>7, <2>1, <3>1 DEF Claim, Eligible, Row
    <3>3. ASSUME NEW w \in Workers, row[r].claim = w, pass'[w] = pass[w]
          PROVE  Lost(r, w)
      <4>1. pass'[v].phase = "checking" /\ pass[v].phase = "claiming"
        BY <1>1, <1>7 DEF Claim, Pass
      <4>2. v # w
        BY <3>3, <4>1
      <4>3. row[r].age > Lease + pass[v].age
        BY <1>7, <2>1, <3>3, MarkersAssumption DEF Claim, Eligible, Stale
      <4>4. row[r].age \in Nat /\ pass[v].age \in Nat /\ Lease \in Nat
        BY <1>1, OutboxAssumption DEF Row, Pass, AgeCap
      <4> QED BY <3>2, <4>2, <4>3, <4>4 DEF Lost
    <3> QED BY <3>2, <3>3
  <2>2. CASE q # r
    BY <1>1, <1>2, <1>7, <2>2 DEF Claim
  <2> QED BY <2>1, <2>2
<1>8. ASSUME NEW v \in Workers, EndPass(v) \/ Abort(v) PROVE Respected
  <2>1. /\ row' = Disowned(v) /\ pass'[v] = Idle
        /\ pass[v].phase # "idle"
    BY <1>1, <1>8 DEF EndPass, Abort, Active
  <2>2. CASE row[r].claim = v
    <3>1. row'[r] = [row[r] EXCEPT !.claim = Abandoned]
      BY <2>1, <2>2 DEF Disowned
    <3>2. row'[r].queued
      BY <1>1, <2>2, <3>1, MarkersAssumption DEF Row
    <3>3. pass'[v] # pass[v]
      BY <2>1 DEF Idle
    <3> QED BY <2>2, <3>2, <3>3
  <2>3. CASE row[r].claim # v
    BY <1>2, <2>1, <2>3 DEF Disowned
  <2> QED BY <2>2, <2>3
<1>9. ASSUME NEW v \in Workers,
             Release(v) \/ Discard(v) \/ Reserve(v) \/ Finalize(v)
      PROVE  Respected
  <2>1. CASE row'[r] = row[r]
    BY <1>2, <2>1
  <2>2. CASE row'[r] # row[r]
    BY <1>1, <1>9, <2>2, OwnWrite, MarkersAssumption DEF LeaseInv
  <2> QED BY <2>1, <2>2
<1>10. CASE Tick
  BY <1>1, <1>2, <1>10 DEF Tick
<1>11. CASE UNCHANGED vars
  BY <1>2, <1>11 DEF vars
<1> QED BY <1>3, <1>4, <1>5, <1>6, <1>7, <1>8, <1>9, <1>10, <1>11
        DEF Next, PassStep

\* Nobody but the holder of a lease that runs changes what it protects, in
\* passes of any length, aborted ones and lying transports included.
THEOREM OthersKeepOff == Spec => OwnerWrites
<1> DEFINE Respect == \A r \in Rows, w \in Workers :
             /\ row[r].claim = w
             /\ [row'[r] EXCEPT !.age = 0, !.waiting = FALSE]
                  # [row[r] EXCEPT !.age = 0, !.waiting = FALSE]
             => pass'[w] # pass[w] \/ Lost(r, w)
<1>1. Init => LeaseInv
  BY TypeInit DEF Init, LeaseInv, LeasedQueued
<1>2. LeaseInv /\ [Next]_vars => LeaseInv'
  BY TypeStep, LeaseRespected DEF LeaseInv, LeasedQueued
<1>3. LeaseInv /\ [Next]_vars => [Respect]_vars
  BY LeaseRespected DEF Untouched
<1> QED BY <1>1, <1>2, <1>3, PTL DEF Spec, OwnerWrites
=============================================================================
