--------------------- MODULE ProductivityDispatchProofs ---------------------
(***************************************************************************)
(* Proofs about the productivity reports, for any number of reports and    *)
(* workers and any cap of attempts.                                        *)
(*                                                                         *)
(* The argument: while a report has met no mishap, the worker that holds   *)
(* it is the only one and its token is the one on the row, because a lease *)
(* is taken only from nobody or from the dead.  An accepted e-mail is then *)
(* either recorded or known to that holder, so nobody sends another.       *)
(***************************************************************************)
EXTENDS ProductivityDispatch, TLAPS

\* A worker between its claim and the record of the result.
Holding(w) == worker[w].phase \in {"claimed", "answered"}

Holders ==
  \A w \in Workers :
    /\ Holding(w) => /\ worker[w].report \in Reports
                     /\ worker[w].token > 0
    /\ worker[w].ok => /\ worker[w].phase = "answered"
                       /\ sent[worker[w].report] > 0

Recorded == \A r \in Reports : run[r].ok => run[r].claim = 0 /\ sent[r] > 0

Sure ==
  \A r \in Reports \ unsure :
    /\ \A w \in Workers : Holds(w, r) => /\ run[r].claim = worker[w].token
                                         /\ ~run[r].expired
    /\ \A v, w \in Workers : Holds(v, r) /\ Holds(w, r) => v = w
    /\ sent[r] <= 1
    /\ sent[r] > 0 => \/ run[r].ok
                      \/ \E w \in Workers : Holds(w, r) /\ worker[w].ok

IInv == TypeOK /\ Holders /\ Recorded /\ Sure

LEMMA InitInv == Init => IInv
  BY DEF Init, IInv, TypeOK, Holders, Recorded, Sure, Holding, Holds, Run,
     Worker, Idle

-----------------------------------------------------------------------------
\* Type correctness.
LEMMA TypeStep == TypeOK /\ Holders /\ [Next]_vars => TypeOK'
<1> SUFFICES ASSUME TypeOK, Holders, [Next]_vars  PROVE TypeOK'
  OBVIOUS
<1> USE DEF TypeOK
<1>0. Idle \in Worker
  BY DEF Idle, Worker
<1>1. ASSUME NEW r \in Reports, LeaseEnds(r)  PROVE TypeOK'
  BY <1>1 DEF LeaseEnds, Run
<1>2. ASSUME NEW r \in Reports, DelayOver(r)  PROVE TypeOK'
  BY <1>2 DEF DelayOver, Run
<1>3. ASSUME NEW w \in Workers, Tick(w)  PROVE TypeOK'
  <2>1. \A due \in SUBSET Reports :
          [Idle EXCEPT !.phase = "looking", !.todo = due] \in Worker
    BY DEF Idle, Worker
  <2> QED  BY <1>3, <2>1 DEF Tick
<1>4. ASSUME NEW w \in Workers, NEW r \in Reports, Skip(w, r)  PROVE TypeOK'
  BY <1>4 DEF Skip, Worker
<1>5. ASSUME NEW w \in Workers, NEW r \in Reports, Claim(w, r)  PROVE TypeOK'
  <2>1. run' \in [Reports -> Run]  BY <1>5 DEF Claim, Run
  <2>2. run[r].attempts + 1 \in Nat  BY DEF Run
  <2> DEFINE mine == [worker[w] EXCEPT !.phase = "claimed", !.report = r,
                                       !.token = run[r].attempts + 1]
  <2>3. mine \in Worker  BY <2>2 DEF Worker
  <2>4. worker' = [worker EXCEPT ![w] = mine]  BY <1>5 DEF Claim
  <2>5. worker' \in [Workers -> Worker]  BY <2>3, <2>4
  <2> QED  BY <1>5, <2>1, <2>5 DEF Claim
<1>6. ASSUME NEW w \in Workers, NEW ok \in BOOLEAN, Answered(w, ok)
      PROVE  worker' \in [Workers -> Worker]
  BY <1>6 DEF Answered, Worker
<1>7. ASSUME NEW w \in Workers, Undeliverable(w)  PROVE TypeOK'
  BY <1>6, <1>7 DEF Undeliverable
<1>8. ASSUME NEW w \in Workers, Send(w)  PROVE TypeOK'
  <2>1. worker[w].report \in Reports
    BY <1>8 DEF Send, Holders, Holding
  <2>2. worker' \in [Workers -> Worker]
    BY <1>6, <1>8 DEF Send
  <2>3. \/ sent' = sent
        \/ sent' = [sent EXCEPT ![worker[w].report] = @ + 1]
    BY <1>8 DEF Send
  <2>4. sent' \in [Reports -> Nat]  BY <2>1, <2>3
  <2>5. unsure' \subseteq Reports /\ run' = run
    BY <1>8, <2>1 DEF Send
  <2> QED  BY <2>2, <2>4, <2>5
<1>9. ASSUME NEW w \in Workers, Finish(w)  PROVE TypeOK'
  <2>1. worker[w].report \in Reports /\ worker[w].ok \in BOOLEAN
    BY <1>9 DEF Finish, Holders, Holding, Worker
  <2>2. run' \in [Reports -> Run]
    BY <1>9, <2>1 DEF Finish, Run
  <2>3. worker' \in [Workers -> Worker]
    BY <1>0, <1>9 DEF Finish, Worker
  <2> QED  BY <1>9, <2>2, <2>3 DEF Finish
<1>10. ASSUME NEW w \in Workers, Done(w)  PROVE TypeOK'
  BY <1>0, <1>10 DEF Done
<1>11. ASSUME NEW w \in Workers, Crash(w)  PROVE TypeOK'
  BY <1>0, <1>11 DEF Crash
<1>12. CASE UNCHANGED vars
  BY <1>12 DEF vars
<1> QED
  BY <1>1, <1>2, <1>3, <1>4, <1>5, <1>7, <1>8, <1>9, <1>10, <1>11, <1>12
     DEF Next, TickStep

-----------------------------------------------------------------------------
\* An answer changes one worker, and no e-mail is taken back.
LEMMA SendEffect ==
  ASSUME TypeOK, Holders, NEW w \in Workers, Send(w)
  PROVE  /\ worker[w].report \in Reports /\ run' = run
         /\ \A r \in Reports : sent[r] > 0 => sent'[r] > 0
         /\ worker'[w].ok => sent'[worker[w].report] > 0
         /\ \E ok \in BOOLEAN : Answered(w, ok)
<1>1. worker[w].report \in Reports  BY DEF Send, Holders, Holding
<1>2. \E ok \in BOOLEAN : Answered(w, ok)  BY DEF Send
<1>3. \/ sent' = sent
      \/ sent' = [sent EXCEPT ![worker[w].report] = @ + 1]
  BY DEF Send
<1>4. \A r \in Reports : sent[r] > 0 => sent'[r] > 0
  BY <1>1, <1>3 DEF TypeOK
<1>5. worker'[w].ok => sent' = [sent EXCEPT ![worker[w].report] = @ + 1]
  BY DEF Send, Answered, TypeOK, Worker
<1>6. worker'[w].ok => sent'[worker[w].report] > 0
  BY <1>1, <1>5 DEF TypeOK
<1> QED  BY <1>1, <1>2, <1>4, <1>6 DEF Send

\* A tick that begins, ends or dies holds nothing afterwards.
LEMMA FreeEffect ==
  ASSUME TypeOK, NEW w \in Workers, Tick(w) \/ Done(w) \/ Crash(w)
  PROVE  /\ run' = run /\ sent' = sent /\ unsure \subseteq unsure'
         /\ \A v \in Workers : v # w => worker'[v] = worker[v]
         /\ worker'[w].phase \in {"idle", "looking"} /\ ~worker'[w].ok
<1>1. CASE Tick(w)
  <2>1. PICK due \in SUBSET Reports :
          worker' = [worker EXCEPT ![w] = [Idle EXCEPT !.phase = "looking",
                                                       !.todo = due]]
    BY <1>1 DEF Tick
  <2> QED  BY <1>1, <2>1 DEF Tick, Idle, TypeOK
<1>2. CASE Done(w)
  BY <1>2 DEF Done, Idle, TypeOK
<1>3. CASE Crash(w)
  BY <1>3 DEF Crash, Idle, TypeOK
<1> QED  BY <1>1, <1>2, <1>3

\* Time touches no result and no holder.
LEMMA TimeEffect ==
  ASSUME TypeOK, NEW q \in Reports, LeaseEnds(q) \/ DelayOver(q)
  PROVE  /\ worker' = worker /\ sent' = sent
         /\ \A r \in Reports : /\ run'[r].ok = run[r].ok
                               /\ run'[r].claim = run[r].claim
  BY DEF LeaseEnds, DelayOver, TypeOK, Run

\* What a worker holds, and what the rows record.
LEMMA HoldersStep == TypeOK /\ Holders /\ [Next]_vars => Holders'
<1> SUFFICES ASSUME TypeOK, Holders, [Next]_vars  PROVE Holders'
  OBVIOUS
<1> USE DEF TypeOK, Holders, Holding
<1>1. ASSUME NEW r \in Reports, LeaseEnds(r) \/ DelayOver(r)  PROVE Holders'
  BY <1>1, TimeEffect
<1>2. ASSUME NEW w \in Workers, Tick(w) \/ Done(w) \/ Crash(w)
      PROVE  Holders'
  BY <1>2, FreeEffect
<1>3. ASSUME NEW w \in Workers, NEW r \in Reports, Skip(w, r)  PROVE Holders'
  BY <1>3 DEF Skip
<1>4. ASSUME NEW w \in Workers, NEW r \in Reports, Claim(w, r)  PROVE Holders'
  BY <1>4 DEF Claim, Run
<1>5. ASSUME NEW w \in Workers, Undeliverable(w)  PROVE Holders'
  BY <1>5 DEF Undeliverable, Answered
<1>6. ASSUME NEW w \in Workers, Send(w)  PROVE Holders'
  <2>1. PICK ok \in BOOLEAN : Answered(w, ok)  BY <1>6, SendEffect
  <2>2. ASSUME NEW v \in Workers, v # w
        PROVE  worker'[v] = worker[v]
    BY <2>1, <2>2 DEF Answered
  <2>3. worker'[w] = [worker[w] EXCEPT !.phase = "answered", !.ok = ok]
    BY <2>1 DEF Answered
  <2>4. /\ worker'[w].phase = "answered"
        /\ worker'[w].report = worker[w].report
        /\ worker'[w].token = worker[w].token
    BY <2>3 DEF Worker
  <2>5. worker[w].report \in Reports /\ worker[w].token > 0
    BY <1>6 DEF Send
  <2>6. \A v \in Workers : worker[v].ok => worker[v].report \in Reports
    OBVIOUS
  <2>7. \A v \in Workers : worker[v].ok => sent'[worker[v].report] > 0
    BY <1>6, <2>6, SendEffect
  <2> QED  BY <1>6, <2>2, <2>4, <2>5, <2>7, SendEffect
<1>7. ASSUME NEW w \in Workers, Finish(w)  PROVE Holders'
  BY <1>7 DEF Finish, Idle
<1>8. CASE UNCHANGED vars
  BY <1>8 DEF vars
<1> QED
  BY <1>1, <1>2, <1>3, <1>4, <1>5, <1>6, <1>7, <1>8 DEF Next, TickStep

LEMMA RecordedStep == TypeOK /\ Holders /\ Recorded /\ [Next]_vars => Recorded'
<1> SUFFICES ASSUME TypeOK, Holders, Recorded, [Next]_vars  PROVE Recorded'
  OBVIOUS
<1> USE DEF TypeOK, Recorded
<1>1. ASSUME NEW r \in Reports, LeaseEnds(r) \/ DelayOver(r)  PROVE Recorded'
  BY <1>1, TimeEffect
<1>2. ASSUME NEW w \in Workers,
             \/ Tick(w) \/ Done(w) \/ Crash(w) \/ Undeliverable(w)
             \/ \E r \in Reports : Skip(w, r)
      PROVE  Recorded'
  BY <1>2 DEF Tick, Done, Crash, Undeliverable, Skip
<1>3. ASSUME NEW w \in Workers, NEW r \in Reports, Claim(w, r)
      PROVE  Recorded'
  BY <1>3 DEF Claim, Claimable
<1>4. ASSUME NEW w \in Workers, Send(w)  PROVE Recorded'
  BY <1>4, SendEffect
<1>5. ASSUME NEW w \in Workers, Finish(w)  PROVE Recorded'
  <2>1. /\ worker[w].report \in Reports
        /\ worker[w].ok => sent[worker[w].report] > 0
    BY <1>5 DEF Finish, Holders, Holding
  <2> QED  BY <1>5, <2>1 DEF Finish
<1>6. CASE UNCHANGED vars
  BY <1>6 DEF vars
<1> QED
  BY <1>1, <1>2, <1>3, <1>4, <1>5, <1>6 DEF Next, TickStep

-----------------------------------------------------------------------------
\* A report without mishap.

\* Whoever stops holding, or never held, leaves the others' claims alone.
LEMMA SureLeave ==
  ASSUME TypeOK, Holders, Sure, NEW w \in Workers,
         run' = run, sent' = sent, unsure \subseteq unsure',
         \A v \in Workers : v # w => worker'[v] = worker[v],
         worker'[w].phase \in {"idle", "looking"},
         \A r \in Reports \ unsure' : Holds(w, r) => ~worker[w].ok
  PROVE  Sure'
  BY DEF Sure, Holds

LEMMA SureTime ==
  ASSUME TypeOK, Sure, NEW q \in Reports, LeaseEnds(q) \/ DelayOver(q)
  PROVE  Sure'
<1>1. /\ worker' = worker /\ sent' = sent
      /\ \A r \in Reports : /\ run'[r].ok = run[r].ok
                            /\ run'[r].claim = run[r].claim
  BY TimeEffect
<1>2. /\ unsure \subseteq unsure'
      /\ \A r \in Reports \ unsure', w \in Workers :
            Holds(w, r) => run'[r].expired = run[r].expired
  BY DEF LeaseEnds, DelayOver, TypeOK, Run
<1> QED  BY <1>1, <1>2 DEF Sure, Holds

LEMMA SureClaim ==
  ASSUME TypeOK, Holders, Sure, NEW w \in Workers, NEW q \in Reports,
         Claim(w, q)
  PROVE  Sure'
<1>1. /\ \A v \in Workers : v # w => worker'[v] = worker[v]
      /\ worker'[w].phase = "claimed" /\ worker'[w].report = q
      /\ worker'[w].token = run[q].attempts + 1
      /\ worker'[w].ok = worker[w].ok
  BY DEF Claim, TypeOK, Worker
<1>2. /\ run'[q].claim = run[q].attempts + 1 /\ ~run'[q].expired
      /\ ~run[q].ok /\ ~run'[q].ok
      /\ \A r \in Reports : r # q => run'[r] = run[r]
      /\ sent' = sent /\ unsure' = unsure
  BY DEF Claim, Claimable, TypeOK, Run
<1>3. ASSUME q \notin unsure, NEW v \in Workers  PROVE ~Holds(v, q)
  BY <1>3 DEF Claim, Claimable, Sure, Holders, Holding, Holds
<1>4. \A r \in Reports : ~Holds(w, r)
  BY DEF Claim, Holds
<1>5. q \notin unsure => sent[q] = 0
  <2>1. sent[q] \in Nat  BY DEF TypeOK
  <2> QED  BY <1>2, <1>3, <2>1 DEF Sure
<1>6. \A v \in Workers, r \in Reports :
         (Holds(v, r))' <=> IF v = w THEN r = q ELSE Holds(v, r)
  BY <1>1 DEF Holds
<1>7. ASSUME NEW r \in Reports \ unsure'
      PROVE  /\ \A v \in Workers : (Holds(v, r))' =>
                     run'[r].claim = worker'[v].token /\ ~run'[r].expired
             /\ \A u, v \in Workers : (Holds(u, r))' /\ (Holds(v, r))' => u = v
             /\ sent'[r] <= 1
             /\ sent'[r] > 0 =>
                  \/ run'[r].ok
                  \/ \E v \in Workers : (Holds(v, r))' /\ worker'[v].ok
  <2>1. CASE r = q
    BY <1>1, <1>2, <1>3, <1>5, <1>6, <2>1
  <2>2. CASE r # q
    BY <1>1, <1>2, <1>4, <1>6, <2>2 DEF Sure
  <2> QED  BY <2>1, <2>2
<1> QED  BY <1>7 DEF Sure

LEMMA SureAnswer ==
  ASSUME TypeOK, Holders, Sure, Recorded, NEW w \in Workers,
         Undeliverable(w) \/ Send(w)
  PROVE  Sure'
<1> DEFINE q == worker[w].report
<1>1. /\ worker[w].phase = "claimed" /\ q \in Reports /\ Holds(w, q)
      /\ worker[w].token > 0 /\ ~worker[w].ok
  BY DEF Undeliverable, Send, Holders, Holding, Holds
<1>2. PICK ok \in BOOLEAN : Answered(w, ok)
  BY DEF Undeliverable, Send
<1>3. /\ \A v \in Workers : v # w => worker'[v] = worker[v]
      /\ worker'[w].phase = "answered" /\ worker'[w].report = q
      /\ worker'[w].token = worker[w].token /\ worker'[w].ok = ok
  BY <1>2 DEF Answered, TypeOK, Worker
<1>4. \A v \in Workers, r \in Reports : (Holds(v, r))' <=> Holds(v, r)
  BY <1>1, <1>3 DEF Holds
<1>5. /\ run' = run /\ unsure \subseteq unsure'
      /\ \A r \in Reports : r # q => sent'[r] = sent[r]
      /\ q \notin unsure' => \/ sent'[q] = sent[q]
                             \/ sent'[q] = sent[q] + 1 /\ worker'[w].ok
  BY <1>1 DEF Undeliverable, Send, Answered, TypeOK, Worker
<1>6. q \notin unsure => sent[q] = 0
  <2> SUFFICES ASSUME q \notin unsure  PROVE sent[q] = 0
    OBVIOUS
  <2>1. sent[q] \in Nat  BY <1>1 DEF TypeOK
  <2>2. run[q].claim # 0  BY <1>1 DEF Sure
  <2>3. ~run[q].ok  BY <1>1, <2>2 DEF Recorded
  <2>4. \A v \in Workers : Holds(v, q) => ~worker[v].ok
    BY <1>1 DEF Sure
  <2> QED  BY <1>1, <2>1, <2>3, <2>4 DEF Sure
<1>7. ASSUME NEW r \in Reports \ unsure'
      PROVE  /\ \A v \in Workers : (Holds(v, r))' =>
                     run'[r].claim = worker'[v].token /\ ~run'[r].expired
             /\ \A u, v \in Workers : (Holds(u, r))' /\ (Holds(v, r))' => u = v
             /\ sent'[r] <= 1
             /\ sent'[r] > 0 =>
                  \/ run'[r].ok
                  \/ \E v \in Workers : (Holds(v, r))' /\ worker'[v].ok
  <2>1. CASE r = q
    BY <1>1, <1>3, <1>4, <1>5, <1>6, <2>1 DEF Sure
  <2>2. CASE r # q
    <3>1. ~Holds(w, r)  BY <2>2 DEF Holds
    <3> QED  BY <1>3, <1>4, <1>5, <2>2, <3>1 DEF Sure
  <2> QED  BY <2>1, <2>2
<1> QED  BY <1>7 DEF Sure

LEMMA SureFinish ==
  ASSUME TypeOK, Holders, Sure, NEW w \in Workers, Finish(w)
  PROVE  Sure'
<1> DEFINE q == worker[w].report
<1>1. /\ worker[w].phase = "answered" /\ q \in Reports /\ Holds(w, q)
      /\ worker[w].token > 0
  BY DEF Finish, Holders, Holding, Holds
<1>2. /\ \A v \in Workers : v # w => worker'[v] = worker[v]
      /\ worker'[w].phase = "looking"
      /\ sent' = sent /\ unsure' = unsure
      /\ \A r \in Reports : r # q => run'[r] = run[r]
  BY <1>1 DEF Finish, Idle, TypeOK
<1>3. \A v \in Workers, r \in Reports :
         (Holds(v, r))' <=> v # w /\ Holds(v, r)
  BY <1>2 DEF Holds
<1>4. ASSUME NEW r \in Reports \ unsure'
      PROVE  /\ \A v \in Workers : (Holds(v, r))' =>
                     run'[r].claim = worker'[v].token /\ ~run'[r].expired
             /\ \A u, v \in Workers : (Holds(u, r))' /\ (Holds(v, r))' => u = v
             /\ sent'[r] <= 1
             /\ sent'[r] > 0 =>
                  \/ run'[r].ok
                  \/ \E v \in Workers : (Holds(v, r))' /\ worker'[v].ok
  <2>1. CASE r = q
    <3>1. \A v \in Workers : ~(Holds(v, r))'
      BY <1>1, <1>2, <1>3, <2>1 DEF Sure
    <3>2. sent'[r] > 0 => run'[r].ok
      <4>1. /\ run[q].claim = worker[w].token
            /\ sent[q] > 0 => run[q].ok \/ worker[w].ok
        BY <1>1, <1>2, <2>1 DEF Sure
      <4>2. run'[q].ok <=> run[q].ok \/ worker[w].ok
        BY <1>1, <4>1 DEF Finish, TypeOK, Run, Worker
      <4> QED  BY <1>2, <2>1, <4>1, <4>2
    <3> QED  BY <1>2, <2>1, <3>1, <3>2 DEF Sure
  <2>2. CASE r # q
    <3>1. ~Holds(w, r)  BY <2>2 DEF Holds
    <3> QED  BY <1>2, <1>3, <2>2, <3>1 DEF Sure
  <2> QED  BY <2>1, <2>2
<1> QED  BY <1>4 DEF Sure

LEMMA SureStep ==
  TypeOK /\ Holders /\ Recorded /\ Sure /\ [Next]_vars => Sure'
<1> SUFFICES ASSUME TypeOK, Holders, Recorded, Sure, [Next]_vars
             PROVE  Sure'
  OBVIOUS
<1>1. ASSUME NEW w \in Workers, Tick(w) \/ Done(w) \/ Crash(w)
      PROVE  Sure'
  <2>1. \A r \in Reports \ unsure' : Holds(w, r) => ~worker[w].ok
    BY <1>1 DEF Tick, Done, Crash, Holds
  <2> QED  BY <1>1, <2>1, FreeEffect, SureLeave
<1>2. ASSUME NEW w \in Workers, NEW r \in Reports, Skip(w, r)  PROVE Sure'
  <2>1. /\ run' = run /\ sent' = sent /\ unsure \subseteq unsure'
        /\ \A v \in Workers : v # w => worker'[v] = worker[v]
        /\ worker'[w].phase \in {"idle", "looking"}
    BY <1>2 DEF Skip, TypeOK, Worker
  <2>2. \A q \in Reports : ~Holds(w, q)
    BY <1>2 DEF Skip, Holds
  <2> QED  BY <2>1, <2>2, SureLeave
<1>3. CASE UNCHANGED vars
  BY <1>3 DEF vars, Sure, Holds
<1> QED
  BY <1>1, <1>2, <1>3, SureTime, SureClaim, SureAnswer, SureFinish
     DEF Next, TickStep

-----------------------------------------------------------------------------
LEMMA Invariance == Spec => []IInv
<1>1. Init => IInv  BY InitInv
<1>2. IInv /\ [Next]_vars => IInv'
  BY TypeStep, HoldersStep, RecordedStep, SureStep DEF IInv
<1> QED  BY <1>1, <1>2, PTL DEF Spec

\* Rows, workers and counters keep their types.
THEOREM TypeCorrect == Spec => []TypeOK
<1>1. IInv => TypeOK  BY DEF IInv
<1> QED  BY <1>1, Invariance, PTL

\* However many jobs overlap, crash and retry, a report without mishap is
\* e-mailed at most once (_claim_run's conditional UPDATE and lease).
THEOREM ReportSentOnce == Spec => []SentOnce
<1>1. IInv => SentOnce  BY DEF IInv, Sure, SentOnce
<1> QED  BY <1>1, Invariance, PTL

\* A row says ok only of a report Graph accepted (_finish_run).
THEOREM ReportTrue == Spec => []RecordTrue
<1>1. IInv => RecordTrue  BY DEF IInv, Recorded, RecordTrue
<1> QED  BY <1>1, Invariance, PTL

\* An e-mailed report is recorded, or about to be by the holder of its lease:
\* no other worker can take it up meanwhile.
THEOREM ReportRecorded == Spec => []SentIsRecorded
<1>1. IInv => SentIsRecorded
  BY DEF IInv, Sure, SentIsRecorded
<1> QED  BY <1>1, Invariance, PTL
=============================================================================
