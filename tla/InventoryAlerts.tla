-------------------------- MODULE InventoryAlerts --------------------------
(***************************************************************************)
(* Inventory alerts (services/alerts.py): evaluation passes of the request *)
(* hooks and of the minute job open and resolve incidents, dispatch passes *)
(* of several processes send the opening e-mail of each.  One alert type   *)
(* is modelled; the other types differ in the condition only.              *)
(***************************************************************************)
EXTENDS Naturals, Sequences, FiniteSets, Functions

CONSTANTS
    Warehouses, Evaluators, Senders, None,
    MaxAttempts,        \* _MAX_TRIGGERED_ATTEMPTS
    Timeout,            \* _EMAIL_CLAIM_TIMEOUT, in ticks
    MaxIncidents,       \* bound: incidents that are ever opened
    MaxTrouble          \* bound: events and mishaps together

ASSUME ConstantsAssumption ==
    /\ IsFiniteSet(Warehouses) /\ None \notin Senders
    /\ MaxAttempts \in Nat \ {0} /\ Timeout \in Nat
    /\ MaxIncidents \in Nat /\ MaxTrouble \in Nat

VARIABLES
    low,                \* warehouses whose stock meets the condition
    active,             \* warehouses that are not archived
    reachable,          \* warehouses somebody receives the e-mails of
    events,             \* how often these changed, and how many evaluations
                        \* failed or began beside another
    alert,              \* the alerts table, in the order of its ids
    evaluation,         \* the open transaction of each evaluator
    sender,             \* the dispatch pass of each process
    accepted,           \* how often each opening e-mail was accepted
    mishaps             \* how many crashes, overruns and lost answers

outside == <<low, active, reachable>>
vars == <<low, active, reachable, events, alert, evaluation, sender,
          accepted, mishaps>>

Incidents == 1..MaxIncidents

(* A row with its reserved attempts: TRUE once one is known to be sent.    *)
AlertRow ==
    [warehouse : Warehouses, resolved : BOOLEAN, notified : BOOLEAN,
     claim : Senders \cup {None}, age : 0..Timeout + 1,
     tries : UNION {[1..n -> BOOLEAN] : n \in 0..MaxAttempts}]

(* What was read, what is left to reconcile, what waits for the commit.    *)
Evaluation ==
    [running : BOOLEAN, seen : SUBSET Warehouses, todo : SUBSET Warehouses,
     opens : SUBSET Warehouses, closes : SUBSET Incidents]

Phase == {"next", "check", "reserve", "send", "record"}
Pass == [phase : Phase, row : Incidents \cup {0}, try : 0..MaxAttempts,
         ok : BOOLEAN, done : SUBSET Incidents]

AtRest == [running |-> FALSE, seen |-> {}, todo |-> {}, opens |-> {},
           closes |-> {}]
NewPass == [phase |-> "next", row |-> 0, try |-> 0, ok |-> FALSE, done |-> {}]

Opened(w) == [warehouse |-> w, resolved |-> FALSE, notified |-> FALSE,
              claim |-> None, age |-> 0, tries |-> <<>>]

(* Mutant: the lookup of the open alert finds resolved ones too.           *)
AnyOf(w) == {a \in DOMAIN alert : alert[a].warehouse = w}

OpenOf(w) ==
    {a \in DOMAIN alert : alert[a].warehouse = w /\ ~alert[a].resolved}

Succeeded(a) == \E n \in DOMAIN alert[a].tries : alert[a].tries[n]

Init ==
    /\ low \in SUBSET Warehouses
    /\ active = Warehouses
    /\ reachable \in SUBSET Warehouses
    /\ events = 0
    /\ alert = <<>>
    /\ evaluation = [e \in Evaluators |-> AtRest]
    /\ sender = [s \in Senders |-> NewPass]
    /\ accepted = [a \in Incidents |-> 0]
    /\ mishaps = 0

-----------------------------------------------------------------------------
(* Around the alerts: stock moves, recipients are appointed, warehouses    *)
(* are archived and restored.                                              *)

Event == events + mishaps < MaxTrouble /\ events' = events + 1

MoveStock(w) ==
    /\ Event
    /\ low' = IF w \in low THEN low \ {w} ELSE low \cup {w}
    /\ UNCHANGED <<active, reachable, alert, evaluation, sender, accepted,
                   mishaps>>

Appoint(w) ==
    /\ Event /\ w \notin reachable
    /\ reachable' = reachable \cup {w}
    /\ UNCHANGED <<low, active, alert, evaluation, sender, accepted, mishaps>>

(* The rows of all warehouses are locked, which waits for every opening    *)
(* that is not committed; open alerts are resolved.                        *)
ArchiveWarehouse(w) ==
    /\ Event /\ w \in active
    /\ \A e \in Evaluators : evaluation[e].opens = {}
    /\ active' = active \ {w}
    /\ alert' = [a \in DOMAIN alert |->
                   [alert[a] EXCEPT !.resolved = @ \/ a \in OpenOf(w)]]
    /\ UNCHANGED <<low, reachable, evaluation, sender, accepted, mishaps>>

RestoreWarehouse(w) ==
    /\ w \notin active
    /\ active' = active \cup {w}
    /\ UNCHANGED <<low, reachable, events, alert, evaluation, sender, accepted,
                   mishaps>>

-----------------------------------------------------------------------------
(* evaluate_alerts: one transaction, READ COMMITTED.  The inventory of the *)
(* active warehouses is read once, the open alert of each afterwards.      *)

BeginEvaluation(e) ==
    /\ ~evaluation[e].running
    /\ IF \E o \in Evaluators : evaluation[o].running
       THEN Event ELSE UNCHANGED events
    /\ evaluation' = [evaluation EXCEPT ![e] =
         [AtRest EXCEPT !.running = TRUE, !.seen = low \cap active,
                        !.todo = active]]
    /\ UNCHANGED <<outside, alert, sender, accepted, mishaps>>

(* The insertion waits for another one of the same warehouse that is not   *)
(* committed; the unique index then sends it to the row that won.          *)
Reconcile(e, w) ==
    /\ w \in evaluation[e].todo
    /\ IF w \notin evaluation[e].seen
       THEN evaluation' = [evaluation EXCEPT ![e].todo = @ \ {w},
                                             ![e].closes = @ \cup OpenOf(w)]
       ELSE IF OpenOf(w) # {}
       THEN evaluation' = [evaluation EXCEPT ![e].todo = @ \ {w}]
       ELSE /\ \A o \in Evaluators : w \notin evaluation[o].opens
            /\ evaluation' = [evaluation EXCEPT ![e].todo = @ \ {w},
                                                ![e].opens = @ \cup {w}]
    /\ UNCHANGED <<outside, events, alert, sender, accepted, mishaps>>

(* The rows the transaction opened get the next ids.                       *)
CommitEvaluation(e) ==
    LET new == evaluation[e].opens IN
    /\ evaluation[e].running /\ evaluation[e].todo = {}
    /\ Len(alert) + Cardinality(new) <= MaxIncidents
    /\ \E rows \in [1..Cardinality(new) -> {Opened(w) : w \in new}] :
         /\ \A w \in new : \E n \in DOMAIN rows : rows[n] = Opened(w)
         /\ alert' = [a \in DOMAIN alert |->
                        [alert[a] EXCEPT
                           !.resolved = @ \/ a \in evaluation[e].closes]] \o rows
    /\ evaluation' = [evaluation EXCEPT ![e] = AtRest]
    /\ UNCHANGED <<outside, events, sender, accepted, mishaps>>

(* evaluate_safe swallows any failure: the transaction is rolled back.     *)
AbandonEvaluation(e) ==
    /\ Event /\ evaluation[e].running
    /\ evaluation' = [evaluation EXCEPT ![e] = AtRest]
    /\ UNCHANGED <<outside, alert, sender, accepted, mishaps>>

-----------------------------------------------------------------------------
(* dispatch_pending_notifications: one pass of a process, each claimed     *)
(* incident once.  A claim is a time stamp, here the process that wrote it *)
(* and the age.                                                            *)

Owns(s, a) == alert[a].claim = s

(* Mutants: the claim of another process is not looked at; an abandoned    *)
(* claim is not taken over.                                                *)
ClaimableAlways(a) ==
    /\ ~alert[a].notified /\ ~alert[a].resolved
    /\ Len(alert[a].tries) < MaxAttempts /\ ~Succeeded(a)

ClaimableOnce(a) == ClaimableAlways(a) /\ alert[a].claim = None

Claimable(a) ==
    /\ ~alert[a].notified /\ ~alert[a].resolved
    /\ Len(alert[a].tries) < MaxAttempts /\ ~Succeeded(a)
    /\ alert[a].claim = None \/ alert[a].age > Timeout

Due(s) == {a \in DOMAIN alert \ sender[s].done : Claimable(a)}

(* The pass goes on to the next incident, if another one is due.           *)
Onward(s) ==
    sender' = [sender EXCEPT ![s] =
                 IF \E a \in DOMAIN alert' \ sender[s].done : Claimable(a)'
                 THEN [NewPass EXCEPT !.done = sender[s].done] ELSE NewPass]

Claim(s) ==
    /\ sender[s].phase = "next"
    /\ \E a \in Due(s) :
         /\ \A b \in Due(s) : a <= b
         /\ alert' = [alert EXCEPT ![a].claim = s, ![a].age = 0]
         /\ sender' = [sender EXCEPT ![s].phase = "check", ![s].row = a,
                                     ![s].done = @ \cup {a}]
    /\ UNCHANGED <<outside, events, evaluation, accepted, mishaps>>

EndPass(s) ==
    /\ sender[s].phase = "next" /\ sender[s].done # {} /\ Due(s) = {}
    /\ sender' = [sender EXCEPT ![s] = NewPass]
    /\ UNCHANGED <<outside, events, alert, evaluation, accepted, mishaps>>

Releasing(s, a) ==
    [alert EXCEPT ![a].claim = IF Owns(s, a) THEN None ELSE @]

(* _dispatch_claimed_opening up to the reservation: a recorded success     *)
(* heals the row; what is no longer due, or reaches nobody, is released.   *)
Check(s) ==
    LET a == sender[s].row
        due == /\ ~alert[a].resolved /\ ~alert[a].notified
               /\ Len(alert[a].tries) < MaxAttempts
               /\ alert[a].warehouse \in reachable
    IN
    /\ sender[s].phase = "check"
    /\ IF Owns(s, a) /\ ~Succeeded(a) /\ due
       THEN /\ sender' = [sender EXCEPT ![s].phase = "reserve"]
            /\ UNCHANGED alert
       ELSE /\ alert' = IF Owns(s, a) /\ Succeeded(a)
                        THEN [Releasing(s, a) EXCEPT ![a].notified = TRUE]
                        ELSE Releasing(s, a)
            /\ Onward(s)
    /\ UNCHANGED <<outside, events, evaluation, accepted, mishaps>>

(* The attempt is recorded, as not sent, before the transport is called;   *)
(* it is refused, and nothing released, when the row changed meanwhile.    *)
Reserve(s) ==
    LET a == sender[s].row IN
    /\ sender[s].phase = "reserve"
    /\ IF /\ Owns(s, a) /\ ~alert[a].resolved /\ ~alert[a].notified
          /\ Len(alert[a].tries) < MaxAttempts /\ ~Succeeded(a)
       THEN /\ alert' = [alert EXCEPT ![a].tries = Append(@, FALSE)]
            /\ sender' = [sender EXCEPT ![s].phase = "send",
                            ![s].try = Len(alert[a].tries) + 1]
       ELSE UNCHANGED alert /\ Onward(s)
    /\ UNCHANGED <<outside, events, evaluation, accepted, mishaps>>

Mishap == events + mishaps < MaxTrouble /\ mishaps' = mishaps + 1

(* The transport accepts or refuses; an acceptance may look like a refusal. *)
Send(s) ==
    /\ sender[s].phase = "send"
    /\ \E taken, reported \in BOOLEAN :
         /\ IF taken = reported THEN UNCHANGED mishaps ELSE taken /\ Mishap
         /\ accepted' = [accepted EXCEPT
                           ![sender[s].row] = IF taken THEN @ + 1 ELSE @]
         /\ sender' = [sender EXCEPT ![s].phase = "record",
                                     ![s].ok = reported]
    /\ UNCHANGED <<outside, events, alert, evaluation>>

(* The result goes to the attempt whoever owns the row; only the owner     *)
(* releases it and marks the incident.                                     *)
Record(s) ==
    LET a == sender[s].row
        tried == [alert EXCEPT ![a].tries[sender[s].try] = sender[s].ok]
    IN
    /\ sender[s].phase = "record"
    /\ alert' = IF Owns(s, a)
                THEN [tried EXCEPT ![a].claim = None,
                                   ![a].notified = @ \/ sender[s].ok]
                ELSE tried
    /\ Onward(s)
    /\ UNCHANGED <<outside, events, evaluation, accepted, mishaps>>

(* The process dies, or dispatch_safe swallows an error: what was          *)
(* committed stays.                                                        *)
CrashPass(s) ==
    /\ Mishap /\ sender[s].phase # "next"
    /\ sender' = [sender EXCEPT ![s] = NewPass]
    /\ UNCHANGED <<outside, events, alert, evaluation, accepted>>

-----------------------------------------------------------------------------
(* Time passes; a process that still works on a claim that runs out, with  *)
(* transport calls of at most 15 seconds against 15 minutes, is a mishap.  *)
Working(s, a) == sender[s].phase \in {"check", "reserve", "send", "record"}
                 /\ sender[s].row = a /\ Owns(s, a)

Tick ==
    /\ \E a \in DOMAIN alert : alert[a].claim # None /\ alert[a].age <= Timeout
    /\ IF \E s \in Senders, a \in DOMAIN alert :
            Working(s, a) /\ alert[a].age = Timeout
       THEN Mishap ELSE UNCHANGED mishaps
    /\ alert' = [a \in DOMAIN alert |->
                   IF alert[a].claim # None /\ alert[a].age <= Timeout
                   THEN [alert[a] EXCEPT !.age = @ + 1] ELSE alert[a]]
    /\ UNCHANGED <<outside, events, evaluation, sender, accepted>>

EvaluationStep(e) ==
    \/ BeginEvaluation(e)
    \/ \E w \in Warehouses : Reconcile(e, w)
    \/ CommitEvaluation(e)

SenderStep(s) ==
    \/ Claim(s) \/ EndPass(s) \/ Check(s)
    \/ Reserve(s) \/ Send(s) \/ Record(s)

Next ==
    \/ \E w \in Warehouses : \/ MoveStock(w) \/ Appoint(w)
                             \/ ArchiveWarehouse(w) \/ RestoreWarehouse(w)
    \/ \E e \in Evaluators : EvaluationStep(e) \/ AbandonEvaluation(e)
    \/ \E s \in Senders : SenderStep(s) \/ CrashPass(s)
    \/ Tick

Spec == Init /\ [][Next]_vars

(* The scheduler runs both jobs again and again, and time passes.          *)
FairSpec ==
    /\ Spec
    /\ \A e \in Evaluators : WF_vars(EvaluationStep(e))
    /\ \A s \in Senders : WF_vars(SenderStep(s))
    /\ WF_vars(Tick)

-----------------------------------------------------------------------------
TypeOK ==
    /\ low \subseteq Warehouses /\ active \subseteq Warehouses
    /\ reachable \subseteq Warehouses /\ events \in 0..MaxTrouble
    /\ alert \in Seq(AlertRow) /\ Len(alert) <= MaxIncidents
    /\ evaluation \in [Evaluators -> Evaluation]
    /\ sender \in [Senders -> Pass]
    /\ accepted \in [Incidents -> Nat]
    /\ mishaps \in 0..MaxTrouble

(* An incident sends one opening e-mail however many processes dispatch    *)
(* it; and at most five when processes die, overrun their claim or lose    *)
(* an answer (README.md:120, "at most five delivery attempts").            *)
MailPerIncident ==
    \A a \in Incidents :
        accepted[a] <= (IF mishaps = 0 THEN 1 ELSE MaxAttempts)

(* Again and again, every incident whose e-mail somebody receives is       *)
(* announced, resolved or out of attempts: no crash, no late answer and no *)
(* other incident blocks it.                                               *)
Answered(a) ==
    \/ alert[a].warehouse \notin reachable \/ alert[a].resolved
    \/ Succeeded(a) \/ Len(alert[a].tries) = MaxAttempts
IncidentsAnswered == []<>(\A a \in DOMAIN alert : Answered(a))

(* Once stock stops moving, an active warehouse has an open alert exactly  *)
(* when its stock asks for one, whatever evaluations with older readings   *)
(* committed before, failed or met at the unique index.                    *)
AlertsFollowInventory ==
    \A w \in Warehouses :
        <>[](w \in active => (w \in low <=> OpenOf(w) # {}))

(* README.md:126 says that archiving a warehouse resolves its open alerts. *)
(* It does not hold: an evaluation that began before inserts afterwards.   *)
ArchivedSilent == \A w \in Warehouses \ active : OpenOf(w) = {}
=============================================================================
