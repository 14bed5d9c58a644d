------------------------ MODULE ProductivityDispatch ------------------------
(***************************************************************************)
(* The end-of-day productivity report of every warehouse, sent at most     *)
(* once a day.                                                             *)
(*                                                                         *)
(* Two scheduler jobs (the daily one and the retry of every minute), in    *)
(* every process of the deployment, run the same tick: each is a worker    *)
(* here.  A tick walks over the warehouses.  For each report it takes a    *)
(* lease on the report's row in one conditional UPDATE, sends the e-mail   *)
(* outside any transaction and writes the result if the row still carries  *)
(* its token.  A worker may die anywhere, and the lease of a slow one may  *)
(* end while it sends.                                                     *)
(*                                                                         *)
(* The claims of a row are numbered by its attempts, so the random token   *)
(* of a claim is the number of the attempt.  A report is one warehouse on  *)
(* one day; a row that does not exist yet is one without attempts.         *)
(***************************************************************************)
EXTENDS Naturals

CONSTANTS
    Reports,      \* the reports of one day
    Workers,      \* the ticks that may run at once
    MaxAttempts,  \* MAX_AUTOMATIC_ATTEMPTS
    NoReport

VARIABLES
    run,      \* the row of every report
    worker,   \* the local state of every tick
    sent,     \* e-mails Graph accepted for every report
    unsure    \* reports that met a mishap nobody can tell from a failure

vars == <<run, worker, sent, unsure>>

\* claim is the token of the lease, 0 for none; resting, that the delay of
\* the next attempt is running.
Run == [ok : BOOLEAN, claim : Nat, expired : BOOLEAN,
        attempts : Nat, resting : BOOLEAN]

Worker == [phase : {"idle", "looking", "claimed", "answered"},
           todo : SUBSET Reports, report : Reports \union {NoReport},
           token : Nat, ok : BOOLEAN]

Idle == [phase |-> "idle", todo |-> {}, report |-> NoReport,
         token |-> 0, ok |-> FALSE]

Holds(w, r) ==
    worker[w].phase \in {"claimed", "answered"} /\ worker[w].report = r

TypeOK ==
    /\ run \in [Reports -> Run]
    /\ worker \in [Workers -> Worker]
    /\ sent \in [Reports -> Nat]
    /\ unsure \subseteq Reports

Init ==
    /\ run = [r \in Reports |-> [ok |-> FALSE, claim |-> 0, expired |-> FALSE,
                                 attempts |-> 0, resting |-> FALSE]]
    /\ worker = [w \in Workers |-> Idle]
    /\ sent = [r \in Reports |-> 0]
    /\ unsure = {}

-----------------------------------------------------------------------------
(* The surroundings: time. *)

\* The lease of a claim ends, be its holder dead or only slow.
LeaseEnds(r) ==
    /\ run[r].claim # 0 /\ ~run[r].expired
    /\ run' = [run EXCEPT ![r].expired = TRUE]
    /\ unsure' = unsure \union {q \in {r} : \E w \in Workers : Holds(w, q)}
    /\ UNCHANGED <<worker, sent>>

DelayOver(r) ==
    /\ run[r].resting
    /\ run' = [run EXCEPT ![r].resting = FALSE]
    /\ UNCHANGED <<worker, sent, unsure>>

-----------------------------------------------------------------------------
(* A tick. *)

\* The active warehouses that have something to report, read at once.
Tick(w) ==
    /\ worker[w].phase = "idle"
    /\ \E due \in SUBSET Reports :
         worker' = [worker EXCEPT ![w] = [Idle EXCEPT !.phase = "looking",
                                                      !.todo = due]]
    /\ UNCHANGED <<run, sent, unsure>>

Claimable(r) ==
    /\ ~run[r].ok
    /\ run[r].claim = 0 \/ run[r].expired
    /\ run[r].attempts < MaxAttempts /\ ~run[r].resting

Skip(w, r) ==
    /\ worker[w].phase = "looking" /\ r \in worker[w].todo
    /\ ~Claimable(r)
    /\ worker' = [worker EXCEPT ![w].todo = @ \ {r}]
    /\ UNCHANGED <<run, sent, unsure>>

Claim(w, r) ==
    /\ worker[w].phase = "looking" /\ r \in worker[w].todo
    /\ Claimable(r)
    /\ run' = [run EXCEPT ![r].claim = run[r].attempts + 1,
                          ![r].expired = FALSE,
                          ![r].attempts = run[r].attempts + 1]
    /\ worker' = [worker EXCEPT ![w].phase = "claimed", ![w].report = r,
                                ![w].token = run[r].attempts + 1]
    /\ UNCHANGED <<sent, unsure>>

Answered(w, ok) ==
    worker' = [worker EXCEPT ![w].phase = "answered", ![w].ok = ok]

\* Nobody to send it to, or the report cannot be rendered.
Undeliverable(w) ==
    /\ worker[w].phase = "claimed"
    /\ Answered(w, FALSE)
    /\ UNCHANGED <<run, sent, unsure>>

\* Graph accepts the e-mail, refuses it, or accepts it and the answer is lost.
Send(w) ==
    LET r == worker[w].report IN
    /\ worker[w].phase = "claimed"
    /\ UNCHANGED run
    /\ \/ /\ Answered(w, TRUE)
          /\ sent' = [sent EXCEPT ![r] = @ + 1]
          /\ UNCHANGED unsure
       \/ /\ Answered(w, FALSE)
          /\ UNCHANGED <<sent, unsure>>
       \/ /\ Answered(w, FALSE)
          /\ sent' = [sent EXCEPT ![r] = @ + 1]
          /\ unsure' = unsure \union {r}

\* Only the holder of the claim writes its result.
Finish(w) ==
    LET r == worker[w].report
        owner == run[r].claim = worker[w].token /\ ~run[r].ok
    IN
    /\ worker[w].phase = "answered"
    /\ run' = IF owner
              THEN [run EXCEPT ![r].ok = worker[w].ok, ![r].claim = 0,
                               ![r].expired = FALSE,
                               ![r].resting = ~worker[w].ok]
              ELSE run
    /\ worker' = [worker EXCEPT ![w] =
                    [Idle EXCEPT !.phase = "looking",
                                 !.todo = worker[w].todo \ {r}]]
    /\ UNCHANGED <<sent, unsure>>

Done(w) ==
    /\ worker[w].phase = "looking" /\ worker[w].todo = {}
    /\ worker' = [worker EXCEPT ![w] = Idle]
    /\ UNCHANGED <<run, sent, unsure>>

\* The process dies, or an exception escapes the tick.
Crash(w) ==
    /\ worker[w].phase # "idle"
    /\ worker' = [worker EXCEPT ![w] = Idle]
    /\ unsure' = unsure \union
                   {r \in Reports : Holds(w, r) /\ worker[w].ok}
    /\ UNCHANGED <<run, sent>>

TickStep(w) ==
    \/ Tick(w) \/ Undeliverable(w) \/ Send(w) \/ Finish(w) \/ Done(w)
    \/ \E r \in Reports : Skip(w, r) \/ Claim(w, r)

Next ==
    \/ \E r \in Reports : LeaseEnds(r) \/ DelayOver(r)
    \/ \E w \in Workers : TickStep(w) \/ Crash(w)

Spec == Init /\ [][Next]_vars

-----------------------------------------------------------------------------
(* What the dispatcher promises. *)

\* However the jobs of several processes overlap, crash and retry, a report
\* is e-mailed at most once, but for what nobody can know: an answer of Graph
\* that is lost, a death between the answer and its record, or a sender that
\* outlives its own lease.
SentOnce == \A r \in Reports \ unsure : sent[r] <= 1

\* A report recorded as sent has been sent, even when the record was written
\* by a worker that others had overtaken.
RecordTrue == \A r \in Reports : run[r].ok => sent[r] > 0

\* A report that was e-mailed is recorded as sent, or will be by the worker
\* that holds it: it is retried only after a mishap.
SentIsRecorded ==
    \A r \in Reports \ unsure :
        sent[r] > 0 => \/ run[r].ok
                       \/ \E w \in Workers : /\ Holds(w, r) /\ worker[w].ok
                                             /\ worker[w].token = run[r].claim
=============================================================================
