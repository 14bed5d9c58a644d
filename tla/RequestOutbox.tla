---------------------------- MODULE RequestOutbox ----------------------------
(***************************************************************************)
(* The outbox of request e-mails (services/request_notifications.py) and   *)
(* the dispatchers that drain it.  A row is written in the transaction of  *)
(* the request event it reports; each API process runs a pass over the due *)
(* rows every minute.  A pass leases a row, checks its recipient again,    *)
(* reserves one of a bounded number of attempts, calls the mail transport  *)
(* and records the result, each in a transaction of its own, so passes of  *)
(* several processes interleave between any two of these steps and a       *)
(* process may stop after any of them.                                     *)
(*                                                                         *)
(* Time is kept as ages.  A pass reads the clock once and uses that        *)
(* reading for every claim it makes, so a claim is as old as its pass when *)
(* it is made, and a pass compares a claim with the time it began itself.  *)
(***************************************************************************)
EXTENDS Naturals, FiniteSets

CONSTANTS
  Rows,         \* the e-mails that may be queued (idempotency keys)
  Workers,      \* the API processes; each runs one pass at a time
  MaxAttempts,  \* _MAX_ATTEMPTS
  Lease,        \* _EMAIL_CLAIM_TIMEOUT, in ticks
  PassLimit,    \* rows one pass may claim
  MaxPass,      \* bound: the age at which every pass has ended
  MaxAborts,    \* bound: passes cut short by a crash or an exception
  Ambiguous     \* whether an accepted e-mail may be reported as failed

ASSUME OutboxAssumption ==
  /\ MaxAttempts \in Nat \ {0}
  /\ Lease \in Nat /\ MaxPass \in Nat /\ MaxAborts \in Nat
  /\ PassLimit \in Nat \ {0}
  /\ Ambiguous \in BOOLEAN

Unclaimed == "unclaimed"
Abandoned == "abandoned"      \* claimed by a pass that is over
NoRow     == "no row"

ASSUME MarkersAssumption ==
  /\ Unclaimed \notin Workers /\ Abandoned \notin Workers
  /\ NoRow \notin Rows

VARIABLES
  row,       \* the outbox table
  allowed,   \* whether the recipient may receive request e-mail now
  pass,      \* what each process is doing
  aborts,    \* passes cut short so far
  calls,     \* history: transport calls made with each reserved attempt
  accepted   \* history: calls the transport accepted

vars == <<row, allowed, pass, aborts, calls, accepted>>

AgeCap == Lease + MaxPass + 1     \* beyond it every claim is stale to all

Row == [queued : BOOLEAN, attempts : 0..MaxAttempts,
        claim : Workers \union {Unclaimed, Abandoned}, age : 0..AgeCap,
        waiting : BOOLEAN, sent : BOOLEAN, discarded : BOOLEAN, ok : BOOLEAN]

Phase == {"idle", "claiming", "checking", "releasing", "discarding",
          "reserving", "sending", "finalizing"}

Pass == [phase : Phase, row : Rows \union {NoRow}, age : 0..MaxPass,
         done : SUBSET Rows, reserved : 0..MaxAttempts, ok : BOOLEAN]

Idle == [phase |-> "idle", row |-> NoRow, age |-> 0, done |-> {},
         reserved |-> 0, ok |-> FALSE]

Active(w) == pass[w].phase # "idle"

TypeOK ==
  /\ row \in [Rows -> Row]
  /\ allowed \in [Rows -> BOOLEAN]
  /\ pass \in [Workers -> Pass]
  /\ aborts \in 0..MaxAborts
  /\ calls \in [Rows -> [1..MaxAttempts -> Nat]]
  /\ accepted \in [Rows -> Nat]

Init ==
  /\ row = [r \in Rows |-> [queued |-> FALSE, attempts |-> 0,
                            claim |-> Unclaimed, age |-> 0, waiting |-> FALSE,
                            sent |-> FALSE, discarded |-> FALSE, ok |-> FALSE]]
  /\ allowed \in [Rows -> BOOLEAN]
  /\ pass = [w \in Workers |-> Idle]
  /\ aborts = 0
  /\ calls = [r \in Rows |-> [n \in 1..MaxAttempts |-> 0]]
  /\ accepted = [r \in Rows |-> 0]

-----------------------------------------------------------------------------
(* The surroundings: request events, recipients and the clock.             *)

\* A request event queues an e-mail for a recipient who accepts them; the
\* idempotency key keeps a repeated event from queueing it again.
Enqueue(r) ==
  /\ ~row[r].queued
  /\ allowed[r]
  /\ row' = [row EXCEPT ![r].queued = TRUE]
  /\ UNCHANGED <<allowed, pass, aborts, calls, accepted>>

\* The recipient is deactivated, deleted, opts out or back in, or loses or
\* regains an address.
ChangeRecipient(r) ==
  /\ allowed' = [allowed EXCEPT ![r] = ~@]
  /\ UNCHANGED <<row, pass, aborts, calls, accepted>>

\* available_at of a failed row has passed.
BackoffOver(r) ==
  /\ row[r].waiting
  /\ row' = [row EXCEPT ![r].waiting = FALSE]
  /\ UNCHANGED <<allowed, pass, aborts, calls, accepted>>

Older(age) == IF age < AgeCap THEN age + 1 ELSE age

\* Time passes; no pass outlives MaxPass.
Tick ==
  /\ \A w \in Workers : Active(w) => pass[w].age < MaxPass
  /\ pass' = [w \in Workers |->
               IF Active(w) THEN [pass[w] EXCEPT !.age = @ + 1] ELSE pass[w]]
  /\ row' = [r \in Rows |->
               IF row[r].claim = Unclaimed THEN row[r]
               ELSE [row[r] EXCEPT !.age = Older(@)]]
  /\ UNCHANGED <<allowed, aborts, calls, accepted>>

-----------------------------------------------------------------------------
(* One pass of a process.                                                  *)

StartPass(w) ==
  /\ pass[w].phase = "idle"
  /\ pass' = [pass EXCEPT ![w].phase = "claiming"]
  /\ UNCHANGED <<row, allowed, aborts, calls, accepted>>

\* Wrong variants of a definition ("...Never", "...Untokened" and the like) stand
\* before it; the runs show that each breaks a property below.
StaleNever(r, w) == FALSE                        \* no recovery of a claim
Stale(r, w) == row[r].age > Lease + pass[w].age

EligibleClaimed(r, w) ==                         \* the lease is not consulted
  /\ row[r].queued /\ ~row[r].sent /\ ~row[r].discarded
  /\ row[r].attempts < MaxAttempts
  /\ ~row[r].waiting
  /\ r \notin pass[w].done

Eligible(r, w) ==
  /\ row[r].queued /\ ~row[r].sent /\ ~row[r].discarded
  /\ row[r].attempts < MaxAttempts
  /\ ~row[r].waiting
  /\ row[r].claim = Unclaimed \/ Stale(r, w)
  /\ r \notin pass[w].done

\* _claim_next_outbox.  The lock on the selected row is skipped by the other
\* processes and released by the commit, so the claim is one step; which row
\* comes first is left open.
Claim(w, r) ==
  /\ pass[w].phase = "claiming"
  /\ Cardinality(pass[w].done) < PassLimit
  /\ Eligible(r, w)
  /\ row' = [row EXCEPT ![r].claim = w, ![r].age = pass[w].age]
  /\ pass' = [pass EXCEPT ![w].phase = "checking", ![w].row = r,
                          ![w].done = @ \union {r}]
  /\ UNCHANGED <<allowed, aborts, calls, accepted>>

\* A claim whose pass is over can be matched by no later token.
Disowned(w) ==
  [r \in Rows |-> IF row[r].claim = w
                  THEN [row[r] EXCEPT !.claim = Abandoned] ELSE row[r]]

EndPass(w) ==
  /\ pass[w].phase = "claiming"
  /\ \/ Cardinality(pass[w].done) >= PassLimit
     \/ ~\E r \in Rows : Eligible(r, w)
  /\ row' = Disowned(w)
  /\ pass' = [pass EXCEPT ![w] = Idle]
  /\ UNCHANGED <<allowed, aborts, calls, accepted>>

\* _dispatch_claimed_outbox reads the row and its recipient without a lock
\* and decides.
Check(w) ==
  LET r == pass[w].row
  IN /\ pass[w].phase = "checking"
     /\ pass' = [pass EXCEPT ![w].phase =
                  CASE row[r].sent \/ row[r].discarded -> "releasing"
                    [] ~(row[r].sent \/ row[r].discarded) /\ ~allowed[r]
                         -> "discarding"
                    [] OTHER -> "reserving"]
     /\ UNCHANGED <<row, allowed, aborts, calls, accepted>>

Owns(w, r) == row[r].claim = w
Open(r) == ~row[r].sent /\ ~row[r].discarded
NextRow(w) == [pass[w] EXCEPT !.phase = "claiming", !.row = NoRow,
                              !.reserved = 0, !.ok = FALSE]

\* Every write of a pass is one guarded UPDATE: it changes the row when the
\* guard matches, and the pass goes on to the next row either way.
Write(w, guard, values) ==
  row' = [row EXCEPT ![pass[w].row] = IF guard THEN values ELSE @]

Release(w) ==
  LET r == pass[w].row
  IN /\ pass[w].phase = "releasing"
     /\ Write(w, Owns(w, r), [row[r] EXCEPT !.claim = Unclaimed, !.age = 0])
     /\ pass' = [pass EXCEPT ![w] = NextRow(w)]
     /\ UNCHANGED <<allowed, aborts, calls, accepted>>

Discard(w) ==
  LET r == pass[w].row
  IN /\ pass[w].phase = "discarding"
     /\ Write(w, Owns(w, r) /\ Open(r),
              [row[r] EXCEPT !.discarded = TRUE, !.claim = Unclaimed,
                             !.age = 0, !.ok = FALSE])
     /\ pass' = [pass EXCEPT ![w] = NextRow(w)]
     /\ UNCHANGED <<allowed, aborts, calls, accepted>>

\* The token guard of the reservation, mutable state included.
MayReserve(w, r) ==
  Owns(w, r) /\ Open(r) /\ row[r].attempts < MaxAttempts

ReserveUncounted(w) ==                   \* the attempt is left to Finalize
  LET r == pass[w].row
  IN /\ pass[w].phase = "reserving"
     /\ pass' = [pass EXCEPT ![w] =
                  IF MayReserve(w, r)
                  THEN [@ EXCEPT !.phase = "sending",
                                 !.reserved = row[r].attempts + 1]
                  ELSE NextRow(w)]
     /\ UNCHANGED <<row, allowed, aborts, calls, accepted>>

Reserve(w) ==
  LET r == pass[w].row
  IN /\ pass[w].phase = "reserving"
     /\ Write(w, MayReserve(w, r),
              [row[r] EXCEPT !.attempts = @ + 1, !.ok = FALSE])
     /\ pass' = [pass EXCEPT ![w] =
                  IF MayReserve(w, r)
                  THEN [@ EXCEPT !.phase = "sending",
                                 !.reserved = row[r].attempts + 1]
                  ELSE NextRow(w)]
     /\ UNCHANGED <<allowed, aborts, calls, accepted>>

\* send_email: the transport accepts the message or not, and an acceptance
\* whose answer is lost or late is reported as a failure.
Send(w) ==
  LET r == pass[w].row
      n == pass[w].reserved
  IN /\ pass[w].phase = "sending"
     /\ calls' = [calls EXCEPT ![r][n] = @ + 1]
     /\ \E taken, reported \in BOOLEAN :
          /\ reported => taken
          /\ taken /\ ~reported => Ambiguous
          /\ accepted' = [accepted EXCEPT ![r] = IF taken THEN @ + 1 ELSE @]
          /\ pass' = [pass EXCEPT ![w].phase = "finalizing",
                                  ![w].ok = reported]
     /\ UNCHANGED <<row, allowed, aborts>>

MayFinalizeUntokened(w, r) == Open(r) /\ row[r].attempts = pass[w].reserved

MayFinalize(w, r) ==
  Owns(w, r) /\ Open(r) /\ row[r].attempts = pass[w].reserved

Finalize(w) ==
  LET r  == pass[w].row
      ok == pass[w].ok
  IN /\ pass[w].phase = "finalizing"
     /\ Write(w, MayFinalize(w, r),
              [row[r] EXCEPT !.claim = Unclaimed, !.age = 0, !.ok = ok,
                             !.sent = @ \/ ok, !.waiting = @ \/ ~ok])
     /\ pass' = [pass EXCEPT ![w] = NextRow(w)]
     /\ UNCHANGED <<allowed, aborts, calls, accepted>>

\* The process stops, or an exception rolls the session back and ends the
\* pass (dispatch_request_email_safe): what was committed stays.
Abort(w) ==
  /\ Active(w)
  /\ aborts < MaxAborts
  /\ aborts' = aborts + 1
  /\ row' = Disowned(w)
  /\ pass' = [pass EXCEPT ![w] = Idle]
  /\ UNCHANGED <<allowed, calls, accepted>>

PassStep(w) ==
  \/ \E r \in Rows : Claim(w, r)
  \/ EndPass(w) \/ Check(w) \/ Release(w) \/ Discard(w)
  \/ Reserve(w) \/ Send(w) \/ Finalize(w)

Next ==
  \/ \E r \in Rows : Enqueue(r) \/ ChangeRecipient(r) \/ BackoffOver(r)
  \/ \E w \in Workers : StartPass(w) \/ PassStep(w) \/ Abort(w)
  \/ Tick

Spec == Init /\ [][Next]_vars

\* The scheduler starts a pass every minute, a running pass goes on, and time
\* goes on.
FairSpec ==
  /\ Spec
  /\ \A w \in Workers : WF_vars(StartPass(w)) /\ WF_vars(PassStep(w))
  /\ \A r \in Rows : WF_vars(BackoffOver(r))
  /\ WF_vars(Tick)

-----------------------------------------------------------------------------
(* What the outbox promises.                                               *)

\* The transport is called at most once for each attempt reserved on the row,
\* so never more often than the cap, whatever crashes and takes over
\* ("Atomically reserve one bounded transport invocation").
OneCallPerAttempt ==
  \A r \in Rows, n \in 1..MaxAttempts :
    calls[r][n] <= IF n <= row[r].attempts THEN 1 ELSE 0

\* A row recorded as sent was accepted, is not also discarded, and still says
\* so: a late result of a pass that lost the row does not rewrite it.
SentIsTrue ==
  \A r \in Rows :
    row[r].sent => accepted[r] > 0 /\ row[r].ok /\ ~row[r].discarded

\* While a running pass holds the lease of a row, only that pass changes the
\* lease, the attempts and the outcome, unless the lease has run out.
Lost(r, w) == row'[r].claim # w /\ row[r].age > Lease
OwnerWrites ==
  [][\A r \in Rows, w \in Workers :
       /\ row[r].claim = w
       /\ [row'[r] EXCEPT !.age = 0, !.waiting = FALSE]
            # [row[r] EXCEPT !.age = 0, !.waiting = FALSE]
       => pass'[w] # pass[w] \/ Lost(r, w)]_vars

\* As long as no pass was cut short, an e-mail is accepted at most once.  It
\* needs passes that do not outlive the lease and a transport that reports
\* faithfully.
SendsOnce == aborts = 0 => \A r \in Rows : accepted[r] <= 1

\* A row discarded because its recipient may not be written to was never
\* delivered (same conditions).
DiscardedUnsent ==
  aborts = 0 => \A r \in Rows : row[r].discarded => accepted[r] = 0

\* Every queued e-mail is sent, discarded or runs out of attempts: neither a
\* crash nor an unanswered call leaves a row leased or waiting for ever.
Settled(r) ==
  row[r].sent \/ row[r].discarded \/ row[r].attempts = MaxAttempts
EveryRowSettles == \A r \in Rows : row[r].queued ~> Settled(r)
=============================================================================
