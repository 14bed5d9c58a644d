---------------------------- MODULE PurgeCleanup ----------------------------
(***************************************************************************)
(* What happens to the stored objects of a purged lot.                     *)
(*                                                                         *)
(* The purge transaction deletes the rows that name the objects and leaves *)
(* their keys in a ledger row (LotPurgeEvent).  The objects themselves are *)
(* deleted after the commit, outside any transaction, by whoever calls     *)
(* cleanup_lot_purge_objects: the purge request itself, or an              *)
(* administrator's retry, any number of them at once.  A deletion may      *)
(* fail, and the process may die at any point between the two commits.     *)
(***************************************************************************)
EXTENDS Integers, FiniteSets

CONSTANTS
    Keys,       \* object keys
    Workers,    \* calls of cleanup_lot_purge_objects that may run at once
    Ledgers,    \* identities of purge ledger rows
    None        \* no ledger: an idle worker, a ledger not written yet

VARIABLES
    stored,     \* the objects the store holds
    referenced, \* keys named by a document, attachment or photo row
    ledger,     \* the purge ledger
    worker      \* the local state of every cleanup call

cleanupVars == <<stored, referenced, ledger, worker>>

CleanupStatus ==
    {"pending", "not_required", "in_progress", "completed",
     "partial_failure", "failed"}

(* Statuses after which a cleanup call returns at once.                    *)
Settled == {"not_required", "completed"}

LedgerRow ==
    [status : CleanupStatus, keys : SUBSET Keys, failures : SUBSET Keys]

ASSUME NoneAssumption == None \notin Ledgers /\ None \notin LedgerRow

Idle == [ledger |-> None, todo |-> {}, failed |-> {}]

WorkerState ==
    [ledger : Ledgers \cup {None}, todo : SUBSET Keys, failed : SUBSET Keys]

CleanupTypeOK ==
    /\ stored \subseteq Keys
    /\ referenced \subseteq Keys
    /\ ledger \in [Ledgers -> LedgerRow \cup {None}]
    /\ worker \in [Workers -> WorkerState]

CleanupInit ==
    /\ stored = {}
    /\ referenced = {}
    /\ ledger = [a \in Ledgers |-> None]
    /\ worker = [w \in Workers |-> Idle]

Written(a) == ledger[a] # None

(***************************************************************************)
(* Uploads: the objects are put first, the rows that name them committed   *)
(* afterwards.  Keys are generated: one that was purged never comes back.  *)
(***************************************************************************)
Upload(keys) ==
    /\ \A a \in Ledgers : Written(a) => keys \cap ledger[a].keys = {}
    /\ stored' = stored \cup keys
    /\ referenced' = referenced \cup keys

(***************************************************************************)
(* The ledger row a purge writes in its own transaction, with the keys it  *)
(* gives up.                                                               *)
(***************************************************************************)
NewLedger(keys) ==
    [status   |-> IF keys = {} THEN "not_required" ELSE "pending",
     keys     |-> keys,
     failures |-> {}]

WriteLedger(a, keys) ==
    /\ ~Written(a)
    /\ ledger' = [ledger EXCEPT ![a] = NewLedger(keys)]

(***************************************************************************)
(* The first transaction of a cleanup call: it locks the ledger row,       *)
(* returns when the row is settled, and otherwise takes the keys to try.   *)
(***************************************************************************)
TargetKeys(row) ==
    IF row.failures # {} /\ row.status \in {"partial_failure", "failed"}
    THEN row.failures
    ELSE row.keys

StartCleanup(w, a) ==
    /\ worker[w] = Idle
    /\ Written(a)
    /\ ledger[a].status \notin Settled
    /\ worker' = [worker EXCEPT ![w] =
                    [ledger |-> a, todo |-> TargetKeys(ledger[a]),
                     failed |-> {}]]
    /\ ledger' = [ledger EXCEPT ![a].status = "in_progress"]
    /\ UNCHANGED <<stored, referenced>>

(* One key, between the transactions.  A key some row names is left alone; *)
(* deleting one that is already gone succeeds; any deletion may fail.      *)
TryObject(w, k, gone) ==
    /\ k \in worker[w].todo
    /\ gone => k \notin referenced
    /\ stored' = IF gone THEN stored \ {k} ELSE stored
    /\ worker' = [worker EXCEPT
                    ![w].todo = @ \ {k},
                    ![w].failed = IF gone THEN @ ELSE @ \cup {k}]
    /\ UNCHANGED <<referenced, ledger>>

(***************************************************************************)
(* The second transaction: it locks the row again and leaves a settled row *)
(* as it is, since another call may have completed it meanwhile.           *)
(***************************************************************************)
Outcome(row, failed) ==
    [row EXCEPT !.failures = failed,
                !.status = IF failed = {} THEN "completed"
                           ELSE IF Cardinality(failed) >= Cardinality(row.keys)
                                THEN "failed"
                                ELSE "partial_failure"]

FinishCleanup(w) ==
    LET a == worker[w].ledger IN
    /\ a # None
    /\ worker[w].todo = {}
    /\ ledger' = IF ledger[a].status \in Settled
                 THEN ledger
                 ELSE [ledger EXCEPT ![a] = Outcome(@, worker[w].failed)]
    /\ worker' = [worker EXCEPT ![w] = Idle]
    /\ UNCHANGED <<stored, referenced>>

(* The process dies between the transactions: the row stays in_progress.   *)
CrashCleanup(w) ==
    /\ worker[w] # Idle
    /\ worker' = [worker EXCEPT ![w] = Idle]
    /\ UNCHANGED <<stored, referenced, ledger>>

CleanupStep ==
    \E w \in Workers :
        \/ \E a \in Ledgers : StartCleanup(w, a)
        \/ \E k \in Keys, gone \in BOOLEAN : TryObject(w, k, gone)
        \/ FinishCleanup(w)
        \/ CrashCleanup(w)

(***************************************************************************)
(* The component alone, purges being any set of referenced keys.           *)
(***************************************************************************)
PurgeRows(a, keys) ==
    /\ keys \subseteq referenced
    /\ WriteLedger(a, keys)
    /\ referenced' = referenced \ keys
    /\ UNCHANGED <<stored, worker>>

CleanupNext ==
    \/ \E keys \in SUBSET Keys : Upload(keys) /\ UNCHANGED <<ledger, worker>>
    \/ \E a \in Ledgers, keys \in SUBSET Keys : PurgeRows(a, keys)
    \/ CleanupStep

CleanupSpec == CleanupInit /\ [][CleanupNext]_cleanupVars

(***************************************************************************)
(* Properties                                                              *)
(***************************************************************************)

(* A ledger that says its cleanup completed names no object the store      *)
(* still holds, however many calls ran at once, whatever each of them      *)
(* failed to delete and in whatever order they wrote their results         *)
(* (cleanup_lot_purge_objects, lots.py).                                   *)
CompletedMeansGone ==
    \A a \in Ledgers :
        Written(a) /\ ledger[a].status = "completed"
            => ledger[a].keys \cap stored = {}

(* No object is lost track of: what the store holds is named by a row or   *)
(* by the retry list of a ledger that is not settled (the failures of a    *)
(* failed cleanup, every key of one that never finished).                  *)
StoredIsAccounted ==
    \A k \in stored :
        \/ k \in referenced
        \/ \E a \in Ledgers : /\ Written(a)
                              /\ ledger[a].status \notin Settled
                              /\ k \in TargetKeys(ledger[a])

(* Completion is final: a slower call never reopens a completed ledger.    *)
CompletionIsFinal ==
    [][\A a \in Ledgers :
         Written(a) /\ ledger[a].status \in Settled
            => ledger'[a] = ledger[a]]_cleanupVars
=============================================================================
