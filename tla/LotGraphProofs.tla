--------------------------- MODULE LotGraphProofs ---------------------------
(***************************************************************************)
(* Proofs about PurgeCleanup for any keys, ledgers and concurrent calls,   *)
(* and about LotGraph for any lots, boxes, requests and object keys.       *)
(***************************************************************************)
EXTENDS LotGraph, FiniteSetTheorems, WellFoundedInduction, TLAPS

(***************************************************************************)
(* The cleanup of stored objects                                           *)
(*                                                                         *)
(* The inductive invariant says what each record of progress means: a      *)
(* ledger row that is settled, or whose failures are its retry list, names *)
(* every key that may still be stored, and so do the keys a running call   *)
(* has still to try together with those it failed to delete.               *)
(***************************************************************************)
(* Nothing outside the retry list of a finished cleanup is stored.         *)
RowsTruthful ==
    \A a \in Ledgers : Written(a) =>
        /\ ledger[a].failures \subseteq ledger[a].keys
        /\ ledger[a].status \in Settled => ledger[a].keys \cap stored = {}
        /\ ledger[a].status \in {"partial_failure", "failed"}
             => (ledger[a].keys \ ledger[a].failures) \cap stored = {}

(* A call has deleted what it has neither still to try nor failed to       *)
(* delete.                                                                 *)
CallsTruthful ==
    \A w \in Workers : worker[w].ledger # None =>
        LET a == worker[w].ledger
            open == worker[w].todo \cup worker[w].failed
        IN  /\ Written(a)
            /\ open \subseteq ledger[a].keys
            /\ (ledger[a].keys \ open) \cap stored = {}

CleanupInv ==
    CleanupTypeOK /\ RowsTruthful /\ CallsTruthful /\ StoredIsAccounted

LEMMA InitHolds == CleanupInit => CleanupInv
<1> SUFFICES ASSUME CleanupInit PROVE CleanupInv
  OBVIOUS
<1> USE DEF CleanupInit
<1>1. CleanupTypeOK
  BY DEF CleanupTypeOK, LedgerRow, WorkerState, Idle
<1>2. RowsTruthful
  BY DEF RowsTruthful, Written
<1>3. CallsTruthful
  BY DEF CallsTruthful, Idle
<1>4. StoredIsAccounted
  BY DEF StoredIsAccounted
<1> QED BY <1>1, <1>2, <1>3, <1>4 DEF CleanupInv

(* The keys a cleanup tries are keys of the row.                           *)
LEMMA TargetsInRow ==
  ASSUME CleanupInv, NEW a \in Ledgers, Written(a)
  PROVE  /\ ledger[a] \in LedgerRow
         /\ TargetKeys(ledger[a]) \subseteq ledger[a].keys
<1>1. ledger[a] \in LedgerRow
  BY DEF CleanupInv, CleanupTypeOK, Written
<1>2. ledger[a].failures \subseteq ledger[a].keys
  BY DEF CleanupInv, RowsTruthful
<1> QED BY <1>1, <1>2 DEF TargetKeys

LEMMA UploadKeeps ==
  ASSUME CleanupInv, NEW keys \in SUBSET Keys, Upload(keys),
         UNCHANGED <<ledger, worker>>
  PROVE  CleanupInv'
<1> USE DEF Upload
<1>1. CleanupTypeOK'
  BY DEF CleanupInv, CleanupTypeOK
<1>2. \A a \in Ledgers : Written(a) =>
        /\ ledger[a] \in LedgerRow
        /\ keys \cap ledger[a].keys = {}
  BY TargetsInRow
<1>3. RowsTruthful'
  BY <1>2 DEF CleanupInv, RowsTruthful, Written
<1>4. CallsTruthful'
  <2> SUFFICES ASSUME NEW w \in Workers, worker[w].ledger # None
               PROVE  LET a == worker[w].ledger
                          open == worker[w].todo \cup worker[w].failed
                      IN  /\ Written(a)
                          /\ open \subseteq ledger[a].keys
                          /\ (ledger[a].keys \ open) \cap stored' = {}
    BY DEF CallsTruthful, Written
  <2>1. worker[w].ledger \in Ledgers
    BY DEF CleanupInv, CleanupTypeOK, WorkerState
  <2> QED BY <1>2, <2>1 DEF CleanupInv, CallsTruthful
<1>5. StoredIsAccounted'
  BY DEF CleanupInv, StoredIsAccounted, Written, TargetKeys
<1> QED BY <1>1, <1>3, <1>4, <1>5 DEF CleanupInv

LEMMA PurgeKeeps ==
  ASSUME CleanupInv, NEW a \in Ledgers, NEW keys \in SUBSET Keys,
         PurgeRows(a, keys)
  PROVE  CleanupInv'
<1> USE DEF PurgeRows, WriteLedger
<1>1. /\ ledger' = [ledger EXCEPT ![a] = NewLedger(keys)]
      /\ NewLedger(keys) \in LedgerRow
      /\ NewLedger(keys) # None
      /\ ledger'[a] = NewLedger(keys)
      /\ \A b \in Ledgers : b # a => ledger'[b] = ledger[b]
  BY NoneAssumption
     DEF NewLedger, LedgerRow, CleanupStatus, CleanupInv, CleanupTypeOK
<1>2. CleanupTypeOK'
  BY <1>1 DEF CleanupInv, CleanupTypeOK
<1>3. RowsTruthful'
  <2> SUFFICES ASSUME NEW b \in Ledgers, Written(b)'
               PROVE  /\ ledger'[b].failures \subseteq ledger'[b].keys
                      /\ ledger'[b].status \in Settled
                           => ledger'[b].keys \cap stored = {}
                      /\ ledger'[b].status \in {"partial_failure", "failed"}
                           => (ledger'[b].keys \ ledger'[b].failures)
                                 \cap stored = {}
    BY DEF RowsTruthful
  <2>1. CASE b = a
    BY <1>1, <2>1 DEF NewLedger, Settled
  <2>2. CASE b # a
    BY <1>1, <2>2 DEF CleanupInv, RowsTruthful, Written
  <2> QED BY <2>1, <2>2
<1>4. CallsTruthful'
  <2> SUFFICES ASSUME NEW w \in Workers, worker[w].ledger # None
               PROVE  LET b == worker[w].ledger
                          open == worker[w].todo \cup worker[w].failed
                      IN  /\ ledger'[b] # None
                          /\ open \subseteq ledger'[b].keys
                          /\ (ledger'[b].keys \ open) \cap stored = {}
    BY DEF CallsTruthful, Written
  <2>1. worker[w].ledger \in Ledgers /\ Written(worker[w].ledger)
    BY DEF CleanupInv, CleanupTypeOK, CallsTruthful, WorkerState
  <2>2. ledger'[worker[w].ledger] = ledger[worker[w].ledger]
    BY <1>1, <2>1
  <2> QED BY <2>1, <2>2 DEF CleanupInv, CallsTruthful, Written
<1>5. StoredIsAccounted'
  <2> SUFFICES ASSUME NEW k \in stored
               PROVE  \/ k \in referenced'
                      \/ \E b \in Ledgers :
                            /\ Written(b)'
                            /\ ledger'[b].status \notin Settled
                            /\ k \in TargetKeys(ledger'[b])
    BY DEF StoredIsAccounted
  <2>1. CASE k \in keys
    BY <1>1, <2>1 DEF Written, NewLedger, TargetKeys, Settled
  <2>2. CASE k \notin keys
    BY <1>1, <2>2 DEF CleanupInv, StoredIsAccounted, Written
  <2> QED BY <2>1, <2>2
<1> QED BY <1>2, <1>3, <1>4, <1>5 DEF CleanupInv

LEMMA StartKeeps ==
  ASSUME CleanupInv, NEW w \in Workers, NEW a \in Ledgers, StartCleanup(w, a)
  PROVE  CleanupInv'
<1> DEFINE row == [ledger[a] EXCEPT !.status = "in_progress"]
           call == [ledger |-> a, todo |-> TargetKeys(ledger[a]),
                    failed |-> {}]
<1>1. /\ ledger[a] \in LedgerRow
      /\ TargetKeys(ledger[a]) \subseteq ledger[a].keys
      /\ row \in LedgerRow
      /\ row.keys = ledger[a].keys
      /\ row.failures = ledger[a].failures
      /\ row.status = "in_progress"
  BY TargetsInRow DEF StartCleanup, LedgerRow, CleanupStatus
<1>2. /\ ledger' = [ledger EXCEPT ![a] = row]
      /\ ledger'[a] = row
      /\ \A b \in Ledgers : b # a => ledger'[b] = ledger[b]
      /\ \A b \in Ledgers : Written(b)' <=> Written(b)
  BY <1>1, NoneAssumption
     DEF StartCleanup, CleanupInv, CleanupTypeOK, Written
<1>3. /\ worker' = [worker EXCEPT ![w] = call]
      /\ worker'[w] = call
      /\ \A v \in Workers : v # w => worker'[v] = worker[v]
      /\ call \in WorkerState
  BY <1>1 DEF StartCleanup, CleanupInv, CleanupTypeOK, WorkerState, LedgerRow
<1>4. stored' = stored /\ referenced' = referenced
  BY DEF StartCleanup
<1>5. CleanupTypeOK'
  BY <1>1, <1>2, <1>3, <1>4 DEF CleanupInv, CleanupTypeOK
<1>6. RowsTruthful'
  BY <1>1, <1>2, <1>4 DEF CleanupInv, RowsTruthful, Settled
<1>7. CallsTruthful'
  <2> SUFFICES ASSUME NEW v \in Workers, worker'[v].ledger # None
               PROVE  LET b == worker'[v].ledger
                          open == worker'[v].todo \cup worker'[v].failed
                      IN  /\ ledger'[b] # None
                          /\ open \subseteq ledger'[b].keys
                          /\ (ledger'[b].keys \ open) \cap stored = {}
    BY <1>4 DEF CallsTruthful, Written
  <2>1. CASE v = w
    <3>1. (ledger[a].keys \ TargetKeys(ledger[a])) \cap stored = {}
      BY DEF StartCleanup, TargetKeys, CleanupInv, RowsTruthful
    <3> QED BY <1>1, <1>2, <1>3, <2>1, <3>1, NoneAssumption
  <2>2. CASE v # w
    <3>1. worker'[v] = worker[v] /\ worker[v].ledger \in Ledgers
      BY <1>3, <2>2 DEF CleanupInv, CleanupTypeOK, WorkerState
    <3>2. ledger'[worker[v].ledger].keys = ledger[worker[v].ledger].keys
      BY <1>1, <1>2, <3>1
    <3> QED BY <1>2, <3>1, <3>2 DEF CleanupInv, CallsTruthful, Written
  <2> QED BY <2>1, <2>2
<1>8. StoredIsAccounted'
  <2> SUFFICES ASSUME NEW k \in stored, k \notin referenced
               PROVE  \E b \in Ledgers : /\ Written(b)'
                                         /\ ledger'[b].status \notin Settled
                                         /\ k \in TargetKeys(ledger'[b])
    BY <1>4 DEF StoredIsAccounted
  <2>1. PICK b \in Ledgers : /\ Written(b)
                             /\ ledger[b].status \notin Settled
                             /\ k \in TargetKeys(ledger[b])
    BY DEF CleanupInv, StoredIsAccounted
  <2>2. CASE b = a
    BY <1>1, <1>2, <2>1, <2>2 DEF TargetKeys, Settled
  <2>3. CASE b # a
    BY <1>2, <2>1, <2>3
  <2> QED BY <2>2, <2>3
<1> QED BY <1>5, <1>6, <1>7, <1>8 DEF CleanupInv

LEMMA TryKeeps ==
  ASSUME CleanupInv, NEW w \in Workers, NEW k \in Keys, NEW gone \in BOOLEAN,
         TryObject(w, k, gone)
  PROVE  CleanupInv'
<1> DEFINE call == [worker[w] EXCEPT
                      !.todo = @ \ {k},
                      !.failed = IF gone THEN @ ELSE @ \cup {k}]
<1>1. /\ worker[w] \in WorkerState
      /\ call \in WorkerState
      /\ call.ledger = worker[w].ledger
      /\ call.todo = worker[w].todo \ {k}
      /\ call.failed = IF gone THEN worker[w].failed
                       ELSE worker[w].failed \cup {k}
  BY DEF CleanupInv, CleanupTypeOK, WorkerState
<1>2. /\ worker' = [worker EXCEPT ![w] = call]
      /\ worker'[w] = call
      /\ \A v \in Workers : v # w => worker'[v] = worker[v]
  BY DEF TryObject, CleanupInv, CleanupTypeOK
<1>3. /\ stored' \subseteq stored
      /\ gone => k \notin stored'
      /\ k \in worker[w].todo
      /\ referenced' = referenced /\ ledger' = ledger
  BY DEF TryObject
<1>4. CleanupTypeOK'
  BY <1>1, <1>2, <1>3 DEF CleanupInv, CleanupTypeOK
<1>5. RowsTruthful'
  BY <1>3 DEF CleanupInv, RowsTruthful, Written
<1>6. CallsTruthful'
  <2> SUFFICES ASSUME NEW v \in Workers, worker'[v].ledger # None
               PROVE  LET b == worker'[v].ledger
                          open == worker'[v].todo \cup worker'[v].failed
                      IN  /\ Written(b)
                          /\ open \subseteq ledger[b].keys
                          /\ (ledger[b].keys \ open) \cap stored' = {}
    BY <1>3 DEF CallsTruthful, Written
  <2>1. CASE v = w
    BY <1>1, <1>2, <1>3, <2>1 DEF CleanupInv, CallsTruthful
  <2>2. CASE v # w
    BY <1>2, <1>3, <2>2 DEF CleanupInv, CallsTruthful
  <2> QED BY <2>1, <2>2
<1>7. StoredIsAccounted'
  BY <1>3 DEF CleanupInv, StoredIsAccounted, Written
<1> QED BY <1>4, <1>5, <1>6, <1>7 DEF CleanupInv

(* The second transaction writes what the call itself knows, and leaves a  *)
(* row alone that another call settled.                                    *)
LEMMA FinishKeeps ==
  ASSUME CleanupInv, NEW w \in Workers, FinishCleanup(w)
  PROVE  CleanupInv'
<1> DEFINE a == worker[w].ledger
           failed == worker[w].failed
<1>1. /\ a \in Ledgers /\ Written(a)
      /\ ledger[a] \in LedgerRow
      /\ failed \subseteq ledger[a].keys
      /\ (ledger[a].keys \ failed) \cap stored = {}
      /\ worker[w] \in WorkerState
  BY TargetsInRow
     DEF FinishCleanup, CleanupInv, CleanupTypeOK, CallsTruthful, WorkerState
<1>2. /\ worker' = [worker EXCEPT ![w] = Idle]
      /\ worker'[w] = Idle /\ Idle \in WorkerState
      /\ \A v \in Workers : v # w => worker'[v] = worker[v]
      /\ stored' = stored /\ referenced' = referenced
  BY DEF FinishCleanup, CleanupInv, CleanupTypeOK, WorkerState, Idle
<1>3. CASE ledger[a].status \in Settled
  <2>1. ledger' = ledger
    BY <1>3 DEF FinishCleanup
  <2>2. CleanupTypeOK'
    BY <1>2, <2>1 DEF CleanupInv, CleanupTypeOK
  <2>3. RowsTruthful'
    BY <1>2, <2>1 DEF CleanupInv, RowsTruthful, Written
  <2>4. CallsTruthful'
    BY <1>2, <2>1 DEF CleanupInv, CallsTruthful, Written, Idle
  <2>5. StoredIsAccounted'
    BY <1>2, <2>1 DEF CleanupInv, StoredIsAccounted, Written
  <2> QED BY <2>2, <2>3, <2>4, <2>5 DEF CleanupInv
<1>4. CASE ledger[a].status \notin Settled
  <2> DEFINE row == Outcome(ledger[a], failed)
  <2>1. /\ row \in LedgerRow
        /\ row.keys = ledger[a].keys
        /\ row.failures = failed
        /\ row.status \in {"completed", "partial_failure", "failed"}
        /\ row.status = "completed" <=> failed = {}
    BY <1>1 DEF Outcome, LedgerRow, CleanupStatus, WorkerState
  <2>2. /\ ledger' = [ledger EXCEPT ![a] = row]
        /\ ledger'[a] = row
        /\ \A b \in Ledgers : b # a => ledger'[b] = ledger[b]
        /\ \A b \in Ledgers : Written(b)' <=> Written(b)
    BY <1>1, <1>4, <2>1, NoneAssumption
       DEF FinishCleanup, CleanupInv, CleanupTypeOK, Written
  <2>3. CleanupTypeOK'
    BY <1>2, <2>1, <2>2 DEF CleanupInv, CleanupTypeOK
  <2>4. RowsTruthful'
    <3> SUFFICES ASSUME NEW b \in Ledgers, Written(b)'
                 PROVE  /\ ledger'[b].failures \subseteq ledger'[b].keys
                        /\ ledger'[b].status \in Settled
                             => ledger'[b].keys \cap stored = {}
                        /\ ledger'[b].status \in {"partial_failure", "failed"}
                             => (ledger'[b].keys \ ledger'[b].failures)
                                   \cap stored = {}
      BY <1>2 DEF RowsTruthful
    <3>1. CASE b = a
      BY <1>1, <2>1, <2>2, <3>1 DEF Settled
    <3>2. CASE b # a
      BY <2>2, <3>2 DEF CleanupInv, RowsTruthful
    <3> QED BY <3>1, <3>2
  <2>5. CallsTruthful'
    <3> SUFFICES ASSUME NEW v \in Workers, worker'[v].ledger # None
                 PROVE  LET b == worker'[v].ledger
                            open == worker'[v].todo \cup worker'[v].failed
                        IN  /\ ledger'[b] # None
                            /\ open \subseteq ledger'[b].keys
                            /\ (ledger'[b].keys \ open) \cap stored = {}
      BY <1>2 DEF CallsTruthful, Written
    <3>1. v # w /\ worker'[v] = worker[v] /\ worker[v].ledger \in Ledgers
      BY <1>2 DEF Idle, CleanupInv, CleanupTypeOK, WorkerState
    <3>2. ledger'[worker[v].ledger].keys = ledger[worker[v].ledger].keys
      BY <2>1, <2>2, <3>1
    <3> QED BY <2>2, <3>1, <3>2 DEF CleanupInv, CallsTruthful, Written
  <2>6. StoredIsAccounted'
    <3> SUFFICES ASSUME NEW k \in stored, k \notin referenced
                 PROVE  \E b \in Ledgers : /\ Written(b)'
                                           /\ ledger'[b].status \notin Settled
                                           /\ k \in TargetKeys(ledger'[b])
      BY <1>2 DEF StoredIsAccounted
    <3>1. PICK b \in Ledgers : /\ Written(b)
                               /\ ledger[b].status \notin Settled
                               /\ k \in TargetKeys(ledger[b])
      BY DEF CleanupInv, StoredIsAccounted
    <3>2. CASE b = a
      <4>1. k \in failed
        BY <1>1, <3>1, <3>2, TargetsInRow
      <4> QED BY <2>1, <2>2, <3>1, <3>2, <4>1 DEF TargetKeys, Settled
    <3>3. CASE b # a
      BY <2>2, <3>1, <3>3
    <3> QED BY <3>2, <3>3
  <2> QED BY <2>3, <2>4, <2>5, <2>6 DEF CleanupInv
<1> QED BY <1>3, <1>4

LEMMA CrashKeeps ==
  ASSUME CleanupInv, NEW w \in Workers, CrashCleanup(w)
  PROVE  CleanupInv'
<1>1. /\ worker'[w] = Idle /\ Idle \in WorkerState
      /\ \A v \in Workers : v # w => worker'[v] = worker[v]
      /\ worker' \in [Workers -> WorkerState]
      /\ stored' = stored /\ referenced' = referenced /\ ledger' = ledger
  BY DEF CrashCleanup, CleanupInv, CleanupTypeOK, WorkerState, Idle
<1>2. CleanupTypeOK'
  BY <1>1 DEF CleanupInv, CleanupTypeOK
<1>3. RowsTruthful'
  BY <1>1 DEF CleanupInv, RowsTruthful, Written
<1>4. CallsTruthful'
  BY <1>1 DEF CleanupInv, CallsTruthful, Written, Idle
<1>5. StoredIsAccounted'
  BY <1>1 DEF CleanupInv, StoredIsAccounted, Written
<1> QED BY <1>2, <1>3, <1>4, <1>5 DEF CleanupInv

LEMMA StutterKeeps ==
  ASSUME CleanupInv, UNCHANGED cleanupVars
  PROVE  CleanupInv'
BY DEF CleanupInv, CleanupTypeOK, RowsTruthful, CallsTruthful,
       StoredIsAccounted, Written, cleanupVars

(* The invariant holds whatever uploads, purges and concurrent cleanup     *)
(* calls do, crashes and failed deletions included.                        *)
THEOREM CleanupInvariant == CleanupSpec => []CleanupInv
<1>1. CleanupInv /\ [CleanupNext]_cleanupVars => CleanupInv'
  <2> SUFFICES ASSUME CleanupInv, [CleanupNext]_cleanupVars
               PROVE  CleanupInv'
    OBVIOUS
  <2>1. ASSUME NEW keys \in SUBSET Keys, Upload(keys),
               UNCHANGED <<ledger, worker>>
        PROVE  CleanupInv'
    BY <2>1, UploadKeeps
  <2>2. ASSUME NEW a \in Ledgers, NEW keys \in SUBSET Keys, PurgeRows(a, keys)
        PROVE  CleanupInv'
    BY <2>2, PurgeKeeps
  <2>3. ASSUME NEW w \in Workers, NEW a \in Ledgers, StartCleanup(w, a)
        PROVE  CleanupInv'
    BY <2>3, StartKeeps
  <2>4. ASSUME NEW w \in Workers, NEW k \in Keys, NEW gone \in BOOLEAN,
               TryObject(w, k, gone)
        PROVE  CleanupInv'
    BY <2>4, TryKeeps
  <2>5. ASSUME NEW w \in Workers, FinishCleanup(w)
        PROVE  CleanupInv'
    BY <2>5, FinishKeeps
  <2>6. ASSUME NEW w \in Workers, CrashCleanup(w)
        PROVE  CleanupInv'
    BY <2>6, CrashKeeps
  <2>7. CASE UNCHANGED cleanupVars
    BY <2>7, StutterKeeps
  <2> QED BY <2>1, <2>2, <2>3, <2>4, <2>5, <2>6, <2>7
             DEF CleanupNext, CleanupStep
<1> QED BY <1>1, InitHolds, PTL DEF CleanupSpec

(* A completed ledger names no object that is still stored.                *)
THEOREM CompletedGone == CleanupSpec => []CompletedMeansGone
<1>1. CleanupInv => CompletedMeansGone
  BY DEF CleanupInv, RowsTruthful, CompletedMeansGone, Settled
<1> QED BY <1>1, CleanupInvariant, PTL

(* Every stored object is named by a row or due for another cleanup.       *)
THEOREM StoredAccounted == CleanupSpec => []StoredIsAccounted
<1>1. CleanupInv => StoredIsAccounted
  BY DEF CleanupInv
<1> QED BY <1>1, CleanupInvariant, PTL

(* No step of any call changes a ledger that is settled.                   *)
THEOREM CompletedFinal == CleanupSpec => CompletionIsFinal
<1> DEFINE Stays == \A a \in Ledgers :
                       Written(a) /\ ledger[a].status \in Settled
                         => ledger'[a] = ledger[a]
<1>1. CleanupInv /\ [CleanupNext]_cleanupVars => [Stays]_cleanupVars
  <2> SUFFICES ASSUME CleanupInv, CleanupNext, NEW a \in Ledgers, Written(a),
                      ledger[a].status \in Settled
               PROVE  ledger'[a] = ledger[a]
    OBVIOUS
  <2>1. ledger \in [Ledgers -> LedgerRow \cup {None}]
    BY DEF CleanupInv, CleanupTypeOK
  <2>2. ASSUME NEW keys \in SUBSET Keys, UNCHANGED <<ledger, worker>>
        PROVE  ledger'[a] = ledger[a]
    BY <2>2
  <2>3. ASSUME NEW b \in Ledgers, NEW keys \in SUBSET Keys, PurgeRows(b, keys)
        PROVE  ledger'[a] = ledger[a]
    BY <2>1, <2>3 DEF PurgeRows, WriteLedger
  <2>4. ASSUME NEW w \in Workers, NEW b \in Ledgers, StartCleanup(w, b)
        PROVE  ledger'[a] = ledger[a]
    BY <2>1, <2>4 DEF StartCleanup
  <2>5. ASSUME NEW w \in Workers, NEW k \in Keys, NEW gone \in BOOLEAN,
               TryObject(w, k, gone)
        PROVE  ledger'[a] = ledger[a]
    BY <2>5 DEF TryObject
  <2>6. ASSUME NEW w \in Workers, FinishCleanup(w)
        PROVE  ledger'[a] = ledger[a]
    BY <2>1, <2>6 DEF FinishCleanup
  <2>7. ASSUME NEW w \in Workers, CrashCleanup(w)
        PROVE  ledger'[a] = ledger[a]
    BY <2>7 DEF CrashCleanup
  <2> QED BY <2>2, <2>3, <2>4, <2>5, <2>6, <2>7 DEF CleanupNext, CleanupStep
<1> QED BY <1>1, CleanupInvariant, PTL DEF CleanupSpec, CompletionIsFinal

(***************************************************************************)
(* The tables of lots: the inductive invariant                             *)
(***************************************************************************)
TablesTyped ==
    /\ IsTable(lot, Lots, LotRow)
    /\ IsTable(pallet, Pallets, PalletRow)
    /\ IsTable(box, Boxes, BoxRow)
    /\ IsTable(file, Files, FileRow)
    /\ IsTable(request, Requests, RequestRow)

BoxesPlaced ==
    \A b \in DOMAIN box :
        /\ Unmerged(box[b].lot)
        /\ box[b].pallet # None =>
             /\ box[b].pallet \in DOMAIN pallet
             /\ pallet[box[b].pallet].lot = box[b].lot
             /\ pallet[box[b].pallet].active

(* What GraphClosed does not say: only archived pallets are absorbed.      *)
AbsorbedArchived ==
    \A p \in DOMAIN pallet : pallet[p].active => pallet[p].absorbed = None

FilesPlaced ==
    \A f \in DOMAIN file : /\ file[f].box \in DOMAIN box
                           /\ file[f].lot = box[file[f].box].lot

(* What GraphClosed and ProvenanceKept do not say: an item always names a  *)
(* lot.                                                                    *)
ItemsPlaced ==
    \A r \in DOMAIN request : \A i \in Items(r) :
        LET item == request[r].items[i] IN
        /\ item.lot # None /\ Unmerged(item.lot)
        /\ item.box # None => /\ item.box \in DOMAIN box
                              /\ BoxNumber[item.box] = BoxNumber[i]
        /\ item.pallet # None => item.pallet \in DOMAIN pallet

LineageKept ==
    \A r \in DOMAIN request : request[r].lineage \subseteq DOMAIN request

NumbersUnique ==
    \A b, c \in DOMAIN box :
        box[b].lot = box[c].lot /\ BoxNumber[b] = BoxNumber[c] => b = c

ReferencesUnique ==
    \A f, g \in DOMAIN file :
        file[f].lot = file[g].lot /\ FileReference[f] = FileReference[g]
          => f = g

NamesUnique ==
    \A k, l \in DOMAIN lot :
        Unmerged(k) /\ Unmerged(l) /\ lot[k].name = lot[l].name => k = l

(* What CountsAgree does not say: only returns are open, only completed    *)
(* ones miss boxes, and a staged receipt asks for the boxes it lists.      *)
Counted ==
    \A r \in DOMAIN request :
        /\ request[r].status = "open" => request[r].kind = "return"
        /\ request[r].status = "staged" =>
             request[r].quantity = Cardinality(Items(r))
        /\ request[r].missing \subseteq Items(r)
        /\ request[r].missing # {} =>
             request[r].kind = "return" /\ request[r].status = "completed"
        /\ request[r].status = "completed" =>
             /\ request[r].actual = Cardinality(Items(r) \ request[r].missing)
             /\ request[r].variance = request[r].actual - request[r].quantity

RetiredApart ==
    /\ retired \subseteq Lots \cup Pallets \cup Boxes \cup Files \cup Requests
    /\ (Live \cup DOMAIN request) \cap retired = {}

KeysReferenced == referenced = KeysOf(DOMAIN request)

GraphInv ==
    /\ TablesTyped /\ BoxesPlaced /\ AbsorbedArchived /\ FilesPlaced
    /\ ItemsPlaced /\ LineageKept
    /\ NumbersUnique /\ ReferencesUnique /\ NamesUnique
    /\ Counted /\ RetiredApart /\ KeysReferenced

(***************************************************************************)
(* Tables and rows                                                         *)
(***************************************************************************)
LEMMA OverRows ==
  ASSUME NEW f, NEW g
  PROVE  /\ DOMAIN Over(f, g) = DOMAIN f \cup DOMAIN g
         /\ \A i \in DOMAIN f : Over(f, g)[i] = f[i]
         /\ \A i \in DOMAIN g \ DOMAIN f : Over(f, g)[i] = g[i]
BY DEF Over

LEMMA WithRowRows ==
  ASSUME NEW t, NEW i, NEW row, i \notin DOMAIN t
  PROVE  /\ DOMAIN WithRow(t, i, row) = DOMAIN t \cup {i}
         /\ WithRow(t, i, row)[i] = row
         /\ \A j \in DOMAIN t : WithRow(t, i, row)[j] = t[j]
BY DEF Over, WithRow

(* The possible values of the items of a request.                          *)
ItemTables == UNION {[bs -> ItemRow] : bs \in SUBSET Boxes}

LEMMA ItemTable ==
  ASSUME NEW t
  PROVE  t \in ItemTables <=>
           /\ t = [i \in DOMAIN t |-> t[i]]
           /\ DOMAIN t \subseteq Boxes
           /\ \A i \in DOMAIN t : t[i] \in ItemRow
BY DEF ItemTables

LEMMA RequestRowIs ==
  RequestRow =
    [kind : {"receipt", "staged", "inbound", "return"},
     status : {"staged", "open", "completed", "cancelled"},
     items : ItemTables, missing : SUBSET Boxes, quantity : Nat \ {0},
     actual : Nat, variance : Int, lineage : SUBSET Requests]
BY DEF RequestRow, ItemTables

LEMMA RequestTyped ==
  ASSUME TablesTyped, NEW r \in DOMAIN request
  PROVE  /\ r \in Requests
         /\ request[r] \in RequestRow
         /\ request[r].kind \in {"receipt", "staged", "inbound", "return"}
         /\ request[r].status \in {"staged", "open", "completed", "cancelled"}
         /\ request[r].items \in ItemTables
         /\ Items(r) \subseteq Boxes
         /\ \A i \in Items(r) : request[r].items[i] \in ItemRow
         /\ request[r].missing \subseteq Boxes
         /\ request[r].quantity \in Nat \ {0}
         /\ request[r].actual \in Nat
         /\ request[r].variance \in Int
         /\ request[r].lineage \subseteq Requests
<1>1. r \in Requests /\ request[r] \in RequestRow
  BY DEF TablesTyped, IsTable
<1> DEFINE row == request[r]
<1>2. /\ row.kind \in {"receipt", "staged", "inbound", "return"}
      /\ row.status \in {"staged", "open", "completed", "cancelled"}
      /\ row.items \in ItemTables
      /\ row.missing \subseteq Boxes
      /\ row.quantity \in Nat \ {0}
      /\ row.actual \in Nat
      /\ row.variance \in Int
      /\ row.lineage \subseteq Requests
  <2> HIDE DEF row
  <2> QED BY <1>1, RequestRowIs DEF row
<1>3. Items(r) \subseteq Boxes /\ \A i \in Items(r) : row.items[i] \in ItemRow
  BY <1>2, ItemTable DEF Items
<1> QED BY <1>1, <1>2, <1>3

(* The cardinality of a set of boxes is a number.                          *)
LEMMA BoxCount ==
  ASSUME NEW bs \in SUBSET Boxes
  PROVE  /\ IsFiniteSet(bs)
         /\ Cardinality(bs) \in Nat
         /\ Cardinality(bs) = 0 <=> bs = {}
<1>1. IsFiniteSet(bs)
  BY IdentitiesAssumption, FS_Subset
<1> QED BY <1>1, FS_CardinalityType, FS_EmptySet

LEMMA BoxCountWithout ==
  ASSUME NEW bs \in SUBSET Boxes, NEW cs \in SUBSET bs
  PROVE  Cardinality(bs \ cs) = Cardinality(bs) - Cardinality(cs)
<1>1. IsFiniteSet(bs) /\ bs \cap cs = cs
  BY BoxCount
<1>2. Cardinality(bs) \in Nat /\ Cardinality(cs) \in Nat
      /\ Cardinality(bs \ cs) \in Nat
  BY BoxCount
<1> QED BY <1>1, <1>2, FS_Difference

LEMMA InitGraph == Init => GraphInv
<1> SUFFICES ASSUME Init PROVE GraphInv
  OBVIOUS
<1>1. /\ DOMAIN lot = {} /\ DOMAIN pallet = {} /\ DOMAIN box = {}
      /\ DOMAIN file = {} /\ DOMAIN request = {} /\ retired = {}
      /\ referenced = {}
  BY DEF Init, CleanupInit
<1>2. KeysReferenced
  BY <1>1 DEF KeysReferenced, KeysOf
<1> QED
  BY <1>1, <1>2 DEF GraphInv, TablesTyped, IsTable, BoxesPlaced,
     AbsorbedArchived, FilesPlaced, ItemsPlaced, LineageKept, NumbersUnique,
     ReferencesUnique, NamesUnique, Counted, RetiredApart, Live

(***************************************************************************)
(* Frames: what most steps leave as it is                                  *)
(***************************************************************************)
LotsStay == \A l : Unmerged(l) => Unmerged(l)'

PalletsStay ==
    \A p \in DOMAIN pallet : /\ p \in DOMAIN pallet'
                             /\ pallet'[p].lot = pallet[p].lot

NamedBoxesStay == \A b \in DOMAIN box : Naming(b) # {} => b \in DOMAIN box'

(* Requests keep their items; some that were open may be cancelled.        *)
RequestsStay ==
    /\ DOMAIN request' = DOMAIN request
    /\ \A r \in DOMAIN request :
        \/ request'[r] = request[r]
        \/ /\ request[r].status \in {"staged", "open"}
           /\ request'[r] = [request[r] EXCEPT !.status = "cancelled"]

LEMMA RequestsStayKeeps ==
  ASSUME GraphInv, RequestsStay, referenced' = referenced,
         LotsStay, PalletsStay, NamedBoxesStay
  PROVE  /\ IsTable(request, Requests, RequestRow)'
         /\ ItemsPlaced' /\ LineageKept' /\ Counted' /\ KeysReferenced'
<1>1. \A r \in DOMAIN request :
        /\ request[r] \in RequestRow
        /\ request'[r] \in RequestRow
        /\ request'[r].items = request[r].items
        /\ request'[r].missing = request[r].missing
        /\ request'[r].lineage = request[r].lineage
        /\ request'[r].kind = request[r].kind
        /\ request'[r].quantity = request[r].quantity
        /\ request'[r].actual = request[r].actual
        /\ request'[r].variance = request[r].variance
        /\ request'[r].status # request[r].status =>
             request[r].missing = {} /\ request'[r].status = "cancelled"
  <2> SUFFICES ASSUME NEW r \in DOMAIN request
               PROVE  /\ request[r] \in RequestRow
                      /\ request'[r] \in RequestRow
                      /\ request'[r].items = request[r].items
                      /\ request'[r].missing = request[r].missing
                      /\ request'[r].lineage = request[r].lineage
                      /\ request'[r].kind = request[r].kind
                      /\ request'[r].quantity = request[r].quantity
                      /\ request'[r].actual = request[r].actual
                      /\ request'[r].variance = request[r].variance
                      /\ request'[r].status # request[r].status =>
                           /\ request[r].missing = {}
                           /\ request'[r].status = "cancelled"
    OBVIOUS
  <2>1. request[r] \in RequestRow
    BY RequestTyped DEF GraphInv
  <2>2. CASE request'[r] = request[r]
    BY <2>1, <2>2
  <2>3. CASE /\ request[r].status \in {"staged", "open"}
             /\ request'[r] = [request[r] EXCEPT !.status = "cancelled"]
    <3>1. request'[r] \in RequestRow
      BY <2>1, <2>3, RequestRowIs
    <3>2. request[r].missing = {}
      BY <2>3 DEF GraphInv, Counted
    <3> QED BY <2>1, <2>3, <3>1, <3>2, RequestRowIs
  <2> QED BY <2>2, <2>3 DEF RequestsStay
<1>2. IsTable(request, Requests, RequestRow)'
  BY <1>1 DEF RequestsStay, IsTable, GraphInv, TablesTyped
<1>3. ItemsPlaced'
  BY <1>1 DEF RequestsStay, GraphInv, ItemsPlaced, Items, LotsStay,
     PalletsStay, NamedBoxesStay, Naming
<1>4. LineageKept'
  BY <1>1 DEF RequestsStay, GraphInv, LineageKept
<1>5. Counted'
  <2> SUFFICES ASSUME NEW r \in DOMAIN request
               PROVE  /\ request'[r].status = "open" =>
                           request'[r].kind = "return"
                      /\ request'[r].status = "staged" =>
                           request'[r].quantity = Cardinality(Items(r)')
                      /\ request'[r].missing \subseteq Items(r)'
                      /\ request'[r].missing # {} =>
                           /\ request'[r].kind = "return"
                           /\ request'[r].status = "completed"
                      /\ request'[r].status = "completed" =>
                           /\ request'[r].actual =
                                Cardinality(Items(r)' \ request'[r].missing)
                           /\ request'[r].variance =
                                request'[r].actual - request'[r].quantity
    BY DEF Counted, RequestsStay
  <2>1. Items(r)' = Items(r)
    BY <1>1 DEF Items
  <2>2. CASE request'[r].status = request[r].status
    BY <1>1, <2>1, <2>2 DEF GraphInv, Counted
  <2>3. CASE request'[r].status # request[r].status
    BY <1>1, <2>1, <2>3
  <2> QED BY <2>2, <2>3
<1>6. KeysReferenced'
  BY <1>1 DEF RequestsStay, GraphInv, KeysReferenced, KeysOf
<1> QED BY <1>2, <1>3, <1>4, <1>5, <1>6

(* An operation cancels the open returns of a box.                         *)
LEMMA CancelReturnsStays ==
  ASSUME NEW b, CancelReturns(b)
  PROVE  RequestsStay
BY DEF CancelReturns, RequestsStay

(* An operation on boxes, files or pallets whose lots and requests stay.   *)
LEMMA LotsUnchanged ==
  ASSUME GraphInv, UNCHANGED lot
  PROVE  IsTable(lot, Lots, LotRow)' /\ NamesUnique' /\ LotsStay
BY DEF GraphInv, TablesTyped, IsTable, NamesUnique, Unmerged, LotsStay

LEMMA PalletsUnchanged ==
  ASSUME GraphInv, UNCHANGED pallet
  PROVE  IsTable(pallet, Pallets, PalletRow)' /\ AbsorbedArchived' /\ PalletsStay
BY DEF GraphInv, TablesTyped, IsTable, AbsorbedArchived, PalletsStay

LEMMA BoxesUnchanged ==
  ASSUME GraphInv, UNCHANGED box
  PROVE  IsTable(box, Boxes, BoxRow)' /\ NumbersUnique' /\ NamedBoxesStay
BY DEF GraphInv, TablesTyped, IsTable, NumbersUnique, NamedBoxesStay

LEMMA FilesUnchanged ==
  ASSUME GraphInv, UNCHANGED file
  PROVE  IsTable(file, Files, FileRow)' /\ ReferencesUnique'
BY DEF GraphInv, TablesTyped, IsTable, ReferencesUnique

LEMMA DeleteBoxKeeps ==
  ASSUME GraphInv, NEW b, DeleteBox(b)
  PROVE  GraphInv'
<1> USE DEF DeleteBox
<1>1. /\ b \in Boxes /\ b \in DOMAIN box
      /\ \A c \in DOMAIN box : box[c] \in BoxRow
  BY DEF GraphInv, TablesTyped, IsTable
<1>2. IsTable(lot, Lots, LotRow)' /\ NamesUnique' /\ LotsStay
  BY LotsUnchanged
<1>3. IsTable(pallet, Pallets, PalletRow)' /\ AbsorbedArchived' /\ PalletsStay
  BY PalletsUnchanged
<1>4. IsTable(file, Files, FileRow)' /\ ReferencesUnique'
  BY FilesUnchanged
<1>5. RequestsStay /\ referenced' = referenced
  BY CancelReturnsStays DEF cleanupVars
<1>6. CASE Naming(b) # {} \/ box[b].pallet # None \/ FilesOf({b}) # {}
  <2>1. /\ DOMAIN box' = DOMAIN box
        /\ box'[b] = [box[b] EXCEPT !.state = "archived"]
        /\ \A c \in DOMAIN box \ {b} : box'[c] = box[c]
        /\ retired' = retired
    BY <1>6
  <2>2. \A c \in DOMAIN box :
          /\ box'[c] \in BoxRow
          /\ box'[c].lot = box[c].lot /\ box'[c].pallet = box[c].pallet
    BY <1>1, <2>1 DEF BoxRow
  <2>3. IsTable(box, Boxes, BoxRow)' /\ NumbersUnique' /\ NamedBoxesStay
    BY <2>1, <2>2 DEF GraphInv, TablesTyped, IsTable, NumbersUnique, NamedBoxesStay
  <2>4. BoxesPlaced' /\ FilesPlaced'
    BY <1>2, <2>1, <2>2 DEF GraphInv, BoxesPlaced, FilesPlaced, LotsStay
  <2>5. RetiredApart'
    BY <2>1, <1>5 DEF GraphInv, RetiredApart, RequestsStay, Live
  <2> QED
    BY <1>2, <1>3, <1>4, <1>5, <2>1, <2>3, <2>4, <2>5, RequestsStayKeeps
       DEF GraphInv, TablesTyped
<1>7. CASE ~(Naming(b) # {} \/ box[b].pallet # None \/ FilesOf({b}) # {})
  <2>1. /\ DOMAIN box' = DOMAIN box \ {b}
        /\ \A c \in DOMAIN box' : box'[c] = box[c]
        /\ b \notin retired /\ retired' = retired \cup {b}
    BY <1>7 DEF Restrict, Retire
  <2>2. IsTable(box, Boxes, BoxRow)' /\ NumbersUnique'
    BY <1>1, <2>1 DEF GraphInv, TablesTyped, IsTable, NumbersUnique
  <2>3. BoxesPlaced' /\ FilesPlaced'
    BY <1>2, <1>7, <2>1 DEF GraphInv, BoxesPlaced, FilesPlaced, LotsStay, FilesOf
  <2>5. RetiredApart'
    BY <2>1, <1>1, <1>5, IdentitiesAssumption
       DEF GraphInv, RetiredApart, RequestsStay, Live, TablesTyped, IsTable
  <2>6. NamedBoxesStay
    BY <1>7, <2>1 DEF NamedBoxesStay
  <2> QED
    BY <1>2, <1>3, <1>4, <1>5, <2>1, <2>2, <2>3, <2>5, <2>6, RequestsStayKeeps
       DEF GraphInv, TablesTyped
<1> QED BY <1>6, <1>7

LEMMA EmptiedPallets ==
  ASSUME GraphInv, NEW ps, ArchiveEmptied(ps)
  PROVE  /\ IsTable(pallet, Pallets, PalletRow)' /\ AbsorbedArchived'
         /\ PalletsStay /\ DOMAIN pallet' = DOMAIN pallet
         /\ \A p \in DOMAIN pallet, b \in DOMAIN box' :
              box'[b].pallet = p => pallet'[p] = pallet[p]
<1>1. /\ DOMAIN pallet' = DOMAIN pallet
      /\ \A p \in DOMAIN pallet :
           \/ pallet'[p] = pallet[p]
           \/ pallet'[p] = [pallet[p] EXCEPT !.active = FALSE]
      /\ \A p \in DOMAIN pallet, b \in DOMAIN box' :
           box'[b].pallet = p => pallet'[p] = pallet[p]
  BY DEF ArchiveEmptied
<1>2. \A p \in DOMAIN pallet :
        /\ pallet[p] \in PalletRow
        /\ pallet'[p] \in PalletRow
        /\ pallet'[p].lot = pallet[p].lot
        /\ pallet'[p].absorbed = pallet[p].absorbed
        /\ pallet'[p].active => pallet[p].active
  BY <1>1 DEF GraphInv, TablesTyped, IsTable, PalletRow
<1> QED
  BY <1>1, <1>2 DEF GraphInv, TablesTyped, IsTable, AbsorbedArchived,
     PalletsStay

LEMMA AssignPalletKeeps ==
  ASSUME GraphInv, NEW b, NEW p \in Pallets \cup {None}, AssignPallet(b, p)
  PROVE  GraphInv'
<1> USE DEF AssignPallet
<1>1. /\ b \in DOMAIN box /\ box[b] \in BoxRow
      /\ AssignedRow(b, p) \in BoxRow
      /\ AssignedRow(b, p).lot = box[b].lot
      /\ AssignedRow(b, p).pallet = p
  BY DEF GraphInv, TablesTyped, IsTable, BoxRow, AssignedRow
<1>2. /\ DOMAIN box' = DOMAIN box
      /\ box'[b] = AssignedRow(b, p)
      /\ \A c \in DOMAIN box \ {b} : box'[c] = box[c]
  BY <1>1
<1>3. IsTable(lot, Lots, LotRow)' /\ NamesUnique' /\ LotsStay
  BY LotsUnchanged
<1>4. /\ IsTable(pallet, Pallets, PalletRow)' /\ AbsorbedArchived'
      /\ PalletsStay /\ DOMAIN pallet' = DOMAIN pallet
      /\ \A q \in DOMAIN pallet, c \in DOMAIN box' :
           box'[c].pallet = q => pallet'[q] = pallet[q]
  BY EmptiedPallets
<1>5. IsTable(file, Files, FileRow)' /\ ReferencesUnique'
  BY FilesUnchanged
<1>6. RequestsStay /\ NamedBoxesStay /\ referenced' = referenced
  BY <1>2 DEF RequestsStay, NamedBoxesStay, cleanupVars
<1>7. /\ IsTable(box, Boxes, BoxRow)' /\ NumbersUnique'
      /\ FilesPlaced' /\ RetiredApart'
  BY <1>1, <1>2, <1>4 DEF GraphInv, TablesTyped, IsTable, NumbersUnique,
     FilesPlaced, RetiredApart, Live
<1>8. BoxesPlaced'
  BY <1>1, <1>2, <1>3, <1>4 DEF GraphInv, BoxesPlaced, LotsStay, UsablePallet
<1> QED
  BY <1>3, <1>4, <1>5, <1>6, <1>7, <1>8, RequestsStayKeeps
     DEF GraphInv, TablesTyped

LEMMA ReassignKeeps ==
  ASSUME GraphInv, NEW b, NEW l \in Lots, NEW p \in Pallets \cup {None},
         Reassign(b, l, p)
  PROVE  GraphInv'
<1> USE DEF Reassign
<1> DEFINE row == [AssignedRow(b, p) EXCEPT !.lot = l, !.worked = TRUE]
           from == box[b].lot
<1>1. /\ b \in DOMAIN box /\ box[b] \in BoxRow
      /\ row \in BoxRow /\ row.lot = l /\ row.pallet = p
      /\ from \in DOMAIN lot
  BY DEF GraphInv, TablesTyped, IsTable, BoxRow, AssignedRow, MayReassign,
     BoxesPlaced, Unmerged
<1>2. /\ DOMAIN box' = DOMAIN box
      /\ box'[b] = row
      /\ \A c \in DOMAIN box \ {b} : box'[c] = box[c]
  BY <1>1
<1>3. /\ DOMAIN lot' = DOMAIN lot
      /\ \A k \in DOMAIN lot :
           /\ lot'[k] \in LotRow
           /\ lot'[k].name = lot[k].name /\ lot'[k].into = lot[k].into
  BY <1>1 DEF GraphInv, TablesTyped, IsTable, LotRow
<1>4. IsTable(lot, Lots, LotRow)' /\ NamesUnique' /\ LotsStay
  <2> HIDE DEF Reassign
  <2>1. \A k : Unmerged(k)' <=> Unmerged(k)
    BY <1>3 DEF Unmerged
  <2>2. IsTable(lot, Lots, LotRow)'
    BY <1>3 DEF GraphInv, TablesTyped, IsTable
  <2> QED
    BY <1>3, <2>1, <2>2 DEF GraphInv, NamesUnique, LotsStay
<1>5. /\ IsTable(pallet, Pallets, PalletRow)' /\ AbsorbedArchived'
      /\ PalletsStay /\ DOMAIN pallet' = DOMAIN pallet
      /\ \A q \in DOMAIN pallet, c \in DOMAIN box' :
           box'[c].pallet = q => pallet'[q] = pallet[q]
  BY EmptiedPallets
<1>6. RequestsStay /\ NamedBoxesStay /\ referenced' = referenced
  BY <1>2 DEF RequestsStay, NamedBoxesStay, cleanupVars
<1>7. /\ DOMAIN file' = DOMAIN file
      /\ \A f \in DOMAIN file :
           /\ file'[f] \in FileRow
           /\ file'[f].box = file[f].box
           /\ file'[f].lot = IF file[f].box = b THEN l ELSE file[f].lot
  BY DEF GraphInv, TablesTyped, IsTable, FileRow
<1>8. IsTable(file, Files, FileRow)' /\ ReferencesUnique'
  BY <1>7 DEF GraphInv, TablesTyped, IsTable, ReferencesUnique, FilesPlaced,
     MayReassign, FilesIn, FilesOf
<1>9. /\ IsTable(box, Boxes, BoxRow)' /\ NumbersUnique'
      /\ FilesPlaced' /\ RetiredApart'
  BY <1>1, <1>2, <1>3, <1>5, <1>7 DEF GraphInv, TablesTyped, IsTable, NumbersUnique,
     FilesPlaced, RetiredApart, Live, MayReassign, BoxesOf
<1>10. BoxesPlaced'
  BY <1>1, <1>2, <1>4, <1>5 DEF GraphInv, BoxesPlaced, LotsStay, MayReassign,
     UsablePallet
<1> QED
  BY <1>4, <1>5, <1>6, <1>8, <1>9, <1>10, RequestsStayKeeps
     DEF GraphInv, TablesTyped

LEMMA AddFileKeeps ==
  ASSUME GraphInv, NEW f \in Files, NEW b, AddFile(f, b)
  PROVE  GraphInv'
<1> USE DEF AddFile
<1> DEFINE row == [box |-> b, lot |-> box[b].lot, active |-> TRUE]
<1>1. /\ row \in FileRow /\ row.box = b /\ row.lot = box[b].lot
      /\ b \in DOMAIN box
  BY DEF GraphInv, TablesTyped, IsTable, BoxRow, FileRow
<1>2. /\ DOMAIN file' = DOMAIN file \cup {f}
      /\ file'[f] = row
      /\ \A g \in DOMAIN file : file'[g] = file[g]
  <2>1. f \notin DOMAIN file /\ file' = WithRow(file, f, row)
    OBVIOUS
  <2> HIDE DEF row, AddFile
  <2> QED BY <2>1 DEF WithRow, Over
<1>3. IsTable(file, Files, FileRow)' /\ ReferencesUnique' /\ FilesPlaced'
  <2> HIDE DEF row
  <2>1. IsTable(file, Files, FileRow)'
    BY <1>1, <1>2 DEF GraphInv, TablesTyped, IsTable
  <2>2. ReferencesUnique'
    <3>1. \A g \in DOMAIN file :
            file[g].lot = row.lot => FileReference[g] # FileReference[f]
      BY <1>1
    <3> QED BY <1>2, <3>1 DEF GraphInv, ReferencesUnique
  <2>3. FilesPlaced'
    <3>1. box' = box
      OBVIOUS
    <3> HIDE DEF AddFile
    <3> QED BY <1>1, <1>2, <3>1 DEF GraphInv, FilesPlaced
  <2> QED BY <2>1, <2>2, <2>3
<1>4. IsTable(lot, Lots, LotRow)' /\ NamesUnique' /\ LotsStay
  BY LotsUnchanged
<1>5. IsTable(pallet, Pallets, PalletRow)' /\ AbsorbedArchived' /\ PalletsStay
  BY PalletsUnchanged
<1>6. IsTable(box, Boxes, BoxRow)' /\ NumbersUnique' /\ NamedBoxesStay
  BY BoxesUnchanged
<1>7. RequestsStay /\ referenced' = referenced
  BY DEF RequestsStay, cleanupVars
<1>8. BoxesPlaced' /\ RetiredApart'
  BY <1>2 DEF GraphInv, BoxesPlaced, RetiredApart, Live, Unmerged
<1> QED
  BY <1>3, <1>4, <1>5, <1>6, <1>7, <1>8, RequestsStayKeeps
     DEF GraphInv, TablesTyped

(* A file is archived, restored or moved to another box of its lot.        *)
LEMMA FileChangeKeeps ==
  ASSUME GraphInv, NEW f, NEW active \in BOOLEAN, NEW b,
         SetFile(f, active) \/ MoveFile(f, b)
  PROVE  GraphInv'
<1>1. UNCHANGED <<lot, pallet, box, retired, cleanupVars>>
  BY DEF SetFile, MoveFile
<1>2. RequestsStay /\ referenced' = referenced
  BY CancelReturnsStays DEF SetFile, MoveFile, cleanupVars
<1>3. /\ DOMAIN file' = DOMAIN file
      /\ \A g \in DOMAIN file :
           /\ file'[g] \in FileRow
           /\ file'[g].lot = file[g].lot
           /\ file'[g].box \in DOMAIN box
           /\ box[file'[g].box].lot = file[g].lot
  <2>1. CASE SetFile(f, active)
    BY <2>1 DEF SetFile, GraphInv, TablesTyped, IsTable, FilesPlaced, FileRow
  <2>2. CASE MoveFile(f, b)
    BY <2>2 DEF MoveFile, GraphInv, TablesTyped, IsTable, FilesPlaced, FileRow
  <2> QED BY <2>1, <2>2
<1>4. IsTable(file, Files, FileRow)' /\ ReferencesUnique' /\ FilesPlaced'
  BY <1>1, <1>3 DEF GraphInv, TablesTyped, IsTable, ReferencesUnique,
     FilesPlaced
<1>5. IsTable(lot, Lots, LotRow)' /\ NamesUnique' /\ LotsStay
  BY <1>1, LotsUnchanged
<1>6. IsTable(pallet, Pallets, PalletRow)' /\ AbsorbedArchived' /\ PalletsStay
  BY <1>1, PalletsUnchanged
<1>7. IsTable(box, Boxes, BoxRow)' /\ NumbersUnique' /\ NamedBoxesStay
  BY <1>1, BoxesUnchanged
<1>8. BoxesPlaced' /\ RetiredApart'
  BY <1>1, <1>2, <1>3 DEF GraphInv, BoxesPlaced, RetiredApart, Live, Unmerged,
     RequestsStay
<1> QED
  BY <1>2, <1>4, <1>5, <1>6, <1>7, <1>8, RequestsStayKeeps
     DEF GraphInv, TablesTyped

(* Lots are created or renamed: nothing else changes.                      *)
LEMMA LotChangeKeeps ==
  ASSUME GraphInv, NEW l \in Lots, NEW name,
         CreateLot(l) \/ (name \in NewNames /\ Rename(l, name))
  PROVE  GraphInv'
<1>1. UNCHANGED <<pallet, box, file, request, retired, cleanupVars>>
  BY DEF CreateLot, Rename
<1>2. /\ IsTable(lot, Lots, LotRow)' /\ NamesUnique' /\ LotsStay
      /\ DOMAIN lot' \cap retired = {}
  <2>1. CASE CreateLot(l)
    <3> DEFINE row == [name |-> LotName[l], into |-> None, worked |-> FALSE]
    <3>1. row \in LotRow /\ row.into = None /\ row.name = LotName[l]
      BY DEF LotRow
    <3>2. /\ DOMAIN lot' = DOMAIN lot \cup {l}
          /\ lot'[l] = row
          /\ \A k \in DOMAIN lot : lot'[k] = lot[k]
      <4>1. l \notin DOMAIN lot /\ lot' = Over(lot, [k \in {l} |-> row])
        BY <2>1 DEF CreateLot, WithLots
      <4> HIDE DEF row
      <4> QED BY <4>1 DEF Over
    <3> HIDE DEF row
    <3>3. /\ l \notin retired
          /\ \A k \in DOMAIN lot : Unmerged(k) => lot[k].name # LotName[l]
      BY <2>1 DEF CreateLot, UsableLot, Unmerged
    <3>4. /\ \A k \in DOMAIN lot : Unmerged(k)' <=> Unmerged(k)
          /\ \A k : Unmerged(k) => k \in DOMAIN lot
      BY <3>2 DEF Unmerged
    <3>5. IsTable(lot, Lots, LotRow)' /\ DOMAIN lot' \cap retired = {}
      BY <3>1, <3>2, <3>3 DEF GraphInv, TablesTyped, IsTable, RetiredApart, Live
    <3>6. NamesUnique'
      BY <3>1, <3>2, <3>3, <3>4 DEF GraphInv, NamesUnique
    <3> QED
      BY <3>4, <3>5, <3>6 DEF LotsStay
  <2>2. CASE name \in NewNames /\ Rename(l, name)
    <3>0. l \in DOMAIN lot /\ lot[l] \in LotRow /\ name \in NewNames
      BY <2>2 DEF Rename, GraphInv, TablesTyped, IsTable, Unmerged
    <3>1. /\ DOMAIN lot' = DOMAIN lot
          /\ lot'[l] \in LotRow
          /\ lot'[l].name = name /\ lot'[l].into = lot[l].into
          /\ \A k \in DOMAIN lot \ {l} : lot'[k] = lot[k]
      BY <2>2, <3>0 DEF Rename, LotRow
    <3> QED
      BY <2>2, <3>1 DEF Rename, GraphInv, TablesTyped, IsTable, NamesUnique,
         LotsStay, Unmerged, RetiredApart, Live
  <2> QED BY <2>1, <2>2
<1>3. IsTable(pallet, Pallets, PalletRow)' /\ AbsorbedArchived' /\ PalletsStay
  BY <1>1, PalletsUnchanged
<1>4. IsTable(box, Boxes, BoxRow)' /\ NumbersUnique' /\ NamedBoxesStay
  BY <1>1, BoxesUnchanged
<1>5. IsTable(file, Files, FileRow)' /\ ReferencesUnique'
  BY <1>1, FilesUnchanged
<1>6. RequestsStay /\ referenced' = referenced
  BY <1>1 DEF RequestsStay, cleanupVars
<1>7. BoxesPlaced' /\ FilesPlaced' /\ RetiredApart'
  BY <1>1, <1>2 DEF GraphInv, BoxesPlaced, FilesPlaced, LotsStay,
     RetiredApart, Live
<1> QED
  BY <1>2, <1>3, <1>4, <1>5, <1>6, <1>7, RequestsStayKeeps
     DEF GraphInv, TablesTyped

LEMMA PalletChangeKeeps ==
  ASSUME GraphInv, NEW p \in Pallets, NEW l,
         NEW active \in BOOLEAN, CreatePallet(p, l) \/ SetPallet(p, active)
  PROVE  GraphInv'
<1>1. UNCHANGED <<lot, box, file, request, retired, cleanupVars>>
  BY DEF CreatePallet, SetPallet
<1>2. /\ IsTable(pallet, Pallets, PalletRow)' /\ AbsorbedArchived'
      /\ PalletsStay /\ DOMAIN pallet' \cap retired = {}
      /\ \A q \in DOMAIN pallet, b \in DOMAIN box :
           box[b].pallet = q => pallet'[q] = pallet[q]
  <2>1. CASE CreatePallet(p, l)
    <3> DEFINE row == [lot |-> l, active |-> TRUE, absorbed |-> None]
    <3>1. row \in PalletRow /\ row.absorbed = None
      BY <2>1 DEF CreatePallet, Unmerged, PalletRow, GraphInv, TablesTyped, IsTable
    <3>2. /\ DOMAIN pallet' = DOMAIN pallet \cup {p}
          /\ pallet'[p] = row
          /\ \A q \in DOMAIN pallet : pallet'[q] = pallet[q]
      <4>1. p \notin DOMAIN pallet /\ pallet' = WithRow(pallet, p, row)
        BY <2>1 DEF CreatePallet
      <4> HIDE DEF row
      <4> QED BY <4>1 DEF WithRow, Over
    <3> HIDE DEF row
    <3> QED
      BY <2>1, <3>1, <3>2 DEF CreatePallet, UsablePallet, GraphInv,
         TablesTyped, IsTable, AbsorbedArchived, PalletsStay, RetiredApart, Live
  <2>2. CASE SetPallet(p, active)
    <3>1. /\ DOMAIN pallet' = DOMAIN pallet
          /\ pallet'[p] \in PalletRow
          /\ pallet'[p].lot = pallet[p].lot
          /\ pallet'[p].absorbed = pallet[p].absorbed
          /\ pallet'[p].active = active
          /\ \A q \in DOMAIN pallet \ {p} : pallet'[q] = pallet[q]
      BY <2>2 DEF SetPallet, GraphInv, TablesTyped, IsTable, PalletRow
    <3> QED
      BY <2>2, <3>1 DEF SetPallet, GraphInv, TablesTyped, IsTable,
         AbsorbedArchived, PalletsStay, RetiredApart, Live
  <2> QED BY <2>1, <2>2
<1>3. IsTable(lot, Lots, LotRow)' /\ NamesUnique' /\ LotsStay
  BY <1>1, LotsUnchanged
<1>4. IsTable(box, Boxes, BoxRow)' /\ NumbersUnique' /\ NamedBoxesStay
  BY <1>1, BoxesUnchanged
<1>5. IsTable(file, Files, FileRow)' /\ ReferencesUnique'
  BY <1>1, FilesUnchanged
<1>6. RequestsStay /\ referenced' = referenced
  BY <1>1 DEF RequestsStay, cleanupVars
<1>7. BoxesPlaced' /\ FilesPlaced' /\ RetiredApart'
  BY <1>1, <1>2 DEF GraphInv, BoxesPlaced, FilesPlaced, PalletsStay,
     RetiredApart, Live, Unmerged
<1> QED
  BY <1>2, <1>3, <1>4, <1>5, <1>6, <1>7, RequestsStayKeeps
     DEF GraphInv, TablesTyped

LEMMA CancelKeeps ==
  ASSUME GraphInv, NEW r \in DOMAIN request, Cancel(r)
  PROVE  GraphInv'
<1> USE DEF Cancel
<1>1. RequestsStay /\ referenced' = referenced
  BY DEF RequestsStay, cleanupVars
<1>2. IsTable(lot, Lots, LotRow)' /\ NamesUnique' /\ LotsStay
  BY LotsUnchanged
<1>3. IsTable(pallet, Pallets, PalletRow)' /\ AbsorbedArchived' /\ PalletsStay
  BY PalletsUnchanged
<1>4. IsTable(box, Boxes, BoxRow)' /\ NumbersUnique' /\ NamedBoxesStay
  BY BoxesUnchanged
<1>5. IsTable(file, Files, FileRow)' /\ ReferencesUnique'
  BY FilesUnchanged
<1>6. BoxesPlaced' /\ FilesPlaced' /\ RetiredApart'
  BY <1>1 DEF GraphInv, BoxesPlaced, FilesPlaced, RequestsStay,
     RetiredApart, Live, Unmerged
<1> QED
  BY <1>1, <1>2, <1>3, <1>4, <1>5, <1>6, RequestsStayKeeps
     DEF GraphInv, TablesTyped

(***************************************************************************)
(* Requests                                                                *)
(***************************************************************************)
(* The items of a new row name what exists after the step, and what it     *)
(* counts is right.                                                        *)
RowPlaced(row) ==
    /\ \A i \in DOMAIN row.items :
        LET item == row.items[i] IN
        /\ item.lot # None /\ item.lot \in DOMAIN lot'
        /\ lot'[item.lot].into = None
        /\ item.box # None => /\ item.box \in DOMAIN box'
                              /\ BoxNumber[item.box] = BoxNumber[i]
        /\ item.pallet # None => item.pallet \in DOMAIN pallet'
    /\ row.lineage \subseteq DOMAIN request
    /\ row.missing = {}
    /\ row.status = "open" => row.kind = "return"
    /\ row.status = "staged" => row.quantity = Cardinality(DOMAIN row.items)
    /\ row.status = "completed" =>
         /\ row.actual = Cardinality(DOMAIN row.items)
         /\ row.variance = row.actual - row.quantity

LEMMA NewRequestKeeps ==
  ASSUME GraphInv, NEW r \in Requests, NEW row \in RequestRow,
         r \notin DOMAIN request \cup retired,
         request' = WithRow(request, r, row), RowPlaced(row),
         referenced' = referenced \cup KeyOf[r],
         LotsStay, PalletsStay, NamedBoxesStay
  PROVE  /\ IsTable(request, Requests, RequestRow)'
         /\ ItemsPlaced' /\ LineageKept' /\ Counted' /\ KeysReferenced'
         /\ DOMAIN request' \cap retired = {}
<1>1. /\ DOMAIN request' = DOMAIN request \cup {r}
      /\ request'[r] = row
      /\ \A q \in DOMAIN request : request'[q] = request[q]
  BY DEF WithRow, Over
<1>2. IsTable(request, Requests, RequestRow)'
  BY <1>1 DEF GraphInv, TablesTyped, IsTable
<1>3. ItemsPlaced'
  <2> SUFFICES ASSUME NEW q \in DOMAIN request', NEW i \in Items(q)'
               PROVE  LET item == request'[q].items[i] IN
                      /\ item.lot # None /\ item.lot \in DOMAIN lot'
                      /\ lot'[item.lot].into = None
                      /\ item.box # None =>
                           /\ item.box \in DOMAIN box'
                           /\ BoxNumber[item.box] = BoxNumber[i]
                      /\ item.pallet # None => item.pallet \in DOMAIN pallet'
    BY DEF ItemsPlaced, Unmerged
  <2>1. CASE q = r
    <3>1. i \in DOMAIN row.items /\ request'[q].items[i] = row.items[i]
      BY <1>1, <2>1 DEF Items
    <3> QED BY <3>1 DEF RowPlaced, Unmerged
  <2>2. CASE q # r
    <3>1. q \in DOMAIN request /\ request'[q] = request[q] /\ i \in Items(q)
      BY <1>1, <2>2 DEF Items
    <3> QED
      BY <3>1 DEF GraphInv, ItemsPlaced, LotsStay, PalletsStay,
         NamedBoxesStay, Naming, Unmerged
  <2> QED BY <2>1, <2>2
<1>4. LineageKept'
  BY <1>1 DEF GraphInv, LineageKept, RowPlaced
<1>5. Counted'
  <2> SUFFICES ASSUME NEW q \in DOMAIN request'
               PROVE  /\ request'[q].status = "open" =>
                           request'[q].kind = "return"
                      /\ request'[q].status = "staged" =>
                           request'[q].quantity = Cardinality(Items(q)')
                      /\ request'[q].missing \subseteq Items(q)'
                      /\ request'[q].missing # {} =>
                           /\ request'[q].kind = "return"
                           /\ request'[q].status = "completed"
                      /\ request'[q].status = "completed" =>
                           /\ request'[q].actual =
                                Cardinality(Items(q)' \ request'[q].missing)
                           /\ request'[q].variance =
                                request'[q].actual - request'[q].quantity
    BY DEF Counted
  <2>1. CASE q = r
    <3>1. Items(q)' = DOMAIN row.items /\ DOMAIN row.items \ {} = DOMAIN row.items
      BY <1>1, <2>1 DEF Items
    <3> QED BY <1>1, <2>1, <3>1 DEF RowPlaced
  <2>2. CASE q # r
    <3>1. q \in DOMAIN request /\ request'[q] = request[q] /\ Items(q)' = Items(q)
      BY <1>1, <2>2 DEF Items
    <3> QED BY <3>1 DEF GraphInv, Counted
  <2> QED BY <2>1, <2>2
<1>6. KeysReferenced'
  <2>1. UNION {PhotoOf[r][i] : i \in request'[r].missing} = {}
    BY <1>1 DEF RowPlaced
  <2> QED
    BY <1>1, <2>1 DEF GraphInv, KeysReferenced, KeysOf
<1> QED
  BY <1>1, <1>2, <1>3, <1>4, <1>5, <1>6 DEF GraphInv, RetiredApart

LEMMA ReturnKeeps ==
  ASSUME GraphInv, NEW r \in Requests, NEW source \in DOMAIN request,
         NEW bs \in SUBSET DOMAIN box, Return(r, source, bs)
  PROVE  GraphInv'
<1> USE DEF Return
<1> DEFINE items == [b \in bs |-> [box |-> b, lot |-> box[b].lot,
                                   pallet |-> box[b].pallet]]
           made == [kind |-> "return", status |-> "open", items |-> items,
                    missing |-> {}, quantity |-> Cardinality(bs), actual |-> 0,
                    variance |-> 0, lineage |-> {source}]
<1>1. /\ bs \subseteq Boxes /\ source \in Requests
      /\ \A b \in bs : box[b] \in BoxRow
  BY DEF GraphInv, TablesTyped, IsTable
<1>2. made \in RequestRow
  <2>1. items \in ItemTables
    <3>1. /\ items = [b \in DOMAIN items |-> items[b]]
          /\ DOMAIN items = bs
          /\ \A b \in bs : items[b] \in ItemRow
      BY <1>1 DEF ItemRow, BoxRow
    <3> HIDE DEF items
    <3> QED BY <1>1, <3>1, ItemTable
  <2>2. Cardinality(bs) \in Nat \ {0}
    BY <1>1, BoxCount
  <2> HIDE DEF items
  <2> QED BY <1>1, <2>1, <2>2, RequestRowIs
<1>3. RowPlaced(made)
  BY <1>1, IdentitiesAssumption DEF RowPlaced, GraphInv, BoxesPlaced, Unmerged, BoxRow
<1>4. r \notin DOMAIN request \cup retired /\ request' = WithRow(request, r, made)
  OBVIOUS
<1>5. IsTable(lot, Lots, LotRow)' /\ NamesUnique' /\ LotsStay
  BY LotsUnchanged
<1>6. IsTable(pallet, Pallets, PalletRow)' /\ AbsorbedArchived' /\ PalletsStay
  BY PalletsUnchanged
<1>7. IsTable(box, Boxes, BoxRow)' /\ NumbersUnique' /\ NamedBoxesStay
  BY BoxesUnchanged
<1>8. IsTable(file, Files, FileRow)' /\ ReferencesUnique'
  BY FilesUnchanged
<1>9. /\ IsTable(request, Requests, RequestRow)'
      /\ ItemsPlaced' /\ LineageKept' /\ Counted' /\ KeysReferenced'
      /\ DOMAIN request' \cap retired = {}
  <2> PICK row : row = made
    OBVIOUS
  <2> HIDE DEF made
  <2> QED
    BY <1>2, <1>3, <1>4, <1>5, <1>6, <1>7, NewRequestKeeps DEF Upload
<1>10. BoxesPlaced' /\ FilesPlaced' /\ RetiredApart'
  BY <1>9 DEF GraphInv, BoxesPlaced, FilesPlaced, RetiredApart, Live, Unmerged
<1> QED
  BY <1>5, <1>6, <1>7, <1>8, <1>9, <1>10 DEF GraphInv, TablesTyped

LEMMA HandOverKeeps ==
  ASSUME GraphInv, NEW r \in DOMAIN request, NEW missing,
         HandOver(r, missing)
  PROVE  GraphInv'
<1> USE DEF HandOver
<1> DEFINE got == Cardinality(Items(r)) - Cardinality(missing)
           row == [request[r] EXCEPT !.status = "completed",
                                     !.missing = missing, !.actual = got,
                                     !.variance = got - request[r].quantity]
<1>1. /\ DOMAIN box' = DOMAIN box
      /\ \A b \in DOMAIN box : /\ box'[b] \in BoxRow
                               /\ box'[b].lot = box[b].lot
                               /\ box'[b].pallet = box[b].pallet
  BY DEF GraphInv, TablesTyped, IsTable, BoxRow
<1>2. /\ request[r] \in RequestRow /\ request[r].status = "open"
      /\ request[r].kind = "return" /\ request[r].missing = {}
      /\ missing \subseteq Items(r) /\ Items(r) \subseteq Boxes
      /\ request[r].quantity \in Nat
  BY RequestTyped DEF GraphInv, Counted
<1>3. got \in Nat /\ got = Cardinality(Items(r) \ missing)
  BY <1>2, BoxCount, BoxCountWithout
<1>4. /\ DOMAIN request' = DOMAIN request
      /\ request'[r] = row
      /\ \A q \in DOMAIN request \ {r} : request'[q] = request[q]
  OBVIOUS
<1> HIDE DEF HandOver, got
<1>5. /\ row \in RequestRow
      /\ row.items = request[r].items
      /\ row.lineage = request[r].lineage
      /\ row.kind = "return" /\ row.status = "completed"
      /\ row.missing = missing /\ row.actual = got
      /\ row.variance = got - request[r].quantity
      /\ row.quantity = request[r].quantity
  <2>1. got - request[r].quantity \in Int /\ missing \in SUBSET Boxes
    BY <1>2, <1>3
  <2> DEFINE variance == got - request[r].quantity
             old == request[r]
  <2>2. variance \in Int /\ old \in RequestRow
    BY <1>2, <2>1
  <2>3. row = [old EXCEPT !.status = "completed", !.missing = missing,
                          !.actual = got, !.variance = variance]
    OBVIOUS
  <2> HIDE DEF variance, old, row
  <2>4. row \in RequestRow
    BY <1>3, <2>1, <2>2, <2>3, RequestRowIs
  <2>5. /\ row.items = old.items /\ row.lineage = old.lineage
        /\ row.kind = old.kind /\ row.quantity = old.quantity
        /\ row.status = "completed" /\ row.missing = missing
        /\ row.actual = got /\ row.variance = variance
    BY <2>2, <2>3, RequestRowIs
  <2> QED BY <1>2, <2>4, <2>5 DEF variance, old
<1> HIDE DEF row
<1>6. \A q \in DOMAIN request : Items(q)' = Items(q)
  BY <1>4, <1>5 DEF Items
<1>7. IsTable(request, Requests, RequestRow)'
  BY <1>4, <1>5 DEF GraphInv, TablesTyped, IsTable
<1>8. ItemsPlaced'
  <2>1. \A q \in DOMAIN request : request'[q].items = request[q].items
    BY <1>4, <1>5
  <2>2. lot' = lot /\ pallet' = pallet
    BY DEF HandOver
  <2> QED
    BY <1>1, <1>4, <1>6, <2>1, <2>2 DEF GraphInv, ItemsPlaced, Unmerged
<1>9. LineageKept'
  BY <1>4, <1>5 DEF GraphInv, LineageKept
<1>10. Counted'
  <2> SUFFICES ASSUME NEW q \in DOMAIN request
               PROVE  /\ request'[q].status = "open" =>
                           request'[q].kind = "return"
                      /\ request'[q].status = "staged" =>
                           request'[q].quantity = Cardinality(Items(q)')
                      /\ request'[q].missing \subseteq Items(q)'
                      /\ request'[q].missing # {} =>
                           /\ request'[q].kind = "return"
                           /\ request'[q].status = "completed"
                      /\ request'[q].status = "completed" =>
                           /\ request'[q].actual =
                                Cardinality(Items(q)' \ request'[q].missing)
                           /\ request'[q].variance =
                                request'[q].actual - request'[q].quantity
    BY <1>4 DEF Counted
  <2>1. CASE q = r
    BY <1>2, <1>3, <1>4, <1>5, <1>6, <2>1
  <2>2. CASE q # r
    BY <1>4, <1>6, <2>2 DEF GraphInv, Counted
  <2> QED BY <2>1, <2>2
<1>11. KeysReferenced'
  <2>1. referenced' = referenced \cup UNION {PhotoOf[r][i] : i \in missing}
    BY DEF HandOver, Upload
  <2>2. \A q \in DOMAIN request \ {r} : request'[q].missing = request[q].missing
    BY <1>4
  <2> QED
    BY <1>2, <1>4, <1>5, <2>1, <2>2 DEF GraphInv, KeysReferenced, KeysOf
<1>12. UNCHANGED <<lot, pallet, file, retired>>
  BY DEF HandOver
<1>13. IsTable(lot, Lots, LotRow)' /\ NamesUnique' /\ LotsStay
  BY <1>12, LotsUnchanged
<1>14. IsTable(pallet, Pallets, PalletRow)' /\ AbsorbedArchived' /\ PalletsStay
  BY <1>12, PalletsUnchanged
<1>15. IsTable(file, Files, FileRow)' /\ ReferencesUnique'
  BY <1>12, FilesUnchanged
<1>16. IsTable(box, Boxes, BoxRow)' /\ NumbersUnique'
  BY <1>1 DEF GraphInv, TablesTyped, IsTable, NumbersUnique
<1>17. BoxesPlaced' /\ FilesPlaced' /\ RetiredApart'
  BY <1>1, <1>4, <1>12 DEF GraphInv, BoxesPlaced, FilesPlaced, RetiredApart,
     Live, Unmerged
<1> QED
  BY <1>7, <1>8, <1>9, <1>10, <1>11, <1>13, <1>14, <1>15, <1>16, <1>17
     DEF GraphInv, TablesTyped

(***************************************************************************)
(* Receipts                                                                *)
(***************************************************************************)
LEMMA LotsNamed ==
  ASSUME GraphInv, NEW bs \in SUBSET Boxes, NEW into \in [bs -> Lots],
         NEW onto, MayName(bs, into, onto),
         lot' = WithLots({into[b] : b \in bs})
  PROVE  /\ IsTable(lot, Lots, LotRow)' /\ NamesUnique' /\ LotsStay
         /\ DOMAIN lot' \cap retired = {}
         /\ \A b \in bs : /\ into[b] \in DOMAIN lot'
                          /\ lot'[into[b]].into = None
<1> DEFINE named == {into[b] : b \in bs}
           row(l) == [name |-> LotName[l], into |-> None, worked |-> FALSE]
<1>1. /\ DOMAIN lot' = DOMAIN lot \cup named
      /\ \A l \in DOMAIN lot : lot'[l] = lot[l]
      /\ \A l \in named \ DOMAIN lot : lot'[l] = row(l)
  BY DEF WithLots, Over
<1>2. /\ named \subseteq Lots
      /\ \A l \in named : UsableLot(l)
      /\ \A k, l \in named : LotName[k] = LotName[l] => k = l
  BY DEF MayName
<1>3. \A l \in Lots : /\ row(l) \in LotRow /\ row(l).into = None
                      /\ row(l).name = LotName[l]
  BY DEF LotRow
<1> HIDE DEF named, row
<1>4. /\ \A k \in DOMAIN lot : Unmerged(k)' <=> Unmerged(k)
      /\ \A k : Unmerged(k) => k \in DOMAIN lot
      /\ \A k \in named \ DOMAIN lot :
           /\ k \notin retired
           /\ \A l \in DOMAIN lot : Unmerged(l) => lot[l].name # LotName[k]
      /\ \A k \in named \cap DOMAIN lot : lot[k].into = None
  BY <1>1, <1>2 DEF Unmerged, UsableLot
<1>5. IsTable(lot, Lots, LotRow)' /\ DOMAIN lot' \cap retired = {}
  BY <1>1, <1>2, <1>3, <1>4 DEF GraphInv, TablesTyped, IsTable, RetiredApart,
     Live
<1>6. NamesUnique'
  <2> SUFFICES ASSUME NEW k \in DOMAIN lot', NEW l \in DOMAIN lot',
                      Unmerged(k)', Unmerged(l)', lot'[k].name = lot'[l].name
               PROVE  k = l
    BY DEF NamesUnique
  <2>1. CASE k \in DOMAIN lot /\ l \in DOMAIN lot
    BY <1>1, <1>4, <2>1 DEF GraphInv, NamesUnique
  <2>2. CASE k \in DOMAIN lot /\ l \notin DOMAIN lot
    BY <1>1, <1>2, <1>3, <1>4, <2>2
  <2>3. CASE k \notin DOMAIN lot /\ l \in DOMAIN lot
    BY <1>1, <1>2, <1>3, <1>4, <2>3
  <2>4. CASE k \notin DOMAIN lot /\ l \notin DOMAIN lot
    BY <1>1, <1>2, <1>3, <2>4
  <2> QED BY <2>1, <2>2, <2>3, <2>4
<1>7. LotsStay
  BY <1>4 DEF LotsStay
<1>8. \A l \in named : l \in DOMAIN lot' /\ lot'[l].into = None
  BY <1>1, <1>2, <1>3, <1>4
<1> QED BY <1>5, <1>6, <1>7, <1>8 DEF named

LEMMA PalletsNamed ==
  ASSUME GraphInv, NEW bs \in SUBSET Boxes, NEW into \in [bs -> Lots],
         NEW onto \in [bs -> Pallets \cup {None}], MayName(bs, into, onto),
         NEW named, named = WithPallets(bs, into, onto)
  PROVE  /\ IsTable(named, Pallets, PalletRow)
         /\ DOMAIN named \cap retired = {}
         /\ \A p \in DOMAIN named :
              named[p].active => named[p].absorbed = None
         /\ \A p \in DOMAIN pallet : p \in DOMAIN named /\ named[p] = pallet[p]
         /\ \A b \in bs : onto[b] # None =>
              /\ onto[b] \in DOMAIN named
              /\ named[onto[b]].lot = into[b] /\ named[onto[b]].active
<1> DEFINE used == {onto[b] : b \in bs} \ {None}
           line(p) == CHOOSE b \in bs : onto[b] = p
           row(p) == [lot |-> into[line(p)], active |-> TRUE, absorbed |-> None]
<1>1. /\ DOMAIN named = DOMAIN pallet \cup used
      /\ \A p \in DOMAIN pallet : named[p] = pallet[p]
      /\ \A p \in used \ DOMAIN pallet : named[p] = row(p)
  BY DEF WithPallets, Over
<1>2. /\ used \subseteq Pallets \ {None}
      /\ \A p \in used : line(p) \in bs /\ onto[line(p)] = p
  OBVIOUS
<1>3. \A b \in bs : onto[b] # None =>
        /\ onto[b] \in used
        /\ UsablePallet(onto[b], into[b])
        /\ into[line(onto[b])] = into[b]
  BY <1>2 DEF MayName
<1> HIDE DEF used, line
<1>4. \A p \in used : /\ row(p) \in PalletRow /\ row(p).active
                      /\ row(p).lot = into[line(p)]
                      /\ row(p).absorbed = None
  BY <1>2 DEF PalletRow
<1> HIDE DEF row
<1>5. \A p \in used : p \notin DOMAIN pallet => p \notin retired
  <2> SUFFICES ASSUME NEW p \in used, p \notin DOMAIN pallet
               PROVE  p \notin retired
    OBVIOUS
  <2> QED BY <1>2 DEF MayName, UsablePallet
<1>6. IsTable(named, Pallets, PalletRow) /\ DOMAIN named \cap retired = {}
  BY <1>1, <1>2, <1>4, <1>5 DEF GraphInv, TablesTyped, IsTable, RetiredApart,
     Live
<1>7. \A p \in DOMAIN named : named[p].active => named[p].absorbed = None
  BY <1>1, <1>4 DEF GraphInv, AbsorbedArchived
<1>8. \A b \in bs : onto[b] # None =>
        /\ onto[b] \in DOMAIN named
        /\ named[onto[b]].lot = into[b] /\ named[onto[b]].active
  BY <1>1, <1>3, <1>4 DEF UsablePallet
<1> QED BY <1>1, <1>6, <1>7, <1>8

(* A line of a receipt is about a box its lot has under that number, or    *)
(* about a new one, and no two lines are about the same.                   *)
LEMMA LinesDistinct ==
  ASSUME GraphInv, NEW bs \in SUBSET Boxes, NEW into \in [bs -> Lots],
         NEW onto, MayName(bs, into, onto)
  PROVE  /\ \A b \in bs :
              LET c == Physical(b, into[b]) IN
              /\ c \in Boxes /\ BoxNumber[c] = BoxNumber[b]
              /\ \/ c \in DOMAIN box /\ c # b /\ box[c].lot = into[b]
                 \/ /\ c = b /\ b \notin DOMAIN box \cup retired
                    /\ \A d \in DOMAIN box :
                         box[d].lot = into[b] => BoxNumber[d] # BoxNumber[b]
         /\ \A b, c \in bs :
              Physical(b, into[b]) = Physical(c, into[c]) => b = c
<1>1. \A b \in bs : b \notin DOMAIN box \cup retired
  BY DEF MayName
<1>2. ASSUME NEW b \in bs
      PROVE  LET c == Physical(b, into[b]) IN
             /\ c \in Boxes /\ BoxNumber[c] = BoxNumber[b]
             /\ \/ c \in DOMAIN box /\ c # b /\ box[c].lot = into[b]
                \/ /\ c = b /\ b \notin DOMAIN box \cup retired
                   /\ \A d \in DOMAIN box :
                        box[d].lot = into[b] => BoxNumber[d] # BoxNumber[b]
  <2>1. CASE \E d \in BoxesOf(into[b]) : BoxNumber[d] = BoxNumber[b]
    <3>1. /\ Physical(b, into[b]) \in BoxesOf(into[b])
          /\ BoxNumber[Physical(b, into[b])] = BoxNumber[b]
      BY <2>1 DEF Physical
    <3> QED
      BY <1>1, <3>1 DEF BoxesOf, GraphInv, TablesTyped, IsTable
  <2>2. CASE ~\E d \in BoxesOf(into[b]) : BoxNumber[d] = BoxNumber[b]
    BY <1>1, <2>2 DEF Physical, BoxesOf
  <2> QED BY <2>1, <2>2
<1>3. ASSUME NEW b \in bs, NEW c \in bs,
             Physical(b, into[b]) = Physical(c, into[c])
      PROVE  b = c
  BY <1>1, <1>2, <1>3 DEF MayName
<1> QED BY <1>2, <1>3

LEMMA IntakeKeeps ==
  ASSUME GraphInv, NEW bs \in SUBSET Boxes, NEW into \in [bs -> Lots],
         NEW onto \in [bs -> Pallets \cup {None}], MayReceive(bs, into, onto),
         Intake(bs, into, onto)
  PROVE  /\ IsTable(lot, Lots, LotRow)' /\ IsTable(pallet, Pallets, PalletRow)'
         /\ IsTable(box, Boxes, BoxRow)'
         /\ NamesUnique' /\ AbsorbedArchived' /\ NumbersUnique' /\ BoxesPlaced'
         /\ LotsStay /\ PalletsStay /\ NamedBoxesStay
         /\ \A b \in DOMAIN box : /\ b \in DOMAIN box'
                                  /\ box'[b].lot = box[b].lot
         /\ (DOMAIN lot' \cup DOMAIN pallet' \cup DOMAIN box')
              \cap retired = {}
         /\ \A b \in bs :
              /\ into[b] \in DOMAIN lot' /\ lot'[into[b]].into = None
              /\ onto[b] # None => onto[b] \in DOMAIN pallet'
              /\ Physical(b, into[b]) \in DOMAIN box'
              /\ BoxNumber[Physical(b, into[b])] = BoxNumber[b]
<1> DEFINE phys(b) == Physical(b, into[b])
           named == WithPallets(bs, into, onto)
           line(c) == CHOOSE b \in bs : phys(b) = c
           row(b) == Received(b, into[b], onto[b])
<1>1. MayName(bs, into, onto)
  BY DEF MayReceive
<1>2. /\ IsTable(lot, Lots, LotRow)' /\ NamesUnique' /\ LotsStay
      /\ DOMAIN lot' \cap retired = {}
      /\ \A b \in bs : into[b] \in DOMAIN lot' /\ lot'[into[b]].into = None
  BY <1>1, LotsNamed DEF Intake
<1>3. /\ IsTable(named, Pallets, PalletRow)
      /\ DOMAIN named \cap retired = {}
      /\ \A p \in DOMAIN named : named[p].active => named[p].absorbed = None
      /\ \A p \in DOMAIN pallet : p \in DOMAIN named /\ named[p] = pallet[p]
      /\ \A b \in bs : onto[b] # None =>
           /\ onto[b] \in DOMAIN named
           /\ named[onto[b]].lot = into[b] /\ named[onto[b]].active
  BY <1>1, PalletsNamed
<1>4. /\ DOMAIN pallet' = DOMAIN named
      /\ \A p \in DOMAIN named :
           \/ pallet'[p] = named[p]
           \/ pallet'[p] = [named[p] EXCEPT !.active = FALSE]
      /\ \A p \in DOMAIN named, c \in DOMAIN box' :
           box'[c].pallet = p => pallet'[p] = named[p]
  BY DEF Intake
<1>5. \A b \in bs :
        /\ phys(b) \in Boxes /\ BoxNumber[phys(b)] = BoxNumber[b]
        /\ \/ phys(b) \in DOMAIN box /\ phys(b) # b /\ box[phys(b)].lot = into[b]
           \/ /\ phys(b) = b /\ b \notin DOMAIN box \cup retired
              /\ \A d \in DOMAIN box :
                   box[d].lot = into[b] => BoxNumber[d] # BoxNumber[b]
  BY <1>1, LinesDistinct
<1>6. \A b, c \in bs : phys(b) = phys(c) => b = c
  BY <1>1, LinesDistinct
<1>7. \A b \in bs : line(phys(b)) = b
  <2> SUFFICES ASSUME NEW b \in bs PROVE line(phys(b)) = b
    OBVIOUS
  <2> HIDE DEF phys
  <2>1. line(phys(b)) \in bs /\ phys(line(phys(b))) = phys(b)
    OBVIOUS
  <2> QED BY <1>6, <2>1
<1>8. /\ DOMAIN box' = DOMAIN box \cup {phys(b) : b \in bs}
      /\ \A b \in bs : box'[phys(b)] = row(b)
      /\ \A c \in DOMAIN box : c \notin {phys(b) : b \in bs} => box'[c] = box[c]
  <2> DEFINE new == [c \in {phys(b) : b \in bs} |-> row(line(c))]
  <2>1. box' = Over(new, box)
    BY DEF Intake
  <2>2. DOMAIN new = {phys(b) : b \in bs} /\ \A b \in bs : new[phys(b)] = row(b)
    BY <1>7
  <2> HIDE DEF new, phys, row
  <2> QED BY <2>1, <2>2 DEF Over
<1>9. \A b \in bs :
        /\ row(b) \in BoxRow
        /\ row(b).lot = into[b]
        /\ row(b).pallet # None =>
             /\ row(b).pallet \in DOMAIN named
             /\ named[row(b).pallet].lot = into[b]
             /\ named[row(b).pallet].active
  <2> SUFFICES ASSUME NEW b \in bs
               PROVE  /\ row(b) \in BoxRow
                      /\ row(b).lot = into[b]
                      /\ row(b).pallet # None =>
                           /\ row(b).pallet \in DOMAIN named
                           /\ named[row(b).pallet].lot = into[b]
                           /\ named[row(b).pallet].active
    OBVIOUS
  <2>1. CASE phys(b) = b
    <3>1. row(b) = [lot |-> into[b], pallet |-> onto[b], state |-> "held",
                    worked |-> FALSE]
      BY <2>1 DEF Received
    <3>2. row(b) \in BoxRow /\ row(b).lot = into[b] /\ row(b).pallet = onto[b]
      <4> HIDE DEF row
      <4> QED BY <3>1 DEF BoxRow
    <3> HIDE DEF row, named
    <3> QED BY <1>3, <3>2
  <2>2. CASE phys(b) # b
    <3> DEFINE old == box[phys(b)]
    <3>1. /\ old \in BoxRow /\ old.lot = into[b]
          /\ old.pallet # None =>
               old.pallet \in DOMAIN pallet /\ pallet[old.pallet].lot = into[b]
      BY <1>5, <2>2 DEF GraphInv, TablesTyped, IsTable, BoxesPlaced
    <3>2. onto[b] = None /\ old.pallet # None => pallet[old.pallet].active
      BY <2>2 DEF MayReceive
    <3>3. row(b) = [old EXCEPT !.state = "held",
                               !.pallet = IF onto[b] = None THEN old.pallet
                                          ELSE onto[b],
                               !.worked = TRUE]
      BY <2>2 DEF Received
    <3>4. /\ row(b) \in BoxRow /\ row(b).lot = old.lot
          /\ row(b).pallet = IF onto[b] = None THEN old.pallet ELSE onto[b]
      <4> HIDE DEF row, old
      <4> QED BY <3>1, <3>3 DEF BoxRow
    <3> HIDE DEF row, named, old
    <3> QED BY <1>3, <3>1, <3>2, <3>4
  <2> QED BY <2>1, <2>2
<1> HIDE DEF phys, named, line, row
<1>10. IsTable(pallet, Pallets, PalletRow)' /\ AbsorbedArchived' /\ PalletsStay
  <2>1. \A p \in DOMAIN named :
          /\ pallet'[p] \in PalletRow
          /\ pallet'[p].lot = named[p].lot
          /\ pallet'[p].absorbed = named[p].absorbed
          /\ pallet'[p].active => named[p].active
    <3> SUFFICES ASSUME NEW p \in DOMAIN named
                 PROVE  /\ pallet'[p] \in PalletRow
                        /\ pallet'[p].lot = named[p].lot
                        /\ pallet'[p].absorbed = named[p].absorbed
                        /\ pallet'[p].active => named[p].active
      OBVIOUS
    <3>1. /\ named[p] \in PalletRow
          /\ \/ pallet'[p] = named[p]
             \/ pallet'[p] = [named[p] EXCEPT !.active = FALSE]
      BY <1>3, <1>4 DEF IsTable
    <3> QED BY <3>1 DEF PalletRow
  <2> QED
    BY <1>3, <1>4, <2>1 DEF IsTable, AbsorbedArchived, PalletsStay
<1>11. \A c \in DOMAIN box : c \in DOMAIN box' /\ box'[c].lot = box[c].lot
  <2> SUFFICES ASSUME NEW c \in DOMAIN box
               PROVE  c \in DOMAIN box' /\ box'[c].lot = box[c].lot
    OBVIOUS
  <2>1. CASE c \in {phys(b) : b \in bs}
    BY <1>5, <1>8, <1>9, <2>1
  <2>2. CASE c \notin {phys(b) : b \in bs}
    BY <1>8, <2>2
  <2> QED BY <2>1, <2>2
<1>12. IsTable(box, Boxes, BoxRow)' /\ DOMAIN box' \cap retired = {}
  BY <1>5, <1>8, <1>9 DEF GraphInv, TablesTyped, IsTable, RetiredApart, Live
<1>13. NumbersUnique'
  <2> SUFFICES ASSUME NEW c \in DOMAIN box', NEW d \in DOMAIN box',
                      box'[c].lot = box'[d].lot, BoxNumber[c] = BoxNumber[d]
               PROVE  c = d
    BY DEF NumbersUnique
  <2>1. CASE c \in DOMAIN box /\ d \in DOMAIN box
    BY <1>11, <2>1 DEF GraphInv, NumbersUnique
  <2>2. CASE c \in DOMAIN box /\ d \notin DOMAIN box
    BY <1>5, <1>8, <1>9, <1>11, <2>2
  <2>3. CASE c \notin DOMAIN box /\ d \in DOMAIN box
    BY <1>5, <1>8, <1>9, <1>11, <2>3
  <2>4. CASE c \notin DOMAIN box /\ d \notin DOMAIN box
    <3>1. PICK b \in bs, e \in bs : c = phys(b) /\ d = phys(e)
      BY <1>8, <2>4
    <3>2. into[b] = into[e] /\ BoxNumber[b] = BoxNumber[e]
      BY <1>5, <1>8, <1>9, <3>1
    <3> QED BY <1>1, <3>1, <3>2 DEF MayName
  <2> QED BY <2>1, <2>2, <2>3, <2>4
<1>14. BoxesPlaced'
  <2> SUFFICES ASSUME NEW c \in DOMAIN box'
               PROVE  /\ Unmerged(box[c].lot)'
                      /\ box'[c].pallet # None =>
                           /\ box'[c].pallet \in DOMAIN pallet'
                           /\ pallet'[box'[c].pallet].lot = box'[c].lot
                           /\ pallet'[box'[c].pallet].active
    BY DEF BoxesPlaced
  <2>1. CASE c \in {phys(b) : b \in bs}
    <3>1. PICK b \in bs : c = phys(b)
      BY <2>1
    <3>2. box'[c] = row(b)
      BY <1>8, <3>1
    <3>3. Unmerged(box[c].lot)'
      BY <1>2, <1>9, <3>2 DEF Unmerged
    <3> QED BY <1>4, <1>9, <3>2, <3>3
  <2>2. CASE c \notin {phys(b) : b \in bs}
    <3>1. c \in DOMAIN box /\ box'[c] = box[c]
      BY <1>8, <2>2
    <3>2. Unmerged(box[c].lot)'
      BY <1>2, <3>1 DEF GraphInv, BoxesPlaced, LotsStay, Unmerged
    <3> QED
      BY <1>3, <1>4, <3>1, <3>2 DEF GraphInv, BoxesPlaced
  <2> QED BY <2>1, <2>2
<1>15. \A b \in bs : /\ onto[b] # None => onto[b] \in DOMAIN pallet'
                     /\ phys(b) \in DOMAIN box'
                     /\ BoxNumber[phys(b)] = BoxNumber[b]
  BY <1>3, <1>4, <1>5, <1>8
<1>16. NamedBoxesStay
  BY <1>11 DEF NamedBoxesStay
<1>17. (DOMAIN lot' \cup DOMAIN pallet' \cup DOMAIN box') \cap retired = {}
  BY <1>2, <1>3, <1>4, <1>12
<1> QED
  BY <1>2, <1>10, <1>11, <1>12, <1>13, <1>14, <1>15, <1>16, <1>17 DEF phys

LEMMA ReceiveKeeps ==
  ASSUME GraphInv, NEW r \in Requests, NEW kind \in {"receipt", "inbound"},
         NEW bs \in Groups, NEW into \in [bs -> Lots],
         NEW onto \in [bs -> Pallets \cup {None}],
         NEW quantity \in 1..ReceiptSize,
         Receive(r, kind, bs, into, onto, quantity)
  PROVE  GraphInv'
<1> DEFINE items == [b \in bs |-> [box |-> Physical(b, into[b]),
                                   lot |-> into[b], pallet |-> onto[b]]]
           made == Completed(kind, items, quantity)
<1>1. bs \in SUBSET Boxes /\ quantity \in Nat \ {0}
  BY DEF Groups
<1>2. /\ IsTable(lot, Lots, LotRow)' /\ IsTable(pallet, Pallets, PalletRow)'
      /\ IsTable(box, Boxes, BoxRow)'
      /\ NamesUnique' /\ AbsorbedArchived' /\ NumbersUnique' /\ BoxesPlaced'
      /\ LotsStay /\ PalletsStay /\ NamedBoxesStay
      /\ \A b \in DOMAIN box : b \in DOMAIN box' /\ box'[b].lot = box[b].lot
      /\ (DOMAIN lot' \cup DOMAIN pallet' \cup DOMAIN box') \cap retired = {}
      /\ \A b \in bs :
           /\ into[b] \in DOMAIN lot' /\ lot'[into[b]].into = None
           /\ onto[b] # None => onto[b] \in DOMAIN pallet'
           /\ Physical(b, into[b]) \in DOMAIN box'
           /\ BoxNumber[Physical(b, into[b])] = BoxNumber[b]
  <2>1. MayReceive(bs, into, onto) /\ Intake(bs, into, onto)
    BY DEF Receive
  <2> QED BY <1>1, <2>1, IntakeKeeps
<1>3. /\ items = [b \in DOMAIN items |-> items[b]]
      /\ DOMAIN items = bs
      /\ \A b \in bs : /\ items[b].box = Physical(b, into[b])
                       /\ items[b].lot = into[b]
                       /\ items[b].pallet = onto[b]
                       /\ items[b] \in ItemRow
  BY <1>2 DEF ItemRow, IsTable
<1>4. /\ UNCHANGED <<file, retired>>
      /\ r \notin DOMAIN request \cup retired
      /\ request' = WithRow(request, r, made)
      /\ referenced' = referenced \cup KeyOf[r]
  BY DEF Receive, Upload
<1> HIDE DEF items
<1>5. made \in RequestRow
  <2>1. items \in ItemTables
    BY <1>1, <1>3, ItemTable
  <2>2. Cardinality(bs) \in Nat /\ Cardinality(bs) - quantity \in Int
    BY <1>1, BoxCount
  <2> QED BY <1>1, <1>3, <2>1, <2>2, RequestRowIs DEF Completed
<1>6. RowPlaced(made)
  <2>1. /\ made.items = items /\ made.lineage = {} /\ made.missing = {}
        /\ made.status = "completed" /\ made.quantity = quantity
        /\ made.actual = Cardinality(DOMAIN items)
        /\ made.variance = made.actual - made.quantity
    BY DEF Completed
  <2> HIDE DEF made
  <2> QED BY <1>2, <1>3, <2>1, IdentitiesAssumption DEF RowPlaced
<1>7. /\ IsTable(request, Requests, RequestRow)'
      /\ ItemsPlaced' /\ LineageKept' /\ Counted' /\ KeysReferenced'
      /\ DOMAIN request' \cap retired = {}
  <2> PICK row : row = made
    OBVIOUS
  <2> HIDE DEF made
  <2> QED BY <1>2, <1>4, <1>5, <1>6, NewRequestKeeps
<1>8. IsTable(file, Files, FileRow)' /\ ReferencesUnique'
  BY <1>4, FilesUnchanged
<1>9. FilesPlaced'
  BY <1>2, <1>4 DEF GraphInv, FilesPlaced
<1>10. RetiredApart'
  BY <1>2, <1>4, <1>7 DEF GraphInv, RetiredApart, Live
<1> QED
  BY <1>2, <1>7, <1>8, <1>9, <1>10 DEF GraphInv, TablesTyped

LEMMA StageKeeps ==
  ASSUME GraphInv, NEW r \in Requests, NEW bs \in Groups,
         NEW into \in [bs -> Lots], NEW onto \in [bs -> Pallets \cup {None}],
         Stage(r, bs, into, onto)
  PROVE  GraphInv'
<1> DEFINE items == [b \in bs |-> [box |-> None, lot |-> into[b],
                                   pallet |-> onto[b]]]
           made == [Completed("staged", items, Cardinality(bs))
                      EXCEPT !.status = "staged", !.actual = 0]
<1>1. bs \in SUBSET Boxes /\ bs # {} /\ MayName(bs, into, onto)
  BY DEF Groups, Stage
<1>2. /\ IsTable(lot, Lots, LotRow)' /\ NamesUnique' /\ LotsStay
      /\ DOMAIN lot' \cap retired = {}
      /\ \A b \in bs : into[b] \in DOMAIN lot' /\ lot'[into[b]].into = None
  BY <1>1, LotsNamed DEF Stage
<1>3. /\ IsTable(pallet', Pallets, PalletRow)
      /\ DOMAIN pallet' \cap retired = {}
      /\ \A p \in DOMAIN pallet' :
           pallet'[p].active => pallet'[p].absorbed = None
      /\ \A p \in DOMAIN pallet :
           p \in DOMAIN pallet' /\ pallet'[p] = pallet[p]
      /\ \A b \in bs : onto[b] # None => onto[b] \in DOMAIN pallet'
  <2>1. PICK named : named = WithPallets(bs, into, onto)
    OBVIOUS
  <2>2. pallet' = named
    BY <2>1 DEF Stage
  <2>3. /\ IsTable(named, Pallets, PalletRow)
        /\ DOMAIN named \cap retired = {}
        /\ \A p \in DOMAIN named :
             named[p].active => named[p].absorbed = None
        /\ \A p \in DOMAIN pallet :
             p \in DOMAIN named /\ named[p] = pallet[p]
        /\ \A b \in bs : onto[b] # None =>
             /\ onto[b] \in DOMAIN named
             /\ named[onto[b]].lot = into[b] /\ named[onto[b]].active
    <3> HIDE DEF items, made
    <3> QED BY <1>1, <2>1, PalletsNamed
  <2> QED BY <2>2, <2>3
<1>4. IsTable(pallet, Pallets, PalletRow)' /\ AbsorbedArchived' /\ PalletsStay
  BY <1>3 DEF IsTable, AbsorbedArchived, PalletsStay
<1>5. UNCHANGED <<box, file, retired>>
  BY DEF Stage
<1>6. IsTable(box, Boxes, BoxRow)' /\ NumbersUnique' /\ NamedBoxesStay
  BY <1>5, BoxesUnchanged
<1>7. IsTable(file, Files, FileRow)' /\ ReferencesUnique'
  BY <1>5, FilesUnchanged
<1>8. /\ items = [b \in DOMAIN items |-> items[b]]
      /\ DOMAIN items = bs
      /\ \A b \in bs : /\ items[b].box = None
                       /\ items[b].lot = into[b]
                       /\ items[b].pallet = onto[b]
                       /\ items[b] \in ItemRow
  BY DEF ItemRow
<1>9. /\ r \notin DOMAIN request \cup retired
      /\ request' = WithRow(request, r, made)
      /\ referenced' = referenced \cup KeyOf[r]
  BY DEF Stage, Upload
<1> HIDE DEF items
<1>10. /\ made \in RequestRow /\ made.items = items
       /\ made.quantity = Cardinality(DOMAIN items)
       /\ made.status = "staged" /\ made.missing = {} /\ made.lineage = {}
  <2>1. items \in ItemTables
    BY <1>1, <1>8, ItemTable
  <2>2. Cardinality(bs) \in Nat \ {0}
        /\ Cardinality(bs) - Cardinality(bs) \in Int
    BY <1>1, BoxCount
  <2> DEFINE base == Completed("staged", items, Cardinality(bs))
             count == Cardinality(bs)
  <2>3. base = [kind |-> "staged", status |-> "completed", items |-> items,
                missing |-> {}, quantity |-> count, actual |-> count,
                variance |-> count - count, lineage |-> {}]
    BY <1>8 DEF Completed
  <2>4. count \in Nat \ {0} /\ count - count = 0
    BY <2>2
  <2>5. made = [base EXCEPT !.status = "staged", !.actual = 0]
    OBVIOUS
  <2> HIDE DEF made, base, count
  <2>6. /\ base \in RequestRow /\ base.items = items /\ base.missing = {}
        /\ base.lineage = {} /\ base.quantity = count
    BY <2>1, <2>3, <2>4, RequestRowIs
  <2>7. /\ made \in RequestRow /\ made.items = base.items
        /\ made.missing = base.missing /\ made.lineage = base.lineage
        /\ made.quantity = base.quantity /\ made.status = "staged"
    BY <2>5, <2>6, RequestRowIs
  <2> QED BY <1>8, <2>6, <2>7 DEF count
<1>11. RowPlaced(made)
  <2> HIDE DEF made
  <2> QED BY <1>2, <1>3, <1>8, <1>10, IdentitiesAssumption DEF RowPlaced
<1>12. /\ IsTable(request, Requests, RequestRow)'
       /\ ItemsPlaced' /\ LineageKept' /\ Counted' /\ KeysReferenced'
       /\ DOMAIN request' \cap retired = {}
  <2> PICK row : row = made
    OBVIOUS
  <2> HIDE DEF made
  <2> QED BY <1>2, <1>4, <1>6, <1>9, <1>10, <1>11, NewRequestKeeps
<1>13. BoxesPlaced' /\ FilesPlaced'
  BY <1>2, <1>3, <1>5 DEF GraphInv, BoxesPlaced, FilesPlaced, LotsStay
<1>14. RetiredApart'
  BY <1>2, <1>3, <1>5, <1>12 DEF GraphInv, RetiredApart, Live
<1> QED
  BY <1>2, <1>4, <1>6, <1>7, <1>12, <1>13, <1>14 DEF GraphInv, TablesTyped

LEMMA FinalizeKeeps ==
  ASSUME GraphInv, NEW r \in DOMAIN request, Finalize(r)
  PROVE  GraphInv'
<1> DEFINE bs == Items(r)
           items == request[r].items
           into == [b \in bs |-> items[b].lot]
           onto == [b \in bs |-> items[b].pallet]
           found == [b \in bs |-> [items[b] EXCEPT !.box = Physical(b, into[b])]]
           row == [request[r] EXCEPT !.status = "completed", !.items = found,
                                     !.actual = Cardinality(bs), !.variance = 0]
<1>1. /\ request[r] \in RequestRow /\ r \in Requests
      /\ bs \in SUBSET Boxes /\ items \in ItemTables
      /\ \A b \in bs : items[b] \in ItemRow
      /\ request[r].status = "staged" /\ request[r].missing = {}
  BY RequestTyped DEF GraphInv, Counted, Finalize
<1>2. into \in [bs -> Lots] /\ onto \in [bs -> Pallets \cup {None}]
  BY <1>1 DEF GraphInv, ItemsPlaced, ItemRow
<1>3. /\ MayReceive(bs, into, onto) /\ Intake(bs, into, onto)
      /\ DOMAIN request' = DOMAIN request
      /\ request'[r] = row
      /\ \A q \in DOMAIN request \ {r} : request'[q] = request[q]
      /\ UNCHANGED <<file, retired, referenced>>
  <2>1. /\ MayReceive(bs, into, onto) /\ Intake(bs, into, onto)
        /\ request' = [request EXCEPT ![r] = row]
    BY DEF Finalize
  <2>2. UNCHANGED <<file, retired, referenced>>
    BY DEF Finalize, cleanupVars
  <2> HIDE DEF row, into, onto
  <2> QED BY <2>1, <2>2
<1>4. /\ IsTable(lot, Lots, LotRow)' /\ IsTable(pallet, Pallets, PalletRow)'
      /\ IsTable(box, Boxes, BoxRow)'
      /\ NamesUnique' /\ AbsorbedArchived' /\ NumbersUnique' /\ BoxesPlaced'
      /\ LotsStay /\ PalletsStay /\ NamedBoxesStay
      /\ \A b \in DOMAIN box : b \in DOMAIN box' /\ box'[b].lot = box[b].lot
      /\ (DOMAIN lot' \cup DOMAIN pallet' \cup DOMAIN box') \cap retired = {}
      /\ \A b \in bs :
           /\ into[b] \in DOMAIN lot' /\ lot'[into[b]].into = None
           /\ onto[b] # None => onto[b] \in DOMAIN pallet'
           /\ Physical(b, into[b]) \in DOMAIN box'
           /\ BoxNumber[Physical(b, into[b])] = BoxNumber[b]
  <2> HIDE DEF into, onto, bs
  <2> QED BY <1>1, <1>2, <1>3, IntakeKeeps
<1>5. /\ found = [b \in DOMAIN found |-> found[b]]
      /\ DOMAIN found = bs
      /\ \A b \in bs : /\ found[b].box = Physical(b, into[b])
                       /\ found[b].lot = into[b]
                       /\ found[b].pallet = onto[b]
                       /\ found[b] \in ItemRow
  <2> SUFFICES ASSUME NEW b \in bs
               PROVE  /\ found[b].box = Physical(b, into[b])
                      /\ found[b].lot = into[b]
                      /\ found[b].pallet = onto[b]
                      /\ found[b] \in ItemRow
    OBVIOUS
  <2>1. Physical(b, into[b]) \in Boxes
    BY <1>4 DEF IsTable
  <2>2. found[b] = [items[b] EXCEPT !.box = Physical(b, into[b])]
    OBVIOUS
  <2>3. into[b] = items[b].lot /\ onto[b] = items[b].pallet
    OBVIOUS
  <2> HIDE DEF found, into, onto
  <2> QED BY <1>1, <2>1, <2>2, <2>3 DEF ItemRow
<1> HIDE DEF found
<1>6. /\ row \in RequestRow /\ row.items = found
      /\ row.status = "completed" /\ row.missing = {}
      /\ row.kind = request[r].kind /\ row.lineage = request[r].lineage
      /\ row.actual = Cardinality(bs) /\ row.variance = 0
      /\ row.quantity = Cardinality(bs)
  <2> DEFINE old == request[r]
  <2>1. found \in ItemTables
    BY <1>1, <1>5, ItemTable
  <2>2. Cardinality(bs) \in Nat /\ old.quantity = Cardinality(bs)
        /\ old.missing = {}
    BY <1>1, BoxCount DEF GraphInv, Counted
  <2>3. old \in RequestRow
    BY <1>1
  <2> DEFINE count == Cardinality(bs)
  <2>7. count \in Nat
    BY <2>2
  <2>4. row = [old EXCEPT !.status = "completed", !.items = found,
                          !.actual = count, !.variance = 0]
    OBVIOUS
  <2> HIDE DEF old, row, count
  <2>5. row \in RequestRow
    <3> DEFINE filled == [old EXCEPT !.items = found]
    <3>1. filled \in RequestRow
      BY <2>1, <2>3, RequestRowIs
    <3> DEFINE even == 0
    <3>2. row = [filled EXCEPT !.status = "completed", !.actual = count,
                               !.variance = even]
      BY <2>3, <2>4, RequestRowIs
    <3>3. even \in Int
      OBVIOUS
    <3> HIDE DEF filled, even
    <3> QED BY <2>7, <3>1, <3>2, <3>3, RequestRowIs
  <2>6. /\ row.items = found /\ row.status = "completed"
        /\ row.missing = old.missing /\ row.kind = old.kind
        /\ row.lineage = old.lineage /\ row.actual = count
        /\ row.variance = 0 /\ row.quantity = old.quantity
    BY <2>3, <2>4, RequestRowIs
  <2> QED BY <2>2, <2>5, <2>6 DEF old, count
<1> HIDE DEF row
<1>7. IsTable(request, Requests, RequestRow)'
  BY <1>1, <1>3, <1>6 DEF GraphInv, TablesTyped, IsTable
<1>8. ItemsPlaced'
  <2> SUFFICES ASSUME NEW q \in DOMAIN request, NEW i \in DOMAIN request'[q].items
               PROVE  LET item == request'[q].items[i] IN
                      /\ item.lot # None /\ item.lot \in DOMAIN lot'
                      /\ lot'[item.lot].into = None
                      /\ item.box # None =>
                           /\ item.box \in DOMAIN box'
                           /\ BoxNumber[item.box] = BoxNumber[i]
                      /\ item.pallet # None => item.pallet \in DOMAIN pallet'
    BY <1>3 DEF ItemsPlaced, Unmerged, Items
  <2>1. CASE q = r
    <3>1. i \in bs /\ request'[q].items[i] = found[i]
      BY <1>3, <1>5, <1>6, <2>1
    <3>2. found[i].lot # None
      BY <1>2, <1>5, <3>1, IdentitiesAssumption
    <3> HIDE DEF bs, into, onto
    <3> QED BY <1>4, <1>5, <3>1, <3>2
  <2>2. CASE q # r
    <3>1. request'[q] = request[q] /\ i \in Items(q)
      BY <1>3, <2>2 DEF Items
    <3> HIDE DEF bs, into, onto
    <3> QED
      BY <1>4, <3>1 DEF GraphInv, ItemsPlaced, LotsStay, PalletsStay,
         NamedBoxesStay, Naming, Unmerged
  <2> QED BY <2>1, <2>2
<1>9. LineageKept'
  BY <1>3, <1>6 DEF GraphInv, LineageKept
<1>10. Counted'
  <2> SUFFICES ASSUME NEW q \in DOMAIN request
               PROVE  /\ request'[q].status = "open" =>
                           request'[q].kind = "return"
                      /\ request'[q].status = "staged" =>
                           request'[q].quantity = Cardinality(Items(q)')
                      /\ request'[q].missing \subseteq Items(q)'
                      /\ request'[q].missing # {} =>
                           /\ request'[q].kind = "return"
                           /\ request'[q].status = "completed"
                      /\ request'[q].status = "completed" =>
                           /\ request'[q].actual =
                                Cardinality(Items(q)' \ request'[q].missing)
                           /\ request'[q].variance =
                                request'[q].actual - request'[q].quantity
    BY <1>3 DEF Counted
  <2>1. CASE q = r
    <3>1. Items(q)' = bs /\ bs \ {} = bs /\ Cardinality(bs) \in Nat
      BY <1>1, <1>3, <1>5, <1>6, <2>1, BoxCount DEF Items
    <3>2. /\ request'[q] = row
          /\ Items(q)' \ request'[q].missing = bs
      BY <1>3, <1>6, <2>1, <3>1
    <3>3. Cardinality(Items(q)') = Cardinality(bs)
          /\ Cardinality(Items(q)' \ request'[q].missing) = Cardinality(bs)
      BY <3>1, <3>2
    <3> DEFINE count == Cardinality(bs)
    <3> HIDE DEF bs, count
    <3> QED BY <1>6, <3>1, <3>2, <3>3 DEF count
  <2>2. CASE q # r
    <3>1. request'[q] = request[q] /\ Items(q)' = Items(q)
      BY <1>3, <2>2 DEF Items
    <3> QED BY <3>1 DEF GraphInv, Counted
  <2> QED BY <2>1, <2>2
<1>11. KeysReferenced'
  <2>1. \A q \in DOMAIN request : request'[q].missing = request[q].missing
    BY <1>1, <1>3, <1>6
  <2> QED BY <1>3, <2>1 DEF GraphInv, KeysReferenced, KeysOf
<1>12. IsTable(file, Files, FileRow)' /\ ReferencesUnique'
  BY <1>3, FilesUnchanged
<1>13. FilesPlaced'
  BY <1>3, <1>4 DEF GraphInv, FilesPlaced
<1>14. RetiredApart'
  BY <1>3, <1>4 DEF GraphInv, RetiredApart, Live
<1> QED
  BY <1>4, <1>7, <1>8, <1>9, <1>10, <1>11, <1>12, <1>13, <1>14
     DEF GraphInv, TablesTyped

(***************************************************************************)
(* Merges                                                                  *)
(***************************************************************************)
LEMMA FinalPalletIs ==
  ASSUME NEW p, NEW s, NEW t
  PROVE  LET q == FinalPallet(p, Combined(s, t)) IN
         \/ q = p /\ \A pair \in Combined(s, t) : pair[1] # p
         \/ /\ p \in PalletsOf(s) /\ q \in PalletsOf(t)
            /\ <<p, q>> \in Combined(s, t)
<1> DEFINE combined == Combined(s, t)
<1>1. \A pair \in combined :
        /\ pair[1] \in PalletsOf(s) /\ pair[2] \in PalletsOf(t)
        /\ pair = <<pair[1], pair[2]>>
  BY DEF Combined
<1>2. CASE \E pair \in combined : pair[1] = p
  <2> DEFINE found == CHOOSE pair \in combined : pair[1] = p
  <2>1. found \in combined /\ found[1] = p
    BY <1>2
  <2>2. FinalPallet(p, combined) = found[2]
    BY <1>2 DEF FinalPallet
  <2> HIDE DEF found, combined
  <2> QED BY <1>1, <2>1, <2>2 DEF combined
<1>3. CASE ~\E pair \in combined : pair[1] = p
  BY <1>3 DEF FinalPallet
<1> QED BY <1>2, <1>3

(* No box is in two pairs, so that survivors are never deleted.            *)
LEMMA PairsApart ==
  ASSUME GraphInv, NEW s, NEW t, s # t, NEW pair \in BoxPairs(s, t)
  PROVE  /\ Loser(pair) \in DOMAIN box /\ Survivor(pair) \in DOMAIN box
         /\ BoxNumber[Survivor(pair)] = BoxNumber[Loser(pair)]
         /\ \A other \in BoxPairs(s, t) : Survivor(pair) # Loser(other)
<1>1. \A one \in BoxPairs(s, t) :
        /\ one[1] \in DOMAIN box /\ box[one[1]].lot = s
        /\ one[2] \in DOMAIN box /\ box[one[2]].lot = t
        /\ BoxNumber[one[1]] = BoxNumber[one[2]]
        /\ \/ Loser(one) = one[1] /\ Survivor(one) = one[2]
           \/ Loser(one) = one[2] /\ Survivor(one) = one[1]
        /\ one = <<one[1], one[2]>>
  BY DEF BoxPairs, BoxesOf, Loser, Survivor
<1>2. ASSUME NEW other \in BoxPairs(s, t), Survivor(pair) = Loser(other)
      PROVE  FALSE
  <2>1. pair[1] = other[1] \/ pair[2] = other[2]
    BY <1>1, <1>2
  <2>2. pair[1] = other[1] /\ pair[2] = other[2]
    BY <1>1, <2>1 DEF GraphInv, NumbersUnique
  <2>3. pair = other
    BY <1>1, <2>2
  <2> QED BY <1>1, <1>2, <2>3
<1> QED BY <1>1, <1>2

LEMMA MergeKeeps ==
  ASSUME GraphInv, NEW s, NEW t, NEW overwrite, Merge(s, t, overwrite)
  PROVE  GraphInv'
<1> DEFINE pairs == BoxPairs(s, t)
           losers == {Loser(pair) : pair \in pairs}
           combined == Combined(s, t)
           lost == LostFiles(s, t, losers)
           final(p) == FinalPallet(p, combined)
<1>1. /\ Unmerged(s) /\ Unmerged(t) /\ s # t
      /\ s \in Lots /\ t \in Lots /\ lot[s] \in LotRow /\ lot[t] \in LotRow
  BY DEF Merge, GraphInv, TablesTyped, IsTable, Unmerged
<1>2. /\ DOMAIN lot' = DOMAIN lot
      /\ lot'[s] \in LotRow /\ lot'[s].into = t
      /\ lot'[t] \in LotRow /\ lot'[t].into = None /\ lot'[t].name = lot[t].name
      /\ \A l \in DOMAIN lot \ {s, t} : lot'[l] = lot[l]
  <2>1. lot' = MergedLots(s, t)
    BY DEF Merge
  <2> QED BY <1>1, <2>1 DEF MergedLots, Unmerged, LotRow
<1>3. /\ DOMAIN pallet' = DOMAIN pallet
      /\ \A p \in DOMAIN pallet : pallet'[p] = MergedPallet(p, s, t, combined)
  BY DEF Merge
<1>4. /\ DOMAIN box' = DOMAIN box \ losers
      /\ \A b \in DOMAIN box' : box'[b] = MergedBox(b, s, t, combined)
  BY DEF Merge
<1>5. /\ DOMAIN file' = DOMAIN file \ lost
      /\ \A f \in DOMAIN file' :
           file'[f] = IF file[f].lot = s THEN [file[f] EXCEPT !.lot = t]
                      ELSE file[f]
  BY DEF Merge
<1>6. /\ DOMAIN request' = DOMAIN request
      /\ \A r \in DOMAIN request :
           request'[r] = MergedRequest(r, s, t, pairs, combined)
      /\ Retire(losers \cup lost) /\ UNCHANGED cleanupVars
      /\ \A pair \in combined : pallet[pair[2]].active
  BY DEF Merge, MergeAllowed
<1>7. \A p : \/ final(p) = p
             \/ /\ p \in DOMAIN pallet /\ pallet[p].lot = s
                /\ final(p) \in DOMAIN pallet /\ pallet[final(p)].lot = t
                /\ pallet[final(p)].active
  <2> SUFFICES ASSUME NEW p, final(p) # p
               PROVE  /\ p \in DOMAIN pallet /\ pallet[p].lot = s
                      /\ final(p) \in DOMAIN pallet /\ pallet[final(p)].lot = t
                      /\ pallet[final(p)].active
    OBVIOUS
  <2>1. /\ p \in PalletsOf(s) /\ final(p) \in PalletsOf(t)
        /\ <<p, final(p)>> \in combined
    BY FinalPalletIs
  <2> HIDE DEF final, combined
  <2> QED BY <1>6, <2>1 DEF PalletsOf
<1>8. \A pair \in pairs :
        /\ Loser(pair) \in DOMAIN box /\ Survivor(pair) \in DOMAIN box'
        /\ BoxNumber[Survivor(pair)] = BoxNumber[Loser(pair)]
  <2> SUFFICES ASSUME NEW pair \in pairs
               PROVE  /\ Loser(pair) \in DOMAIN box
                      /\ Survivor(pair) \in DOMAIN box'
                      /\ BoxNumber[Survivor(pair)] = BoxNumber[Loser(pair)]
    OBVIOUS
  <2>1. /\ Loser(pair) \in DOMAIN box /\ Survivor(pair) \in DOMAIN box
        /\ BoxNumber[Survivor(pair)] = BoxNumber[Loser(pair)]
        /\ \A other \in pairs : Survivor(pair) # Loser(other)
    BY <1>1, PairsApart
  <2> QED BY <1>4, <2>1
<1>9. losers \subseteq DOMAIN box /\ lost \subseteq DOMAIN file
  <2>1. lost \subseteq DOMAIN file
    BY DEF LostFiles, FilesOf, FileClashes, FilesIn
  <2> QED BY <1>8, <2>1
<1>10. \A f \in DOMAIN file : file[f].box \in losers => f \in lost
  BY DEF LostFiles, FilesOf
<1>11. ASSUME NEW f \in DOMAIN file \ lost, NEW g \in DOMAIN file \ lost,
              file[f].lot = s, file[g].lot = t,
              FileReference[f] = FileReference[g]
       PROVE  f = g
  <2> DEFINE clash == {h \in FilesIn(s) \cup FilesIn(t) :
                         FileReference[h] = FileReference[f]}
  <2>1. f \in clash /\ g \in clash /\ clash \in FileClashes(s, t)
    BY <1>11 DEF FilesIn, FileClashes
  <2>2. clash \ {KeptFile(clash, t, losers)} \subseteq lost
    BY <2>1 DEF LostFiles
  <2> QED BY <1>11, <2>1, <2>2
<1> HIDE DEF pairs, losers, combined, lost, final
<1>12. IsTable(lot, Lots, LotRow)' /\ NamesUnique'
  <2>1. IsTable(lot, Lots, LotRow)'
    BY <1>2 DEF GraphInv, TablesTyped, IsTable
  <2>2. \A k \in DOMAIN lot : Unmerged(k)' =>
          k # s /\ Unmerged(k) /\ lot'[k].name = lot[k].name
    BY <1>1, <1>2, IdentitiesAssumption DEF Unmerged
  <2> QED BY <1>2, <2>1, <2>2 DEF GraphInv, NamesUnique
<1>13. \A p \in DOMAIN pallet :
         /\ pallet[p] \in PalletRow /\ pallet'[p] \in PalletRow
         /\ pallet[p].lot # s => pallet'[p] = pallet[p]
         /\ pallet[p].lot = s /\ final(p) = p =>
              /\ pallet'[p].lot = t /\ pallet'[p].active = pallet[p].active
              /\ pallet'[p].absorbed = pallet[p].absorbed
         /\ pallet[p].lot = s /\ final(p) # p => ~pallet'[p].active
  <2> SUFFICES ASSUME NEW p \in DOMAIN pallet
               PROVE  /\ pallet[p] \in PalletRow /\ pallet'[p] \in PalletRow
                      /\ pallet[p].lot # s => pallet'[p] = pallet[p]
                      /\ pallet[p].lot = s /\ final(p) = p =>
                           /\ pallet'[p].lot = t
                           /\ pallet'[p].active = pallet[p].active
                           /\ pallet'[p].absorbed = pallet[p].absorbed
                      /\ pallet[p].lot = s /\ final(p) # p =>
                           ~pallet'[p].active
    OBVIOUS
  <2>1. pallet[p] \in PalletRow
    BY DEF GraphInv, TablesTyped, IsTable
  <2>2. CASE pallet[p].lot # s
    BY <1>3, <2>1, <2>2 DEF MergedPallet
  <2>3. CASE pallet[p].lot = s /\ final(p) = p
    <3>1. pallet'[p] = [pallet[p] EXCEPT !.lot = t]
      BY <1>3, <2>3 DEF MergedPallet, final
    <3> QED BY <1>1, <2>1, <2>3, <3>1 DEF PalletRow
  <2>4. CASE pallet[p].lot = s /\ final(p) # p
    <3>1. pallet'[p] = [pallet[p] EXCEPT !.active = FALSE,
                                         !.absorbed = final(p)]
      BY <1>3, <2>4 DEF MergedPallet, final
    <3>2. final(p) \in Pallets
      BY <1>7, <2>4 DEF GraphInv, TablesTyped, IsTable
    <3> QED BY <2>1, <2>4, <3>1, <3>2 DEF PalletRow
  <2> QED BY <2>2, <2>3, <2>4, <2>1
<1>14. IsTable(pallet, Pallets, PalletRow)' /\ AbsorbedArchived'
  BY <1>3, <1>13 DEF GraphInv, TablesTyped, IsTable, AbsorbedArchived
<1>15. \A b \in DOMAIN box' :
         /\ b \in DOMAIN box /\ box[b] \in BoxRow /\ box'[b] \in BoxRow
         /\ box'[b].lot = IF box[b].lot = s THEN t ELSE box[b].lot
         /\ box'[b].pallet = IF box[b].lot = s THEN final(box[b].pallet)
                             ELSE box[b].pallet
  <2> SUFFICES ASSUME NEW b \in DOMAIN box'
               PROVE  /\ b \in DOMAIN box /\ box[b] \in BoxRow
                      /\ box'[b] \in BoxRow
                      /\ box'[b].lot = IF box[b].lot = s THEN t ELSE box[b].lot
                      /\ box'[b].pallet =
                           IF box[b].lot = s THEN final(box[b].pallet)
                           ELSE box[b].pallet
    OBVIOUS
  <2>1. b \in DOMAIN box /\ box[b] \in BoxRow
    BY <1>4 DEF GraphInv, TablesTyped, IsTable
  <2>2. CASE box[b].lot = s
    <3>1. box'[b] = [box[b] EXCEPT !.lot = t, !.pallet = final(box[b].pallet),
                                   !.worked = TRUE]
      BY <1>4, <2>1, <2>2 DEF MergedBox, final
    <3>2. final(box[b].pallet) \in Pallets \cup {None}
      BY <1>7, <2>1 DEF GraphInv, TablesTyped, IsTable, BoxRow
    <3> QED BY <1>1, <2>1, <2>2, <3>1, <3>2 DEF BoxRow
  <2>3. CASE box[b].lot # s
    BY <1>4, <2>1, <2>3 DEF MergedBox
  <2> QED BY <2>2, <2>3, <2>1
<1>16. IsTable(box, Boxes, BoxRow)'
  BY <1>4, <1>15 DEF GraphInv, TablesTyped, IsTable
<1>17. NumbersUnique'
  <2> SUFFICES ASSUME NEW b \in DOMAIN box', NEW c \in DOMAIN box',
                      box'[b].lot = box'[c].lot, BoxNumber[b] = BoxNumber[c]
               PROVE  b = c
    BY DEF NumbersUnique
  <2>1. ASSUME NEW d \in DOMAIN box', NEW e \in DOMAIN box',
               box[d].lot = s, box[e].lot = t, BoxNumber[d] = BoxNumber[e]
        PROVE  FALSE
    <3>1. <<d, e>> \in pairs
      BY <1>15, <2>1 DEF pairs, BoxPairs, BoxesOf
    <3>2. Loser(<<d, e>>) \in {d, e}
      BY DEF Loser
    <3> QED BY <1>4, <3>1, <3>2 DEF losers
  <2> QED BY <1>15, <2>1 DEF GraphInv, NumbersUnique
<1>18. \A l : Unmerged(l) => IF l = s THEN Unmerged(t)' ELSE Unmerged(l)'
  BY <1>1, <1>2 DEF Unmerged
<1>19. BoxesPlaced'
  <2> SUFFICES ASSUME NEW b \in DOMAIN box'
               PROVE  /\ Unmerged(box[b].lot)'
                      /\ box'[b].pallet # None =>
                           /\ box'[b].pallet \in DOMAIN pallet'
                           /\ pallet'[box'[b].pallet].lot = box'[b].lot
                           /\ pallet'[box'[b].pallet].active
    BY DEF BoxesPlaced
  <2>1. /\ Unmerged(box[b].lot)
        /\ box[b].pallet # None =>
             /\ box[b].pallet \in DOMAIN pallet
             /\ pallet[box[b].pallet].lot = box[b].lot
             /\ pallet[box[b].pallet].active
    BY <1>15 DEF GraphInv, BoxesPlaced
  <2>2. Unmerged(box[b].lot)'
    <3>1. CASE box[b].lot = s
      BY <1>1, <1>2, <1>15, <3>1 DEF Unmerged
    <3>2. CASE box[b].lot = t
      BY <1>1, <1>2, <1>15, <2>1, <3>2 DEF Unmerged
    <3>3. CASE box[b].lot \notin {s, t}
      BY <1>2, <1>15, <2>1, <3>3 DEF Unmerged
    <3> QED BY <3>1, <3>2, <3>3
  <2>3. None \notin DOMAIN pallet
    BY IdentitiesAssumption DEF GraphInv, TablesTyped, IsTable
  <2> QED BY <1>1, <1>3, <1>7, <1>13, <1>15, <2>1, <2>2, <2>3
<1>20. \A f \in DOMAIN file' :
         /\ f \in DOMAIN file /\ file'[f] \in FileRow
         /\ file'[f].box = file[f].box
         /\ file'[f].lot = IF file[f].lot = s THEN t ELSE file[f].lot
  BY <1>1, <1>5 DEF GraphInv, TablesTyped, IsTable, FileRow
<1>21. IsTable(file, Files, FileRow)'
  BY <1>5, <1>20 DEF GraphInv, TablesTyped, IsTable
<1>22. ReferencesUnique'
  <2> SUFFICES ASSUME NEW f \in DOMAIN file', NEW g \in DOMAIN file',
                      file'[f].lot = file'[g].lot,
                      FileReference[f] = FileReference[g]
               PROVE  f = g
    BY DEF ReferencesUnique
  <2> QED BY <1>5, <1>11, <1>20 DEF GraphInv, ReferencesUnique
<1>23. FilesPlaced'
  BY <1>4, <1>5, <1>10, <1>15, <1>20 DEF GraphInv, FilesPlaced
<1> DEFINE next(item) == Relinked(item, s, t, pairs, combined)
<1>24. \A r \in DOMAIN request : \A i \in Items(r) :
         LET item == request[r].items[i]
             new == next(item)
         IN  /\ item.lot # None /\ Unmerged(item.lot)
             /\ new \in ItemRow
             /\ new.lot = IF item.lot = s THEN t ELSE item.lot
             /\ new.box # None => /\ new.box \in DOMAIN box'
                                  /\ BoxNumber[new.box] = BoxNumber[i]
             /\ new.pallet # None => new.pallet \in DOMAIN pallet
  <2> SUFFICES ASSUME NEW r \in DOMAIN request, NEW i \in Items(r), NEW item,
                      item = request[r].items[i]
               PROVE  /\ item.lot # None /\ Unmerged(item.lot)
                      /\ next(item) \in ItemRow
                      /\ next(item).lot = IF item.lot = s THEN t ELSE item.lot
                      /\ next(item).box # None =>
                           /\ next(item).box \in DOMAIN box'
                           /\ BoxNumber[next(item).box] = BoxNumber[i]
                      /\ next(item).pallet # None =>
                           next(item).pallet \in DOMAIN pallet
    OBVIOUS
  <2>1. /\ item \in ItemRow
        /\ item.lot # None /\ Unmerged(item.lot)
        /\ item.box # None => /\ item.box \in DOMAIN box
                              /\ BoxNumber[item.box] = BoxNumber[i]
        /\ item.pallet # None => item.pallet \in DOMAIN pallet
    BY RequestTyped DEF GraphInv, ItemsPlaced
  <2> DEFINE moved == [item EXCEPT !.lot = IF @ = s THEN t ELSE @]
  <2>2. /\ moved \in ItemRow
        /\ moved.lot = IF item.lot = s THEN t ELSE item.lot
        /\ moved.box = item.box /\ moved.pallet = item.pallet
    BY <1>1, <2>1 DEF ItemRow
  <2>3. DOMAIN pallet \subseteq Pallets /\ DOMAIN box \subseteq Boxes
    BY DEF GraphInv, TablesTyped, IsTable
  <2>4. CASE \E pair \in pairs : Loser(pair) = item.box
    <3> DEFINE pair == CHOOSE pair \in pairs : Loser(pair) = item.box
               place == box[Survivor(pair)].pallet
    <3>1. pair \in pairs /\ Loser(pair) = item.box
      BY <2>4
    <3>2. next(item) = [moved EXCEPT !.box = Survivor(pair),
                                     !.pallet = final(place)]
      BY <2>4 DEF Relinked, final
    <3> HIDE DEF pair
    <3>3. /\ Survivor(pair) \in DOMAIN box' /\ Survivor(pair) \in DOMAIN box
          /\ item.box \in DOMAIN box
          /\ BoxNumber[Survivor(pair)] = BoxNumber[item.box]
      BY <1>4, <1>8, <3>1
    <3>4. item.box # None
      BY <2>3, <3>3, IdentitiesAssumption
    <3>5. place # None => place \in DOMAIN pallet
      BY <3>3 DEF GraphInv, BoxesPlaced
    <3>6. final(place) # None => final(place) \in DOMAIN pallet
      BY <1>7, <3>5
    <3>7. /\ next(item) \in ItemRow /\ next(item).lot = moved.lot
          /\ next(item).box = Survivor(pair)
          /\ next(item).pallet = final(place)
      <4> HIDE DEF moved, next, place
      <4> QED BY <2>2, <2>3, <3>2, <3>3, <3>6 DEF ItemRow
    <3> HIDE DEF moved, next, place
    <3> QED BY <2>1, <2>2, <3>3, <3>4, <3>6, <3>7
  <2>5. CASE ~\E pair \in pairs : Loser(pair) = item.box
    <3>1. next(item) = [moved EXCEPT !.pallet = final(item.pallet)]
      BY <2>2, <2>5 DEF Relinked, final
    <3>2. item.box # None => item.box \in DOMAIN box'
      BY <1>4, <2>1, <2>5 DEF losers
    <3>3. final(item.pallet) # None => final(item.pallet) \in DOMAIN pallet
      BY <1>7, <2>1
    <3>4. /\ next(item) \in ItemRow /\ next(item).lot = moved.lot
          /\ next(item).box = moved.box
          /\ next(item).pallet = final(item.pallet)
      <4> HIDE DEF moved, next
      <4> QED BY <2>2, <2>3, <3>1, <3>3 DEF ItemRow
    <3> HIDE DEF moved, next
    <3> QED BY <2>1, <2>2, <3>2, <3>3, <3>4
  <2> QED BY <2>4, <2>5
<1>25. \A r \in DOMAIN request :
         /\ request'[r] = [request[r] EXCEPT
                             !.items = [i \in Items(r) |->
                                          next(request[r].items[i])]]
         /\ request[r] \in RequestRow /\ Items(r) \subseteq Boxes
  BY <1>6, RequestTyped DEF MergedRequest, Items, GraphInv
<1> HIDE DEF next
<1>26. \A r \in DOMAIN request :
         /\ request'[r] \in RequestRow
         /\ DOMAIN request'[r].items = Items(r)
         /\ \A i \in Items(r) :
              request'[r].items[i] = next(request[r].items[i])
         /\ request'[r].kind = request[r].kind
         /\ request'[r].status = request[r].status
         /\ request'[r].missing = request[r].missing
         /\ request'[r].quantity = request[r].quantity
         /\ request'[r].actual = request[r].actual
         /\ request'[r].variance = request[r].variance
         /\ request'[r].lineage = request[r].lineage
  <2> SUFFICES ASSUME NEW r \in DOMAIN request
               PROVE  /\ request'[r] \in RequestRow
                      /\ DOMAIN request'[r].items = Items(r)
                      /\ \A i \in Items(r) :
                           request'[r].items[i] = next(request[r].items[i])
                      /\ request'[r].kind = request[r].kind
                      /\ request'[r].status = request[r].status
                      /\ request'[r].missing = request[r].missing
                      /\ request'[r].quantity = request[r].quantity
                      /\ request'[r].actual = request[r].actual
                      /\ request'[r].variance = request[r].variance
                      /\ request'[r].lineage = request[r].lineage
    OBVIOUS
  <2> DEFINE new == [i \in Items(r) |-> next(request[r].items[i])]
             old == request[r]
             row == request'[r]
  <2>1. /\ new = [i \in DOMAIN new |-> new[i]] /\ DOMAIN new = Items(r)
        /\ \A i \in Items(r) : /\ new[i] = next(request[r].items[i])
                               /\ new[i] \in ItemRow
    BY <1>24
  <2>2. row = [old EXCEPT !.items = new] /\ old \in RequestRow
    BY <1>25
  <2> HIDE DEF new, old, row
  <2>3. new \in ItemTables
    BY <1>25, <2>1, ItemTable
  <2>4. /\ row \in RequestRow /\ row.items = new
        /\ row.kind = old.kind /\ row.status = old.status
        /\ row.missing = old.missing /\ row.quantity = old.quantity
        /\ row.actual = old.actual /\ row.variance = old.variance
        /\ row.lineage = old.lineage
    BY <2>2, <2>3, RequestRowIs
  <2> QED BY <2>1, <2>4 DEF old, row
<1>27. IsTable(request, Requests, RequestRow)'
  BY <1>6, <1>26 DEF GraphInv, TablesTyped, IsTable
<1>28. ItemsPlaced'
  <2> SUFFICES ASSUME NEW r \in DOMAIN request, NEW i \in Items(r)
               PROVE  LET item == request'[r].items[i] IN
                      /\ item.lot # None /\ item.lot \in DOMAIN lot'
                      /\ lot'[item.lot].into = None
                      /\ item.box # None =>
                           /\ item.box \in DOMAIN box'
                           /\ BoxNumber[item.box] = BoxNumber[i]
                      /\ item.pallet # None => item.pallet \in DOMAIN pallet'
    BY <1>6, <1>26 DEF ItemsPlaced, Unmerged, Items
  <2> DEFINE item == request[r].items[i]
  <2>1. /\ request'[r].items[i] = next(item)
        /\ item.lot # None /\ Unmerged(item.lot)
        /\ next(item).lot = IF item.lot = s THEN t ELSE item.lot
        /\ next(item).box # None =>
             /\ next(item).box \in DOMAIN box'
             /\ BoxNumber[next(item).box] = BoxNumber[i]
        /\ next(item).pallet # None => next(item).pallet \in DOMAIN pallet
    BY <1>24, <1>26
  <2>2. /\ next(item).lot # None /\ next(item).lot \in DOMAIN lot'
        /\ lot'[next(item).lot].into = None
    <3> HIDE DEF item
    <3>1. t # None /\ t \in DOMAIN lot'
      BY <1>1, <1>2, IdentitiesAssumption DEF Unmerged
    <3>2. CASE item.lot \in {s, t}
      BY <1>1, <1>2, <2>1, <3>1, <3>2
    <3>3. CASE item.lot \notin {s, t}
      BY <1>2, <2>1, <3>3 DEF Unmerged
    <3> QED BY <3>2, <3>3
  <2> HIDE DEF item
  <2> QED BY <1>3, <2>1, <2>2
<1>29. LineageKept'
  BY <1>6, <1>26 DEF GraphInv, LineageKept
<1>30. Counted'
  <2> SUFFICES ASSUME NEW q \in DOMAIN request
               PROVE  /\ request'[q].status = "open" =>
                           request'[q].kind = "return"
                      /\ request'[q].status = "staged" =>
                           request'[q].quantity = Cardinality(Items(q)')
                      /\ request'[q].missing \subseteq Items(q)'
                      /\ request'[q].missing # {} =>
                           /\ request'[q].kind = "return"
                           /\ request'[q].status = "completed"
                      /\ request'[q].status = "completed" =>
                           /\ request'[q].actual =
                                Cardinality(Items(q)' \ request'[q].missing)
                           /\ request'[q].variance =
                                request'[q].actual - request'[q].quantity
    BY <1>6 DEF Counted
  <2>1. Items(q)' = Items(q)
    BY <1>26 DEF Items
  <2>2. /\ request'[q].kind = request[q].kind
        /\ request'[q].status = request[q].status
        /\ request'[q].missing = request[q].missing
        /\ request'[q].quantity = request[q].quantity
        /\ request'[q].actual = request[q].actual
        /\ request'[q].variance = request[q].variance
    BY <1>26
  <2> QED BY <2>1, <2>2 DEF GraphInv, Counted
<1>31. KeysReferenced'
  BY <1>6, <1>26 DEF GraphInv, KeysReferenced, KeysOf, cleanupVars
<1>32. RetiredApart'
  BY <1>2, <1>3, <1>4, <1>5, <1>6, <1>9, IdentitiesAssumption
     DEF GraphInv, TablesTyped, IsTable, RetiredApart, Live, Retire
<1> QED
  BY <1>12, <1>14, <1>16, <1>17, <1>19, <1>21, <1>22, <1>23, <1>27, <1>28,
     <1>29, <1>30, <1>31, <1>32 DEF GraphInv, TablesTyped

(***************************************************************************)
(* Purges                                                                  *)
(***************************************************************************)
LEMMA DropLotKeeps ==
  ASSUME GraphInv, NEW l \in DOMAIN lot, NEW rs \in SUBSET DOMAIN request,
         DropLot(l, rs), DOMAIN request' = DOMAIN request \ rs
  PROVE  /\ IsTable(lot, Lots, LotRow)' /\ IsTable(pallet, Pallets, PalletRow)'
         /\ IsTable(box, Boxes, BoxRow)' /\ IsTable(file, Files, FileRow)'
         /\ NamesUnique' /\ AbsorbedArchived' /\ NumbersUnique'
         /\ ReferencesUnique' /\ BoxesPlaced' /\ FilesPlaced' /\ RetiredApart'
<1>1. /\ DOMAIN lot' = DOMAIN lot \ {l}
      /\ \A k \in DOMAIN lot' : lot'[k] = lot[k]
      /\ DOMAIN pallet' = DOMAIN pallet \ PalletsOf(l)
      /\ \A p \in DOMAIN pallet' : pallet'[p] = pallet[p]
      /\ DOMAIN box' = DOMAIN box \ BoxesOf(l)
      /\ \A b \in DOMAIN box' : box'[b] = box[b]
      /\ DOMAIN file' = DOMAIN file \ FilesOf(BoxesOf(l))
      /\ \A f \in DOMAIN file' : file'[f] = file[f]
  BY DEF DropLot, Restrict
<1>2. /\ retired' = retired \cup ({l} \cup PalletsOf(l) \cup BoxesOf(l)
                                  \cup FilesOf(BoxesOf(l)) \cup rs)
      /\ PalletsOf(l) \subseteq DOMAIN pallet
      /\ BoxesOf(l) \subseteq DOMAIN box
      /\ FilesOf(BoxesOf(l)) \subseteq DOMAIN file
  BY DEF DropLot, Retire, BarcodesGone, PalletsOf, BoxesOf, FilesOf
<1>3. /\ IsTable(lot, Lots, LotRow)' /\ IsTable(pallet, Pallets, PalletRow)'
      /\ IsTable(box, Boxes, BoxRow)' /\ IsTable(file, Files, FileRow)'
  BY <1>1 DEF GraphInv, TablesTyped, IsTable
<1>4. NamesUnique'
  <2>1. \A k \in DOMAIN lot' : Unmerged(k)' => k \in DOMAIN lot /\ Unmerged(k)
    BY <1>1 DEF Unmerged
  <2> QED BY <1>1, <2>1 DEF GraphInv, NamesUnique
<1>5. AbsorbedArchived' /\ NumbersUnique' /\ ReferencesUnique'
  BY <1>1 DEF GraphInv, AbsorbedArchived, NumbersUnique, ReferencesUnique
<1>6. BoxesPlaced'
  BY <1>1 DEF GraphInv, BoxesPlaced, BoxesOf, PalletsOf, Unmerged
<1>7. FilesPlaced'
  BY <1>1 DEF GraphInv, FilesPlaced, BoxesOf, FilesOf
<1>8. RetiredApart'
  BY <1>1, <1>2, IdentitiesAssumption
     DEF GraphInv, TablesTyped, IsTable, RetiredApart, Live
<1> QED BY <1>3, <1>4, <1>5, <1>6, <1>7, <1>8

(* An item that is neither of the lot nor on one of its pallets outlives   *)
(* the purge.                                                              *)
LEMMA OtherItemsPlaced ==
  ASSUME GraphInv, NEW l \in DOMAIN lot, NEW rs, DropLot(l, rs),
         NEW r \in DOMAIN request, NEW i \in Items(r),
         ~Own(request[r].items[i], l)
  PROVE  LET item == request[r].items[i] IN
         /\ item.lot # None /\ item.lot \in DOMAIN lot'
         /\ lot'[item.lot].into = None
         /\ item.box # None => /\ item.box \in DOMAIN box'
                               /\ BoxNumber[item.box] = BoxNumber[i]
         /\ item.pallet # None /\ item.pallet \notin PalletsOf(l) =>
              item.pallet \in DOMAIN pallet'
<1>1. /\ DOMAIN lot' = DOMAIN lot \ {l}
      /\ \A k \in DOMAIN lot' : lot'[k] = lot[k]
      /\ DOMAIN pallet' = DOMAIN pallet \ PalletsOf(l)
      /\ DOMAIN box' = DOMAIN box \ BoxesOf(l)
  BY DEF DropLot, Restrict
<1> QED BY <1>1 DEF GraphInv, ItemsPlaced, Own, Unmerged

LEMMA PurgedLotKeeps ==
  ASSUME GraphInv, NEW l \in DOMAIN lot, NEW a, Purge(l, a)
  PROVE  GraphInv'
<1>1. /\ Linked(l) \in SUBSET DOMAIN request
      /\ DropLot(l, Linked(l)) /\ NothingForeign(l)
      /\ DOMAIN request' = DOMAIN request \ Linked(l)
      /\ \A r \in DOMAIN request' : request'[r] = request[r]
      /\ KeysReferenced'
  BY DEF Purge, MayPurge, Eligible, Linked, Restrict, KeysReferenced
<1>2. /\ IsTable(lot, Lots, LotRow)' /\ IsTable(pallet, Pallets, PalletRow)'
      /\ IsTable(box, Boxes, BoxRow)' /\ IsTable(file, Files, FileRow)'
      /\ NamesUnique' /\ AbsorbedArchived' /\ NumbersUnique'
      /\ ReferencesUnique' /\ BoxesPlaced' /\ FilesPlaced' /\ RetiredApart'
  BY <1>1, DropLotKeeps
<1>3. IsTable(request, Requests, RequestRow)'
  BY <1>1 DEF GraphInv, TablesTyped, IsTable
<1>4. ItemsPlaced'
  <2> SUFFICES ASSUME NEW r \in DOMAIN request', NEW i \in DOMAIN request'[r].items
               PROVE  LET item == request'[r].items[i] IN
                      /\ item.lot # None /\ item.lot \in DOMAIN lot'
                      /\ lot'[item.lot].into = None
                      /\ item.box # None =>
                           /\ item.box \in DOMAIN box'
                           /\ BoxNumber[item.box] = BoxNumber[i]
                      /\ item.pallet # None => item.pallet \in DOMAIN pallet'
    BY DEF ItemsPlaced, Unmerged, Items
  <2>1. /\ r \in DOMAIN request /\ i \in Items(r)
        /\ request'[r].items[i] = request[r].items[i]
        /\ ~Own(request[r].items[i], l)
        /\ request[r].items[i].pallet \notin PalletsOf(l)
    BY <1>1 DEF Items, Linked
  <2>2. LET item == request[r].items[i] IN
        /\ item.lot # None /\ item.lot \in DOMAIN lot'
        /\ lot'[item.lot].into = None
        /\ item.box # None => /\ item.box \in DOMAIN box'
                              /\ BoxNumber[item.box] = BoxNumber[i]
        /\ item.pallet # None /\ item.pallet \notin PalletsOf(l) =>
             item.pallet \in DOMAIN pallet'
    BY <1>1, <2>1, OtherItemsPlaced
  <2> QED BY <2>1, <2>2
<1>5. LineageKept'
  BY <1>1 DEF GraphInv, LineageKept, NothingForeign
<1>6. Counted'
  BY <1>1 DEF GraphInv, Counted, Items
<1> QED
  BY <1>1, <1>2, <1>3, <1>4, <1>5, <1>6 DEF GraphInv, TablesTyped

(* What a forced purge of l leaves of a row that keeps the items in kept,  *)
(* and that the row still counts them.                                     *)
LosesTo(l, old, kept, row) ==
    /\ row \in RequestRow
    /\ DOMAIN row.items = kept
    /\ \A i \in kept :
         /\ row.items[i].lot = old.items[i].lot
         /\ row.items[i].box = old.items[i].box
         /\ row.items[i].pallet =
              IF old.items[i].pallet \in PalletsOf(l) THEN None
              ELSE old.items[i].pallet
    /\ row.kind = old.kind /\ row.status = old.status
    /\ row.missing = old.missing \cap kept
    /\ row.lineage = old.lineage \ FullyLost(l)
    /\ row.status = "staged" => row.quantity = Cardinality(kept)
    /\ row.status = "completed" =>
         /\ row.actual = Cardinality(kept \ row.missing)
         /\ row.variance = row.actual - row.quantity

LEMMA RewrittenRow ==
  ASSUME GraphInv, NEW l \in DOMAIN lot,
         NEW r \in DOMAIN request \ FullyLost(l)
  PROVE  LosesTo(l, request[r], Items(r) \ LostItems(r, l), Rewritten(r, l))
<1> DEFINE lost == LostItems(r, l)
           kept == Items(r) \ lost
           old == request[r]
           done == old.status = "completed"
           items == [i \in kept |->
                       IF old.items[i].pallet \in PalletsOf(l)
                       THEN [old.items[i] EXCEPT !.pallet = None]
                       ELSE old.items[i]]
           quantity == IF kept = Items(r) THEN old.quantity
                       ELSE QuantityAfter(r, l)
           actual == IF kept # Items(r) /\ done THEN ActualAfter(r, l)
                     ELSE old.actual
           variance == IF done /\ kept # Items(r) THEN actual - quantity
                       ELSE old.variance
           lineage == old.lineage \ FullyLost(l)
           missing == old.missing \cap kept
<1>1. /\ old \in RequestRow /\ Items(r) \in SUBSET Boxes
      /\ old.items \in ItemTables /\ old.missing \in SUBSET Boxes
      /\ \A i \in Items(r) : old.items[i] \in ItemRow
      /\ old.quantity \in Nat \ {0} /\ old.actual \in Nat
      /\ old.variance \in Int /\ old.lineage \in SUBSET Requests
  BY RequestTyped DEF GraphInv
<1>2. /\ lost \subseteq Items(r) /\ kept \subseteq Items(r)
      /\ kept # Items(r) => kept # {}
  BY DEF LostItems, FullyLost
<1>3. /\ old.status = "staged" => old.quantity = Cardinality(Items(r))
      /\ old.missing \subseteq Items(r)
      /\ old.missing # {} => old.kind = "return"
      /\ done => /\ old.actual = Cardinality(Items(r) \ old.missing)
                 /\ old.variance = old.actual - old.quantity
  BY DEF GraphInv, Counted
<1>4. /\ Cardinality(lost) \in Nat /\ Cardinality(kept) \in Nat
      /\ kept # Items(r) => Cardinality(kept) > 0
      /\ Cardinality(kept) = Cardinality(Items(r)) - Cardinality(lost)
      /\ Cardinality(Items(r)) \in Nat
  BY <1>1, <1>2, BoxCount, BoxCountWithout
<1>5. Cardinality(kept \ old.missing) =
        Cardinality(Items(r) \ old.missing) - Cardinality(lost \ old.missing)
  <2>1. /\ Items(r) \ old.missing \in SUBSET Boxes
        /\ lost \ old.missing \in SUBSET (Items(r) \ old.missing)
        /\ (Items(r) \ old.missing) \ (lost \ old.missing) = kept \ old.missing
    BY <1>1, <1>2
  <2> QED BY <2>1, BoxCountWithout
<1>6. quantity \in Nat \ {0}
      /\ (old.status = "staged" => quantity = Cardinality(kept))
  <2>1. CASE kept = Items(r)
    BY <1>1, <1>3, <2>1
  <2>2. CASE kept # Items(r)
    <3>1. quantity = IF old.quantity - Cardinality(lost) < 1 THEN 1
                     ELSE old.quantity - Cardinality(lost)
      BY <2>2 DEF QuantityAfter
    <3> HIDE DEF quantity, kept, lost, old
    <3> QED BY <1>1, <1>3, <1>4, <2>2, <3>1
  <2> QED BY <2>1, <2>2
<1>7. actual \in Nat /\ (done => actual = Cardinality(kept \ missing))
  <2>1. kept \ missing = kept \ old.missing
    OBVIOUS
  <2>2. Cardinality(kept \ old.missing) \in Nat
    BY <1>1, <1>2, BoxCount
  <2>3. CASE kept = Items(r) \/ ~done
    BY <1>1, <1>3, <2>1, <2>3
  <2>4. CASE kept # Items(r) /\ done /\ old.kind # "return"
    <3>1. old.missing = {} /\ kept \ old.missing = kept
      BY <1>3, <2>4
    <3>2. actual = Cardinality(kept)
      BY <2>4 DEF ActualAfter
    <3> QED BY <2>1, <2>2, <3>1, <3>2
  <2>5. CASE kept # Items(r) /\ done /\ old.kind = "return"
    <3> DEFINE got == old.actual - Cardinality(lost \ old.missing)
    <3>1. actual = IF got < 0 THEN 0 ELSE got
      BY <2>5 DEF ActualAfter
    <3>2. got = Cardinality(kept \ old.missing)
      BY <1>3, <1>5, <2>5
    <3> HIDE DEF got, actual
    <3> QED BY <2>1, <2>2, <3>1, <3>2
  <2> QED BY <2>3, <2>4, <2>5
<1>8. variance \in Int /\ (done => variance = actual - quantity)
  <2>1. CASE done /\ kept # Items(r)
    <3>1. variance = actual - quantity
      BY <2>1
    <3> HIDE DEF variance, actual, quantity
    <3> QED BY <1>6, <1>7, <3>1
  <2>2. CASE ~done \/ kept = Items(r)
    BY <1>1, <1>3, <2>2
  <2> QED BY <2>1, <2>2
<1>9. /\ items = [i \in DOMAIN items |-> items[i]]
      /\ DOMAIN items = kept
      /\ \A i \in kept :
           /\ items[i] \in ItemRow
           /\ items[i].lot = old.items[i].lot
           /\ items[i].box = old.items[i].box
           /\ items[i].pallet = IF old.items[i].pallet \in PalletsOf(l)
                                THEN None ELSE old.items[i].pallet
  <2> SUFFICES ASSUME NEW i \in kept
               PROVE  /\ items[i] \in ItemRow
                      /\ items[i].lot = old.items[i].lot
                      /\ items[i].box = old.items[i].box
                      /\ items[i].pallet =
                           IF old.items[i].pallet \in PalletsOf(l)
                           THEN None ELSE old.items[i].pallet
    OBVIOUS
  <2>1. old.items[i] \in ItemRow
    BY <1>1, <1>2
  <2> QED BY <2>1 DEF ItemRow
<1>10. items \in ItemTables
  <2> HIDE DEF items
  <2> QED BY <1>1, <1>2, <1>9, ItemTable
<1>11. Rewritten(r, l) =
         [old EXCEPT !.items = items, !.missing = missing,
                     !.lineage = lineage, !.quantity = quantity,
                     !.actual = actual, !.variance = variance]
  BY DEF Rewritten
<1>12. missing \in SUBSET Boxes /\ lineage \in SUBSET Requests
  BY <1>1
<1> DEFINE row == [old EXCEPT !.items = items, !.missing = missing,
                              !.lineage = lineage, !.quantity = quantity,
                              !.actual = actual, !.variance = variance]
<1>13. /\ row \in RequestRow
       /\ row.items = items /\ row.missing = missing
       /\ row.lineage = lineage /\ row.quantity = quantity
       /\ row.actual = actual /\ row.variance = variance
       /\ row.kind = old.kind /\ row.status = old.status
  <2> HIDE DEF items, missing, lineage, quantity, actual, variance, old
  <2> QED BY <1>1, <1>6, <1>7, <1>8, <1>10, <1>12, RequestRowIs
<1>14. Rewritten(r, l) = row
  BY <1>11
<1> HIDE DEF row, items, quantity, actual, variance, old
<1> QED BY <1>6, <1>7, <1>8, <1>9, <1>13, <1>14 DEF row, old, LosesTo

(* A rewritten request keeps the lots and boxes of the items it keeps.     *)
LEMMA RewrittenItems ==
  ASSUME GraphInv, NEW l \in DOMAIN lot,
         NEW r \in DOMAIN request \ FullyLost(l)
  PROVE  /\ DOMAIN Rewritten(r, l).items = Items(r) \ LostItems(r, l)
         /\ \A i \in Items(r) \ LostItems(r, l) :
              /\ Rewritten(r, l).items[i].box = request[r].items[i].box
              /\ Rewritten(r, l).items[i].lot = request[r].items[i].lot
BY RewrittenRow DEF LosesTo

LEMMA ForcedPurgeKeeps ==
  ASSUME GraphInv, NEW l \in DOMAIN lot, NEW a, ForcePurge(l, a)
  PROVE  GraphInv'
<1>1. /\ FullyLost(l) \in SUBSET DOMAIN request
      /\ DropLot(l, FullyLost(l))
      /\ DOMAIN request' = DOMAIN request \ FullyLost(l)
      /\ \A r \in DOMAIN request' : request'[r] = Rewritten(r, l)
      /\ KeysReferenced'
  BY DEF ForcePurge, FullyLost, KeysReferenced
<1>2. /\ IsTable(lot, Lots, LotRow)' /\ IsTable(pallet, Pallets, PalletRow)'
      /\ IsTable(box, Boxes, BoxRow)' /\ IsTable(file, Files, FileRow)'
      /\ NamesUnique' /\ AbsorbedArchived' /\ NumbersUnique'
      /\ ReferencesUnique' /\ BoxesPlaced' /\ FilesPlaced' /\ RetiredApart'
  BY <1>1, DropLotKeeps
<1>3. ASSUME NEW r \in DOMAIN request'
      PROVE  /\ request'[r] \in RequestRow
             /\ DOMAIN request'[r].items = Items(r) \ LostItems(r, l)
             /\ \A i \in Items(r) \ LostItems(r, l) :
                  /\ request'[r].items[i].lot = request[r].items[i].lot
                  /\ request'[r].items[i].box = request[r].items[i].box
                  /\ request'[r].items[i].pallet =
                       IF request[r].items[i].pallet \in PalletsOf(l)
                       THEN None ELSE request[r].items[i].pallet
             /\ request'[r].kind = request[r].kind
             /\ request'[r].status = request[r].status
             /\ request'[r].missing =
                  request[r].missing \cap (Items(r) \ LostItems(r, l))
             /\ request'[r].lineage = request[r].lineage \ FullyLost(l)
             /\ request'[r].status = "staged" =>
                  request'[r].quantity = Cardinality(Items(r) \ LostItems(r, l))
             /\ request'[r].status = "completed" =>
                  /\ request'[r].actual =
                       Cardinality((Items(r) \ LostItems(r, l))
                                     \ request'[r].missing)
                  /\ request'[r].variance =
                       request'[r].actual - request'[r].quantity
  <2>1. r \in DOMAIN request \ FullyLost(l)
    BY <1>1
  <2>2. request'[r] = Rewritten(r, l)
    BY <1>1
  <2>3. LosesTo(l, request[r], Items(r) \ LostItems(r, l), request'[r])
    BY <2>1, <2>2, RewrittenRow
  <2> QED BY <2>3 DEF LosesTo
<1>4. IsTable(request, Requests, RequestRow)'
  BY <1>1, <1>3 DEF GraphInv, TablesTyped, IsTable
<1>5. ItemsPlaced'
  <2> SUFFICES ASSUME NEW r \in DOMAIN request', NEW i \in DOMAIN request'[r].items
               PROVE  LET item == request'[r].items[i] IN
                      /\ item.lot # None /\ item.lot \in DOMAIN lot'
                      /\ lot'[item.lot].into = None
                      /\ item.box # None =>
                           /\ item.box \in DOMAIN box'
                           /\ BoxNumber[item.box] = BoxNumber[i]
                      /\ item.pallet # None => item.pallet \in DOMAIN pallet'
    BY DEF ItemsPlaced, Unmerged, Items
  <2>1. r \in DOMAIN request /\ i \in Items(r) \ LostItems(r, l)
    BY <1>1, <1>3
  <2>2. i \in Items(r) /\ ~Own(request[r].items[i], l)
    BY <2>1 DEF LostItems
  <2>3. LET item == request[r].items[i] IN
        /\ item.lot # None /\ item.lot \in DOMAIN lot'
        /\ lot'[item.lot].into = None
        /\ item.box # None => /\ item.box \in DOMAIN box'
                              /\ BoxNumber[item.box] = BoxNumber[i]
        /\ item.pallet # None /\ item.pallet \notin PalletsOf(l) =>
             item.pallet \in DOMAIN pallet'
    BY <1>1, <2>1, <2>2, OtherItemsPlaced
  <2>4. /\ request'[r].items[i].lot = request[r].items[i].lot
        /\ request'[r].items[i].box = request[r].items[i].box
        /\ request'[r].items[i].pallet =
             IF request[r].items[i].pallet \in PalletsOf(l)
             THEN None ELSE request[r].items[i].pallet
    BY <1>3, <2>1
  <2> QED BY <2>3, <2>4
<1>6. LineageKept'
  BY <1>1, <1>3 DEF GraphInv, LineageKept
<1>7. Counted'
  <2> SUFFICES ASSUME NEW r \in DOMAIN request'
               PROVE  /\ request'[r].status = "open" => request'[r].kind = "return"
                      /\ request'[r].status = "staged" =>
                           request'[r].quantity = Cardinality(DOMAIN request'[r].items)
                      /\ request'[r].missing \subseteq DOMAIN request'[r].items
                      /\ request'[r].missing # {} =>
                           /\ request'[r].kind = "return"
                           /\ request'[r].status = "completed"
                      /\ request'[r].status = "completed" =>
                           /\ request'[r].actual =
                                Cardinality(DOMAIN request'[r].items
                                              \ request'[r].missing)
                           /\ request'[r].variance =
                                request'[r].actual - request'[r].quantity
    BY DEF Counted, Items
  <2>1. /\ r \in DOMAIN request
        /\ request[r].status = "open" => request[r].kind = "return"
        /\ request[r].missing # {} =>
             request[r].kind = "return" /\ request[r].status = "completed"
    BY <1>1 DEF GraphInv, Counted
  <2> QED BY <1>3, <2>1
<1> QED
  BY <1>1, <1>2, <1>4, <1>5, <1>6, <1>7 DEF GraphInv, TablesTyped

LEMMA CleanupStepKeeps ==
  ASSUME GraphInv, UNCHANGED tables, referenced' = referenced
  PROVE  GraphInv'
<1> USE DEF tables
<1>1. TablesTyped' /\ BoxesPlaced' /\ AbsorbedArchived' /\ FilesPlaced'
  BY DEF GraphInv, TablesTyped, BoxesPlaced, AbsorbedArchived, FilesPlaced,
         Unmerged
<1>2. ItemsPlaced' /\ LineageKept' /\ Counted'
  BY DEF GraphInv, ItemsPlaced, LineageKept, Counted, Items, Unmerged
<1>3. NumbersUnique' /\ ReferencesUnique' /\ NamesUnique'
  BY DEF GraphInv, NumbersUnique, ReferencesUnique, NamesUnique, Unmerged
<1>4. RetiredApart' /\ KeysReferenced'
  BY DEF GraphInv, RetiredApart, Live, KeysReferenced, KeysOf
<1> QED BY <1>1, <1>2, <1>3, <1>4 DEF GraphInv

(***************************************************************************)
(* Every step keeps the invariant                                          *)
(***************************************************************************)
LEMMA ReceiptsKeep ==
  ASSUME GraphInv, Receipts
  PROVE  GraphInv'
<1>1. ASSUME NEW r \in Requests \ DOMAIN request, NEW bs \in Groups,
             NEW kind \in {"receipt", "inbound"} \cap Kinds,
             NEW quantity \in 1..ReceiptSize, NEW into \in [bs -> Lots],
             NEW onto \in [bs -> Pallets \cup {None}],
             kind = "receipt" => quantity = Cardinality(bs),
             Receive(r, kind, bs, into, onto, quantity)
      PROVE  GraphInv'
  BY <1>1, ReceiveKeeps
<1>2. ASSUME NEW r \in Requests \ DOMAIN request, NEW bs \in Groups,
             NEW into \in [bs -> Lots],
             NEW onto \in [bs -> Pallets \cup {None}],
             Stage(r, bs, into, onto)
      PROVE  GraphInv'
  BY <1>2, StageKeeps
<1>3. ASSUME NEW r \in DOMAIN request, Finalize(r) \/ Cancel(r)
      PROVE  GraphInv'
  BY <1>3, FinalizeKeeps, CancelKeeps
<1> QED BY <1>1, <1>2, <1>3 DEF Receipts

LEMMA ReturnsKeep ==
  ASSUME GraphInv, Returns
  PROVE  GraphInv'
<1>1. ASSUME NEW r \in Requests \ DOMAIN request, NEW source \in DOMAIN request,
             NEW bs \in SUBSET DOMAIN box, Return(r, source, bs)
      PROVE  GraphInv'
  BY <1>1, ReturnKeeps
<1>2. ASSUME NEW r \in DOMAIN request, NEW missing \in SUBSET Items(r),
             HandOver(r, missing)
      PROVE  GraphInv'
  BY <1>2, HandOverKeeps
<1> QED BY <1>1, <1>2 DEF Returns

LEMMA HandlingKeeps ==
  ASSUME GraphInv, Handling
  PROVE  GraphInv'
<1>1. ASSUME NEW f, NEW active \in BOOLEAN, SetFile(f, active) PROVE GraphInv'
  BY <1>1, FileChangeKeeps
<1>2. ASSUME NEW p \in Pallets, NEW l, CreatePallet(p, l) PROVE GraphInv'
  BY <1>2, PalletChangeKeeps
<1>3. ASSUME NEW p \in DOMAIN pallet, NEW active \in BOOLEAN,
             SetPallet(p, active)
      PROVE  GraphInv'
  <2>1. p \in Pallets
    BY DEF GraphInv, TablesTyped, IsTable
  <2> QED BY <1>3, <2>1, PalletChangeKeeps
<1>4. ASSUME NEW b \in DOMAIN box, DeleteBox(b) PROVE GraphInv'
  BY <1>4, DeleteBoxKeeps
<1>5. ASSUME NEW b \in DOMAIN box, NEW p \in Pallets \cup {None},
             AssignPallet(b, p)
      PROVE  GraphInv'
  BY <1>5, AssignPalletKeeps
<1>6. ASSUME NEW b \in DOMAIN box, NEW l \in Lots, NEW p \in Pallets \cup {None},
             Reassign(b, l, p)
      PROVE  GraphInv'
  BY <1>6, ReassignKeeps
<1>7. ASSUME NEW b \in DOMAIN box, NEW f \in Files, AddFile(f, b)
      PROVE  GraphInv'
  BY <1>7, AddFileKeeps
<1>8. ASSUME NEW b \in DOMAIN box, NEW f \in DOMAIN file, MoveFile(f, b)
      PROVE  GraphInv'
  BY <1>8, FileChangeKeeps
<1> QED
  BY <1>1, <1>2, <1>3, <1>4, <1>5, <1>6, <1>7, <1>8 DEF Handling

LEMMA AdministrationKeeps ==
  ASSUME GraphInv, Administration
  PROVE  GraphInv'
<1>1. ASSUME NEW l \in Lots, CreateLot(l) PROVE GraphInv'
  BY <1>1, LotChangeKeeps
<1>2. ASSUME NEW l \in DOMAIN lot, NEW name \in NewNames, Rename(l, name)
      PROVE  GraphInv'
  <2>1. l \in Lots
    BY DEF GraphInv, TablesTyped, IsTable
  <2> QED BY <1>2, <2>1, LotChangeKeeps
<1>3. ASSUME NEW s \in DOMAIN lot, NEW t \in DOMAIN lot,
             NEW overwrite \in BOOLEAN, Merge(s, t, overwrite)
      PROVE  GraphInv'
  BY <1>3, MergeKeeps
<1>4. ASSUME NEW l \in DOMAIN lot, NEW a \in Ledgers,
             Purge(l, a) \/ ForcePurge(l, a)
      PROVE  GraphInv'
  BY <1>4, PurgedLotKeeps, ForcedPurgeKeeps
<1> QED BY <1>1, <1>2, <1>3, <1>4 DEF Administration

LEMMA NextKeeps ==
  ASSUME GraphInv, [Next]_vars
  PROVE  GraphInv'
<1>1. CASE CleanupStep /\ UNCHANGED tables
  <2>1. referenced' = referenced
    BY <1>1 DEF CleanupStep, StartCleanup, TryObject, FinishCleanup,
                CrashCleanup
  <2> QED BY <1>1, <2>1, CleanupStepKeeps
<1>2. CASE UNCHANGED vars
  BY <1>2, CleanupStepKeeps DEF vars, cleanupVars
<1> QED
  BY <1>1, <1>2, ReceiptsKeep, ReturnsKeep, HandlingKeeps, AdministrationKeeps
     DEF Next

(* The inductive invariant holds for every number of lots, boxes, files    *)
(* and requests, through merges and purges of any of them.                 *)
THEOREM GraphInvariant == Spec => []GraphInv
<1>1. Init => GraphInv
  BY InitGraph
<1>2. GraphInv /\ [Next]_vars => GraphInv'
  BY NextKeeps
<1> QED BY <1>1, <1>2, PTL DEF Spec

(* The tables stay closed: no box, file or item names a row that is gone,  *)
(* merged or absorbed.                                                     *)
THEOREM TablesClosed == Spec => []GraphClosed
<1>1. GraphInv => GraphClosed
  BY DEF GraphInv, BoxesPlaced, AbsorbedArchived, FilesPlaced, ItemsPlaced,
         LineageKept, GraphClosed, PalletsOf, Items
<1> QED BY <1>1, GraphInvariant, PTL

(* Box numbers, file references and names stay unique, after merges too.   *)
THEOREM UniqueThroughMerges == Spec => []IdentitiesUnique
<1>1. GraphInv => IdentitiesUnique
  BY DEF GraphInv, NumbersUnique, ReferencesUnique, NamesUnique,
         IdentitiesUnique
<1> QED BY <1>1, GraphInvariant, PTL

(* No box lies on an archived pallet.                                      *)
THEOREM PalletsInUse == Spec => []ActiveBoxOnActivePallet
<1>1. GraphInv => ActiveBoxOnActivePallet
  BY DEF GraphInv, BoxesPlaced, ActiveBoxOnActivePallet
<1> QED BY <1>1, GraphInvariant, PTL

(* An item never comes to name a box with another number.                  *)
THEOREM NumbersTraceable == Spec => []ProvenanceKept
<1>1. GraphInv => ProvenanceKept
  BY DEF GraphInv, ItemsPlaced, ProvenanceKept
<1> QED BY <1>1, GraphInvariant, PTL

(* What completed requests count agrees with the items they have left.     *)
THEOREM RequestsCount == Spec => []CountsAgree
<1>1. GraphInv => CountsAgree
  BY DEF GraphInv, Counted, CountsAgree
<1> QED BY <1>1, GraphInvariant, PTL

(***************************************************************************)
(* The object store: lots do what PurgeCleanup allows                      *)
(***************************************************************************)
LEMMA KeyNamed ==
  ASSUME NEW rs, NEW k
  PROVE  k \in KeysOf(rs) <=>
           \E r \in rs : \/ k \in KeyOf[r]
                         \/ \E i \in request[r].missing : k \in PhotoOf[r][i]
BY DEF KeysOf

(* No two rows name a key.                                                 *)
LEMMA KeysApart ==
  ASSUME TablesTyped, NEW k, NEW r \in DOMAIN request, NEW q \in DOMAIN request
  PROVE  /\ k \in KeyOf[r] => k \in Keys
         /\ k \in KeyOf[r] /\ k \in KeyOf[q] => r = q
         /\ \A i \in request[r].missing :
              /\ i \in Boxes
              /\ k \in PhotoOf[r][i] => k \in Keys
              /\ ~(k \in PhotoOf[r][i] /\ k \in KeyOf[q])
              /\ \A j \in request[q].missing :
                   k \in PhotoOf[r][i] /\ k \in PhotoOf[q][j] => r = q /\ i = j
<1>1. /\ r \in Requests /\ q \in Requests
      /\ request[r].missing \subseteq Boxes /\ request[q].missing \subseteq Boxes
  BY RequestTyped
<1>2. \A i, j \in Boxes : <<r, i>> # <<q, j>> =>
        PhotoOf[r][i] \cap PhotoOf[q][j] = {}
  BY <1>1, KeysAssumption
<1>3. \A i, j \in Boxes : <<r, i>> = <<q, j>> => r = q /\ i = j
  OBVIOUS
<1>4. KeyOf[r] \subseteq Keys /\ \A i \in Boxes : PhotoOf[r][i] \subseteq Keys
  BY <1>1, KeysAssumption
<1>5. /\ r # q => KeyOf[r] \cap KeyOf[q] = {}
      /\ \A i \in Boxes : KeyOf[q] \cap PhotoOf[r][i] = {}
  BY <1>1, KeysAssumption
<1> QED BY <1>1, <1>2, <1>3, <1>4, <1>5

(* An ordinary purge gives up the keys of the requests it deletes.         *)
LEMMA PurgeIsPurgeRows ==
  ASSUME GraphInv, NEW l \in DOMAIN lot, NEW a, Purge(l, a)
  PROVE  PurgeRows(a, KeysOf(Linked(l))) /\ KeysOf(Linked(l)) \in SUBSET Keys
<1>1. /\ TablesTyped /\ referenced = KeysOf(DOMAIN request)
      /\ Linked(l) \subseteq DOMAIN request
      /\ DOMAIN request' = DOMAIN request \ Linked(l)
      /\ \A r \in DOMAIN request' : request'[r] = request[r]
  BY DEF GraphInv, KeysReferenced, Linked, Purge, Restrict
<1>2. referenced' =
        UNION {KeyOf[r] \cup UNION {PhotoOf[r][i] : i \in request'[r].missing} :
                 r \in DOMAIN request'}
  BY DEF Purge, KeysOf
<1>3. ASSUME NEW k
      PROVE  k \in referenced' <=>
               k \in KeysOf(DOMAIN request) /\ k \notin KeysOf(Linked(l))
  <2>1. k \in referenced' <=>
          \E r \in DOMAIN request' :
            \/ k \in KeyOf[r]
            \/ \E i \in request[r].missing : k \in PhotoOf[r][i]
    BY <1>1, <1>2
  <2> QED BY <1>1, <2>1, KeyNamed, KeysApart
<1>4. KeysOf(Linked(l)) \subseteq referenced
  BY <1>1, KeyNamed
<1>5. KeysOf(Linked(l)) \subseteq Keys
  BY <1>1, KeyNamed, KeysApart
<1>6. referenced' = referenced \ KeysOf(Linked(l))
  BY <1>1, <1>3
<1> QED BY <1>4, <1>5, <1>6 DEF PurgeRows, Purge

(* A forced one those of the requests it deletes and of the missing items  *)
(* it takes from the others.                                               *)
LEMMA ForcedPurgeIsPurgeRows ==
  ASSUME GraphInv, NEW l \in DOMAIN lot, NEW a, ForcePurge(l, a)
  PROVE  PurgeRows(a, FreedKeys(l)) /\ FreedKeys(l) \in SUBSET Keys
<1>1. /\ TablesTyped /\ referenced = KeysOf(DOMAIN request)
      /\ FullyLost(l) \subseteq DOMAIN request
      /\ DOMAIN request' = DOMAIN request \ FullyLost(l)
      /\ \A r \in DOMAIN request' : request'[r] = Rewritten(r, l)
      /\ \A r \in DOMAIN request : request[r].missing \subseteq Items(r)
  BY DEF GraphInv, KeysReferenced, FullyLost, ForcePurge, Counted
<1>2. \A r \in DOMAIN request' :
        request'[r].missing = request[r].missing \ LostItems(r, l)
  <2> SUFFICES ASSUME NEW r \in DOMAIN request'
               PROVE  request'[r].missing = request[r].missing \ LostItems(r, l)
    OBVIOUS
  <2>1. r \in DOMAIN request \ FullyLost(l) /\ request'[r] = Rewritten(r, l)
    BY <1>1
  <2>2. Rewritten(r, l).missing =
          request[r].missing \cap (Items(r) \ LostItems(r, l))
    BY <2>1, RewrittenRow DEF LosesTo
  <2> QED BY <1>1, <2>1, <2>2
<1>3. referenced' =
        UNION {KeyOf[r] \cup UNION {PhotoOf[r][i] : i \in request'[r].missing} :
                 r \in DOMAIN request'}
  BY DEF ForcePurge, KeysOf
<1>4. ASSUME NEW k
      PROVE  k \in FreedKeys(l) <=>
               \E r \in DOMAIN request :
                 \/ /\ r \in FullyLost(l)
                    /\ \/ k \in KeyOf[r]
                       \/ \E i \in request[r].missing : k \in PhotoOf[r][i]
                 \/ \E i \in LostItems(r, l) \cap request[r].missing :
                      k \in PhotoOf[r][i]
  BY <1>1, KeyNamed DEF FreedKeys
<1>5. ASSUME NEW k
      PROVE  k \in referenced' <=>
               k \in KeysOf(DOMAIN request) /\ k \notin FreedKeys(l)
  <2>1. k \in referenced' <=>
          \E r \in DOMAIN request \ FullyLost(l) :
            \/ k \in KeyOf[r]
            \/ \E i \in request[r].missing \ LostItems(r, l) : k \in PhotoOf[r][i]
    BY <1>1, <1>2, <1>3
  <2>2. k \in KeysOf(DOMAIN request) <=>
          \E r \in DOMAIN request :
            \/ k \in KeyOf[r]
            \/ \E i \in request[r].missing : k \in PhotoOf[r][i]
    BY KeyNamed
  <2>3. ASSUME k \in referenced'
        PROVE  k \in KeysOf(DOMAIN request) /\ k \notin FreedKeys(l)
    <3>1. k \in KeysOf(DOMAIN request)
      BY <2>1, <2>2, <2>3
    <3>2. k \notin FreedKeys(l)
      BY <1>1, <1>4, <2>1, <2>3, KeysApart
    <3> QED BY <3>1, <3>2
  <2>4. ASSUME k \in KeysOf(DOMAIN request), k \notin FreedKeys(l)
        PROVE  k \in referenced'
    BY <1>1, <1>4, <2>1, <2>2, <2>4
  <2> QED BY <2>3, <2>4
<1>6. FreedKeys(l) \subseteq referenced
  BY <1>1, <1>4, KeyNamed
<1>7. FreedKeys(l) \subseteq Keys
  BY <1>1, <1>4, KeysApart
<1>8. referenced' = referenced \ FreedKeys(l)
  BY <1>1, <1>5
<1> QED BY <1>6, <1>7, <1>8 DEF PurgeRows, ForcePurge

LEMMA StoreStep ==
  ASSUME GraphInv, [Next]_vars
  PROVE  [CleanupNext]_cleanupVars
<1> DEFINE Uploads == \E keys \in SUBSET Keys :
                         Upload(keys) /\ UNCHANGED <<ledger, worker>>
<1>1. Uploads => CleanupNext
  BY DEF CleanupNext
<1>2. ASSUME NEW r \in Requests PROVE KeyOf[r] \in SUBSET Keys
  BY KeysAssumption
<1>3. ASSUME Receipts PROVE [CleanupNext]_cleanupVars
  <2>1. ASSUME NEW r \in Requests \ DOMAIN request, NEW kind, NEW bs, NEW into,
               NEW onto, NEW quantity,
               Receive(r, kind, bs, into, onto, quantity) \/ Stage(r, bs, into, onto)
        PROVE  Uploads
    BY <1>2, <2>1 DEF Receive, Stage
  <2>2. ASSUME NEW r, Finalize(r) \/ Cancel(r) PROVE UNCHANGED cleanupVars
    BY <2>2 DEF Finalize, Cancel
  <2> HIDE DEF Uploads
  <2> QED BY <1>1, <1>3, <2>1, <2>2 DEF Receipts
<1>4. ASSUME Returns PROVE [CleanupNext]_cleanupVars
  <2>1. ASSUME NEW r \in Requests \ DOMAIN request, NEW source, NEW bs,
               Return(r, source, bs)
        PROVE  Uploads
    BY <1>2, <2>1 DEF Return
  <2>2. ASSUME NEW r \in DOMAIN request, NEW missing \in SUBSET Items(r),
               HandOver(r, missing)
        PROVE  Uploads
    <3>1. r \in Requests /\ missing \subseteq Boxes
      BY RequestTyped DEF GraphInv
    <3>2. UNION {PhotoOf[r][i] : i \in missing} \in SUBSET Keys
      BY <3>1, KeysAssumption
    <3>3. /\ Upload(UNION {PhotoOf[r][i] : i \in missing})
          /\ UNCHANGED <<ledger, worker>>
      BY <2>2 DEF HandOver
    <3> QED BY <3>2, <3>3
  <2> HIDE DEF Uploads
  <2> QED BY <1>1, <1>4, <2>1, <2>2 DEF Returns
<1>5. ASSUME Handling PROVE UNCHANGED cleanupVars
  BY <1>5 DEF Handling, DeleteBox, AssignPallet, Reassign, AddFile, MoveFile,
              SetFile, CreatePallet, SetPallet
<1>6. ASSUME Administration PROVE [CleanupNext]_cleanupVars
  <2>1. ASSUME NEW l \in DOMAIN lot, NEW a \in Ledgers,
               Purge(l, a) \/ ForcePurge(l, a)
        PROVE  CleanupNext
    <3>1. CASE Purge(l, a)
      BY <3>1, PurgeIsPurgeRows DEF CleanupNext
    <3>2. CASE ForcePurge(l, a)
      BY <3>2, ForcedPurgeIsPurgeRows DEF CleanupNext
    <3> QED BY <2>1, <3>1, <3>2
  <2>2. ASSUME NEW l, NEW name, NEW s, NEW t, NEW overwrite,
               CreateLot(l) \/ Rename(l, name) \/ Merge(s, t, overwrite)
        PROVE  UNCHANGED cleanupVars
    BY <2>2 DEF CreateLot, Rename, Merge
  <2> QED BY <1>6, <2>1, <2>2 DEF Administration
<1>7. CleanupStep => CleanupNext
  BY DEF CleanupNext
<1>8. UNCHANGED vars => UNCHANGED cleanupVars
  BY DEF vars
<1> QED BY <1>3, <1>4, <1>5, <1>6, <1>7, <1>8 DEF Next

(* Receipts, returns and purges do to documents, photos and ledgers what   *)
(* the component of the object store allows: a purge gives up the keys of  *)
(* the rows it deletes, and no other.                                      *)
THEOREM StoreRefined == Spec => CleanupRefinement
<1>1. Init => CleanupInit
  BY DEF Init
<1>2. GraphInv /\ [Next]_vars => [CleanupNext]_cleanupVars
  BY StoreStep
<1> QED BY <1>1, <1>2, GraphInvariant, PTL DEF Spec, CleanupSpec, CleanupRefinement

(* So what PurgeCleanup promises holds of the lots that use it.            *)
THEOREM PurgedObjectsGone == Spec => []CompletedMeansGone /\ []StoredIsAccounted
BY StoreRefined, CompletedGone, StoredAccounted, PTL DEF CleanupRefinement

(* Every table holds rows of its type, and counts stay natural numbers     *)
(* however often forced purges take items away.                            *)
THEOREM TypeCorrect == Spec => []TypeOK
<1>1. GraphInv /\ CleanupInv => TypeOK
  BY DEF GraphInv, TablesTyped, RetiredApart, CleanupInv, TypeOK
<1> QED BY <1>1, GraphInvariant, StoreRefined, CleanupInvariant, PTL
        DEF CleanupRefinement

(***************************************************************************)
(* What steps do to rows: only deletions of boxes, merges and purges take  *)
(* any away, and a merged lot or an absorbed pallet remains one.           *)
(***************************************************************************)
LotsRemain ==
    \A l \in DOMAIN lot :
        l \in DOMAIN lot' /\ (lot[l].into # None => lot'[l].into # None)

PalletsRemain ==
    \A p \in DOMAIN pallet :
        /\ p \in DOMAIN pallet'
        /\ pallet[p].absorbed # None => pallet'[p].absorbed # None

RowsRemain ==
    /\ retired' = retired
    /\ LotsRemain /\ PalletsRemain
    /\ DOMAIN box \subseteq DOMAIN box' /\ DOMAIN file \subseteq DOMAIN file'

LEMMA NamingRemains ==
  ASSUME NEW ls, NEW bs, NEW into, NEW onto
  PROVE  /\ lot' = WithLots(ls) => LotsRemain
         /\ \A p \in DOMAIN pallet :
              /\ p \in DOMAIN WithPallets(bs, into, onto)
              /\ WithPallets(bs, into, onto)[p] = pallet[p]
BY DEF WithLots, WithPallets, LotsRemain, Over

LEMMA IntakeRemains ==
  ASSUME GraphInv, NEW bs, NEW into, NEW onto, Intake(bs, into, onto)
  PROVE  LotsRemain /\ PalletsRemain /\ DOMAIN box \subseteq DOMAIN box'
<1>1. LotsRemain
  BY NamingRemains DEF Intake
<1> DEFINE named == WithPallets(bs, into, onto)
<1>2. /\ DOMAIN pallet' = DOMAIN named
      /\ \A p \in DOMAIN named :
           \/ pallet'[p] = named[p]
           \/ pallet'[p] = [named[p] EXCEPT !.active = FALSE]
      /\ DOMAIN box \subseteq DOMAIN box'
  BY DEF Intake, Over
<1>3. PalletsRemain
  <2> SUFFICES ASSUME NEW p \in DOMAIN pallet
               PROVE  /\ p \in DOMAIN pallet'
                      /\ pallet[p].absorbed # None => pallet'[p].absorbed # None
    BY DEF PalletsRemain
  <2>1. p \in DOMAIN named /\ named[p] = pallet[p]
    BY NamingRemains
  <2>2. pallet[p] \in PalletRow
    BY DEF GraphInv, TablesTyped, IsTable
  <2> HIDE DEF named
  <2> QED BY <1>2, <2>1, <2>2 DEF PalletRow
<1> QED BY <1>1, <1>2, <1>3

LEMMA EmptiedRemain ==
  ASSUME GraphInv, NEW ps, ArchiveEmptied(ps)
  PROVE  PalletsRemain
<1> SUFFICES ASSUME NEW p \in DOMAIN pallet
             PROVE  /\ p \in DOMAIN pallet'
                    /\ pallet[p].absorbed # None => pallet'[p].absorbed # None
  BY DEF PalletsRemain
<1>1. pallet[p] \in PalletRow
  BY DEF GraphInv, TablesTyped, IsTable
<1>2. /\ p \in DOMAIN pallet'
      /\ \/ pallet'[p] = pallet[p]
         \/ pallet'[p] = [pallet[p] EXCEPT !.active = FALSE]
  BY DEF ArchiveEmptied
<1> QED BY <1>1, <1>2 DEF PalletRow

LEMMA UnchangedRemain ==
  /\ UNCHANGED lot => LotsRemain
  /\ UNCHANGED pallet => PalletsRemain
BY DEF LotsRemain, PalletsRemain

(* Deleting a box no request names and no file lies in.                    *)
BoxDeleted(b) ==
    /\ DOMAIN box' = DOMAIN box \ {b} /\ Naming(b) = {}
    /\ UNCHANGED <<lot, pallet, file>> /\ retired' = retired \cup {b}

LEMMA HandlingRemains ==
  ASSUME GraphInv, Handling
  PROVE  RowsRemain \/ \E b \in DOMAIN box : BoxDeleted(b)
<1>1. ASSUME NEW b \in DOMAIN box, DeleteBox(b)
      PROVE  RowsRemain \/ BoxDeleted(b)
  <2>1. UNCHANGED <<lot, pallet, file>>
    BY <1>1 DEF DeleteBox
  <2>2. CASE Naming(b) # {} \/ box[b].pallet # None \/ FilesOf({b}) # {}
    BY <1>1, <2>1, <2>2, UnchangedRemain DEF DeleteBox, RowsRemain
  <2>3. CASE ~(Naming(b) # {} \/ box[b].pallet # None \/ FilesOf({b}) # {})
    BY <1>1, <2>1, <2>3 DEF DeleteBox, BoxDeleted, Retire, Restrict
  <2> QED BY <2>2, <2>3
<1>2. ASSUME NEW b, NEW p, AssignPallet(b, p) PROVE RowsRemain
  BY <1>2, EmptiedRemain, UnchangedRemain DEF AssignPallet, RowsRemain
<1>3. ASSUME NEW b, NEW l, NEW p, Reassign(b, l, p) PROVE RowsRemain
  <2>1. LotsRemain
    <3> SUFFICES ASSUME NEW k \in DOMAIN lot
                 PROVE  /\ k \in DOMAIN lot'
                        /\ lot[k].into # None => lot'[k].into # None
      BY DEF LotsRemain
    <3>1. lot[k] \in LotRow
      BY DEF GraphInv, TablesTyped, IsTable
    <3> QED BY <1>3, <3>1 DEF Reassign, LotRow
  <2>2. /\ DOMAIN box' = DOMAIN box /\ DOMAIN file' = DOMAIN file
        /\ retired' = retired
    BY <1>3 DEF Reassign
  <2>3. PalletsRemain
    BY <1>3, EmptiedRemain DEF Reassign
  <2> QED BY <2>1, <2>2, <2>3 DEF RowsRemain
<1>4. ASSUME NEW f, NEW b, AddFile(f, b) \/ MoveFile(f, b) PROVE RowsRemain
  <2>1. /\ UNCHANGED <<lot, pallet, box>> /\ retired' = retired
        /\ DOMAIN file \subseteq DOMAIN file'
    BY <1>4 DEF AddFile, MoveFile, WithRow, Over
  <2> QED BY <2>1, UnchangedRemain DEF RowsRemain
<1>5. ASSUME NEW f, NEW active, SetFile(f, active) PROVE RowsRemain
  BY <1>5, UnchangedRemain DEF SetFile, RowsRemain
<1>6. ASSUME NEW p, NEW l, CreatePallet(p, l) PROVE RowsRemain
  <2>1. \A q \in DOMAIN pallet : q \in DOMAIN pallet' /\ pallet'[q] = pallet[q]
    BY <1>6 DEF CreatePallet, WithRow, Over
  <2>2. UNCHANGED <<lot, box, file>> /\ retired' = retired
    BY <1>6 DEF CreatePallet
  <2> QED BY <2>1, <2>2, UnchangedRemain DEF RowsRemain, PalletsRemain
<1>7. ASSUME NEW p, NEW active, SetPallet(p, active) PROVE RowsRemain
  <2>1. PalletsRemain
    <3> SUFFICES ASSUME NEW q \in DOMAIN pallet
                 PROVE  /\ q \in DOMAIN pallet'
                        /\ pallet[q].absorbed # None =>
                             pallet'[q].absorbed # None
      BY DEF PalletsRemain
    <3>1. pallet[q] \in PalletRow
      BY DEF GraphInv, TablesTyped, IsTable
    <3> QED BY <1>7, <3>1 DEF SetPallet, PalletRow
  <2> QED BY <1>7, <2>1, UnchangedRemain DEF SetPallet, RowsRemain
<1> QED
  BY <1>1, <1>2, <1>3, <1>4, <1>5, <1>6, <1>7 DEF Handling

(* Every step that is no merge, purge or deletion of a box.                *)
LEMMA StepCases ==
  ASSUME GraphInv, [Next]_vars
  PROVE  \/ RowsRemain
         \/ \E b \in DOMAIN box : BoxDeleted(b)
         \/ \E s, t \in DOMAIN lot, overwrite \in BOOLEAN : Merge(s, t, overwrite)
         \/ \E l \in DOMAIN lot, a \in Ledgers : Purge(l, a) \/ ForcePurge(l, a)
<1>1. ASSUME UNCHANGED tables PROVE RowsRemain
  BY <1>1, UnchangedRemain DEF tables, RowsRemain
<1>2. ASSUME Receipts PROVE RowsRemain
  <2>1. ASSUME NEW r, NEW kind, NEW bs, NEW into, NEW onto, NEW quantity,
               Receive(r, kind, bs, into, onto, quantity)
        PROVE  RowsRemain
    BY <2>1, IntakeRemains DEF Receive, RowsRemain
  <2>2. ASSUME NEW r, NEW bs, NEW into, NEW onto, Stage(r, bs, into, onto)
        PROVE  RowsRemain
    BY <2>2, NamingRemains DEF Stage, RowsRemain, PalletsRemain
  <2>3. ASSUME NEW r, Finalize(r) PROVE RowsRemain
    BY <2>3, IntakeRemains DEF Finalize, RowsRemain
  <2>4. ASSUME NEW r, Cancel(r) PROVE RowsRemain
    BY <2>4, UnchangedRemain DEF Cancel, RowsRemain
  <2> QED BY <1>2, <2>1, <2>2, <2>3, <2>4 DEF Receipts
<1>3. ASSUME Returns PROVE RowsRemain
  <2>1. ASSUME NEW r, NEW source, NEW bs, Return(r, source, bs)
        PROVE  RowsRemain
    BY <2>1, UnchangedRemain DEF Return, RowsRemain
  <2>2. ASSUME NEW r, NEW missing, HandOver(r, missing) PROVE RowsRemain
    BY <2>2, UnchangedRemain DEF HandOver, RowsRemain
  <2> QED BY <1>3, <2>1, <2>2 DEF Returns
<1>4. ASSUME NEW l \in Lots, CreateLot(l) PROVE RowsRemain
  BY <1>4, NamingRemains, UnchangedRemain DEF CreateLot, RowsRemain
<1>5. ASSUME NEW l, NEW name, Rename(l, name) PROVE RowsRemain
  <2>1. LotsRemain
    <3> SUFFICES ASSUME NEW k \in DOMAIN lot
                 PROVE  /\ k \in DOMAIN lot'
                        /\ lot[k].into # None => lot'[k].into # None
      BY DEF LotsRemain
    <3>1. lot[k] \in LotRow
      BY DEF GraphInv, TablesTyped, IsTable
    <3> QED BY <1>5, <3>1 DEF Rename, LotRow
  <2> QED BY <1>5, <2>1, UnchangedRemain DEF Rename, RowsRemain
<1>6. ASSUME Administration
      PROVE  \/ RowsRemain
             \/ \E s, t \in DOMAIN lot, overwrite \in BOOLEAN :
                   Merge(s, t, overwrite)
             \/ \E l \in DOMAIN lot, a \in Ledgers :
                   Purge(l, a) \/ ForcePurge(l, a)
  BY <1>4, <1>5, <1>6 DEF Administration
<1>7. UNCHANGED vars => UNCHANGED tables
  BY DEF vars
<1> QED BY <1>1, <1>2, <1>3, <1>6, <1>7, HandlingRemains DEF Next

LEMMA MergeRows ==
  ASSUME GraphInv, NEW s, NEW t, NEW overwrite, Merge(s, t, overwrite)
  PROVE  /\ LotsRemain /\ PalletsRemain /\ DOMAIN lot' = DOMAIN lot
         /\ retired \subseteq retired' /\ Live \subseteq Live' \cup retired'
         /\ \A b \in DOMAIN box \ DOMAIN box' : ~Active(b)
<1> DEFINE pairs == BoxPairs(s, t)
           losers == {Loser(pair) : pair \in pairs}
           combined == Combined(s, t)
           lost == LostFiles(s, t, losers)
<1>1. /\ Unmerged(s) /\ Unmerged(t) /\ s # t
      /\ lot[s] \in LotRow /\ lot[t] \in LotRow
      /\ lot' = MergedLots(s, t)
  BY DEF Merge, GraphInv, TablesTyped, IsTable, Unmerged
<1>2. LotsRemain /\ DOMAIN lot' = DOMAIN lot
  BY <1>1 DEF MergedLots, Unmerged, LotsRemain, LotRow
<1>3. PalletsRemain /\ DOMAIN pallet' = DOMAIN pallet
  <2> SUFFICES ASSUME NEW p \in DOMAIN pallet, pallet[p].absorbed # None
               PROVE  pallet'[p].absorbed # None
    BY DEF PalletsRemain, Merge
  <2>1. pallet'[p] = MergedPallet(p, s, t, combined)
    BY DEF Merge
  <2>2. pallet[p] \in PalletRow
    BY DEF GraphInv, TablesTyped, IsTable
  <2>3. FinalPallet(p, combined) # p => FinalPallet(p, combined) \in PalletsOf(t)
    BY FinalPalletIs
  <2>4. PalletsOf(t) \subseteq Pallets /\ None \notin Pallets
    BY IdentitiesAssumption DEF GraphInv, TablesTyped, IsTable, PalletsOf
  <2> HIDE DEF combined
  <2> QED BY <2>1, <2>2, <2>3, <2>4 DEF MergedPallet, PalletRow
<1>4. /\ DOMAIN box' = DOMAIN box \ losers /\ DOMAIN file' = DOMAIN file \ lost
      /\ retired' = retired \cup (losers \cup lost)
      /\ \A pair \in pairs : ~Hard(pair)
  BY DEF Merge, Retire, MergeAllowed
<1>5. \A b \in DOMAIN box \ DOMAIN box' : ~Active(b)
  <2>1. \A pair \in pairs : ~Active(Loser(pair))
    BY <1>4 DEF Hard, Loser
  <2> QED BY <1>4, <2>1
<1>6. Live \subseteq Live' \cup retired'
  BY <1>2, <1>3, <1>4 DEF Live
<1> QED BY <1>2, <1>3, <1>4, <1>5, <1>6

LEMMA DropLotRows ==
  ASSUME NEW l \in DOMAIN lot, NEW rs, DropLot(l, rs)
  PROVE  /\ DOMAIN lot' = DOMAIN lot \ {l}
         /\ \A k \in DOMAIN lot' : lot'[k] = lot[k]
         /\ DOMAIN pallet' = DOMAIN pallet \ PalletsOf(l)
         /\ \A p \in DOMAIN pallet' : pallet'[p] = pallet[p]
         /\ DOMAIN box' = DOMAIN box \ BoxesOf(l)
         /\ \A b \in DOMAIN box' : box'[b] = box[b]
         /\ DOMAIN file' = DOMAIN file \ FilesOf(BoxesOf(l))
         /\ \A f \in DOMAIN file' : file'[f] = file[f]
         /\ retired' = retired \cup BarcodesGone(l, rs)
BY DEF DropLot, Restrict, Retire

(* The labels of rows that are gone, merged or absorbed.                   *)
LabelsRemain ==
    /\ retired \subseteq retired' /\ Live \subseteq Live' \cup retired'
    /\ \A l \in DOMAIN lot : lot[l].into # None =>
         l \in retired' \/ (l \in DOMAIN lot' /\ lot'[l].into # None)
    /\ \A p \in DOMAIN pallet : pallet[p].absorbed # None =>
         \/ p \in retired'
         \/ p \in DOMAIN pallet' /\ pallet'[p].absorbed # None

LEMMA StepLabels ==
  ASSUME GraphInv, [Next]_vars
  PROVE  LabelsRemain
<1>1. CASE RowsRemain
  BY <1>1 DEF RowsRemain, LotsRemain, PalletsRemain, LabelsRemain, Live
<1>2. ASSUME NEW b \in DOMAIN box, BoxDeleted(b) PROVE LabelsRemain
  BY <1>2 DEF BoxDeleted, LabelsRemain, Live
<1>3. ASSUME NEW s, NEW t, NEW overwrite, Merge(s, t, overwrite)
      PROVE  LabelsRemain
  BY <1>3, MergeRows DEF LotsRemain, PalletsRemain, LabelsRemain
<1>4. ASSUME NEW l \in DOMAIN lot, NEW rs, DropLot(l, rs) PROVE LabelsRemain
  <2>1. \A p \in DOMAIN pallet : p \in DOMAIN pallet' \/ p \in retired'
    BY <1>4, DropLotRows DEF BarcodesGone
  <2>2. \A k \in DOMAIN lot : k \in DOMAIN lot' \/ k \in retired'
    BY <1>4, DropLotRows DEF BarcodesGone
  <2>3. /\ \A b \in DOMAIN box : b \in DOMAIN box' \/ b \in retired'
        /\ \A f \in DOMAIN file : f \in DOMAIN file' \/ f \in retired'
    BY <1>4, DropLotRows DEF BarcodesGone
  <2>4. retired \subseteq retired'
    BY <1>4, DropLotRows
  <2> QED BY <1>4, <2>1, <2>2, <2>3, <2>4, DropLotRows DEF LabelsRemain, Live
<1>5. ASSUME NEW l \in DOMAIN lot, NEW a, Purge(l, a) \/ ForcePurge(l, a)
      PROVE  LabelsRemain
  BY <1>4, <1>5 DEF Purge, ForcePurge
<1> QED BY <1>1, <1>2, <1>3, <1>5, StepCases

(* What a label says; the identities of the tables do not overlap.         *)
LabelsRead ==
    \A x :
        /\ x \in retired => Scanned(x) = "retired"
        /\ x \in DOMAIN lot => Scanned(x) = ScannedLot(x)
        /\ x \in DOMAIN pallet => Scanned(x) = ScannedPallet(x)
        /\ x \in DOMAIN box => Scanned(x) = ScannedBox(x)
        /\ x \in DOMAIN file => Scanned(x) = ScannedFile(x)

LEMMA LabelsReadable == GraphInv => LabelsRead
<1> SUFFICES ASSUME GraphInv, NEW x
             PROVE  /\ x \in retired => Scanned(x) = "retired"
                    /\ x \in DOMAIN lot => Scanned(x) = ScannedLot(x)
                    /\ x \in DOMAIN pallet => Scanned(x) = ScannedPallet(x)
                    /\ x \in DOMAIN box => Scanned(x) = ScannedBox(x)
                    /\ x \in DOMAIN file => Scanned(x) = ScannedFile(x)
  BY DEF LabelsRead
<1>1. /\ x \in retired =>
           x \notin DOMAIN lot \cup DOMAIN pallet \cup DOMAIN box \cup DOMAIN file
      /\ x \in DOMAIN lot =>
           x \notin retired \cup DOMAIN pallet \cup DOMAIN box \cup DOMAIN file
      /\ x \in DOMAIN pallet =>
           x \notin retired \cup DOMAIN lot \cup DOMAIN box \cup DOMAIN file
      /\ x \in DOMAIN box =>
           x \notin retired \cup DOMAIN lot \cup DOMAIN pallet \cup DOMAIN file
      /\ x \in DOMAIN file =>
           x \notin retired \cup DOMAIN lot \cup DOMAIN pallet \cup DOMAIN box
  BY IdentitiesAssumption
     DEF GraphInv, TablesTyped, IsTable, RetiredApart, Live
<1> QED BY <1>1 DEF Scanned

(* No barcode is ever lost or used again, and a label that says retired,   *)
(* merged or absorbed never says active again.                             *)
THEOREM LabelsRetired == Spec => BarcodesRetired
<1> DEFINE Labels ==
             /\ Live \subseteq Live' \cup retired'
             /\ Live' \cap retired' = {}
             /\ \A x \in Live \cup retired :
                  Scanned(x) \in {"retired", "merged", "absorbed"}
                    => Scanned(x)' \in {Scanned(x), "retired"}
<1>1. GraphInv /\ GraphInv' /\ [Next]_vars => Labels
  <2> SUFFICES ASSUME GraphInv, GraphInv', [Next]_vars PROVE Labels
    OBVIOUS
  <2>1. LabelsRemain
    BY StepLabels
  <2>2. Live' \cap retired' = {}
    BY DEF GraphInv, RetiredApart
  <2>3. LabelsRead /\ LabelsRead'
    BY LabelsReadable, PTL
  <2>4. ASSUME NEW x \in Live \cup retired,
               Scanned(x) \in {"retired", "merged", "absorbed"}
        PROVE  Scanned(x)' \in {Scanned(x), "retired"}
    <3>1. x \in retired' => Scanned(x)' = "retired"
      BY <2>3 DEF LabelsRead
    <3>2. CASE x \in retired
      BY <2>1, <3>1, <3>2 DEF LabelsRemain
    <3>3. CASE x \in DOMAIN lot
      <4>1. lot[x].into # None /\ Scanned(x) = "merged"
        BY <2>3, <2>4, <3>3 DEF LabelsRead, ScannedLot
      <4>2. x \in DOMAIN lot' /\ lot'[x].into # None => Scanned(x)' = "merged"
        BY <2>3 DEF LabelsRead, ScannedLot
      <4> QED BY <2>1, <3>1, <3>3, <4>1, <4>2 DEF LabelsRemain
    <3>4. CASE x \in DOMAIN pallet
      <4>1. pallet[x].absorbed # None /\ Scanned(x) = "absorbed"
        BY <2>3, <2>4, <3>4 DEF LabelsRead, ScannedPallet
      <4>2. x \in DOMAIN pallet' /\ pallet'[x].absorbed # None =>
              Scanned(x)' = "absorbed"
        BY <2>3 DEF LabelsRead, ScannedPallet
      <4> QED BY <2>1, <3>1, <3>4, <4>1, <4>2 DEF LabelsRemain
    <3>5. CASE x \in DOMAIN box
      <4>1. box[x].state \in {"held", "returned", "archived"}
        BY <3>5 DEF GraphInv, TablesTyped, IsTable, BoxRow
      <4> QED BY <2>3, <2>4, <3>5, <4>1 DEF LabelsRead, ScannedBox
    <3>6. CASE x \in DOMAIN file
      BY <2>3, <2>4, <3>6 DEF LabelsRead, ScannedFile
    <3> QED BY <3>2, <3>3, <3>4, <3>5, <3>6 DEF Live
  <2> QED BY <2>1, <2>2, <2>4 DEF LabelsRemain
<1>2. GraphInv /\ GraphInv' /\ [Next]_vars => [Labels]_vars
  BY <1>1
<1> QED BY <1>2, GraphInvariant, PTL DEF Spec, BarcodesRetired

(* Only with its lot, or when no request names it, does an active box go.  *)
THEOREM ActiveBoxesSurvive == Spec => ActiveBoxSurvives
<1> DEFINE Survives ==
             \A b \in DOMAIN box \ DOMAIN box' :
                Active(b) => box[b].lot \notin DOMAIN lot' \/ Naming(b) = {}
<1>1. GraphInv /\ [Next]_vars => Survives
  <2> SUFFICES ASSUME GraphInv, [Next]_vars PROVE Survives
    OBVIOUS
  <2>1. CASE RowsRemain
    BY <2>1 DEF RowsRemain
  <2>2. ASSUME NEW b \in DOMAIN box, BoxDeleted(b) PROVE Survives
    BY <2>2 DEF BoxDeleted
  <2>3. ASSUME NEW s, NEW t, NEW overwrite, Merge(s, t, overwrite)
        PROVE  Survives
    BY <2>3, MergeRows
  <2>4. ASSUME NEW l \in DOMAIN lot, NEW a, Purge(l, a) \/ ForcePurge(l, a)
        PROVE  Survives
    <3>1. PICK rs : DropLot(l, rs)
      BY <2>4 DEF Purge, ForcePurge
    <3> QED BY <3>1, DropLotRows DEF BoxesOf
  <2> QED BY <2>1, <2>2, <2>3, <2>4, StepCases
<1>2. GraphInv /\ [Next]_vars => [Survives]_vars
  BY <1>1
<1> QED BY <1>2, GraphInvariant, PTL DEF Spec, ActiveBoxSurvives

(* Lots go by purges only.                                                 *)
LEMMA LotsGo ==
  ASSUME GraphInv, [Next]_vars, NEW l \in DOMAIN lot, l \notin DOMAIN lot'
  PROVE  \E a \in Ledgers : Purge(l, a) \/ ForcePurge(l, a)
<1>1. ASSUME NEW k \in DOMAIN lot, NEW rs, DropLot(k, rs) PROVE k = l
  BY <1>1, DropLotRows
<1>2. ~RowsRemain
  BY DEF RowsRemain, LotsRemain
<1>3. ~\E b \in DOMAIN box : BoxDeleted(b)
  BY DEF BoxDeleted
<1>4. ASSUME NEW s, NEW t, NEW overwrite, Merge(s, t, overwrite) PROVE FALSE
  BY <1>4, MergeRows
<1>5. PICK k \in DOMAIN lot, a \in Ledgers : Purge(k, a) \/ ForcePurge(k, a)
  BY <1>2, <1>3, <1>4, StepCases
<1>6. k = l
  BY <1>1, <1>5 DEF Purge, ForcePurge
<1> QED BY <1>5, <1>6

(* What an item names of its lot, a purge of the lot takes; the other      *)
(* items it leaves where they are.                                         *)
LEMMA KeptItems ==
  ASSUME GraphInv, NEW l \in DOMAIN lot, NEW a,
         Purge(l, a) \/ ForcePurge(l, a), NEW r \in DOMAIN request,
         Items(r) \ LostItems(r, l) # {}
  PROVE  /\ r \in DOMAIN request'
         /\ DOMAIN request'[r].items = Items(r) \ LostItems(r, l)
         /\ \A i \in Items(r) \ LostItems(r, l) :
              /\ request'[r].items[i].box = request[r].items[i].box
              /\ request'[r].items[i].lot = request[r].items[i].lot
<1>1. CASE Purge(l, a)
  <2>1. /\ NothingForeign(l)
        /\ DOMAIN request' = DOMAIN request \ Linked(l)
        /\ \A q \in DOMAIN request' : request'[q] = request[q]
    BY <1>1 DEF Purge, MayPurge, Eligible, Restrict
  <2>2. r \notin Linked(l)
    BY <2>1 DEF NothingForeign, LostItems, Own
  <2>3. LostItems(r, l) = {}
    BY <2>2 DEF Linked, LostItems
  <2> QED BY <2>1, <2>2, <2>3 DEF Items
<1>2. CASE ForcePurge(l, a)
  <2>1. r \in DOMAIN request \ FullyLost(l)
    BY DEF FullyLost
  <2>2. r \in DOMAIN request' /\ request'[r] = Rewritten(r, l)
    BY <1>2, <2>1 DEF ForcePurge
  <2>3. /\ DOMAIN Rewritten(r, l).items = Items(r) \ LostItems(r, l)
        /\ \A i \in Items(r) \ LostItems(r, l) :
             /\ Rewritten(r, l).items[i].box = request[r].items[i].box
             /\ Rewritten(r, l).items[i].lot = request[r].items[i].lot
    BY <2>1, RewrittenItems
  <2> QED BY <2>2, <2>3
<1> QED BY <1>1, <1>2

(* A purge keeps to its lot.                                               *)
THEOREM PurgesConfined == Spec => PurgeConfined
<1> DEFINE Confined ==
             \A l \in DOMAIN lot \ DOMAIN lot' :
               /\ \A b \in DOMAIN box : box[b].lot # l
                     => b \in DOMAIN box' /\ box'[b] = box[b]
               /\ \A f \in DOMAIN file : file[f].lot # l
                     => f \in DOMAIN file' /\ file'[f] = file[f]
               /\ \A r \in DOMAIN request :
                   LET rest == {i \in Items(r) : ~Own(request[r].items[i], l)}
                   IN rest # {} =>
                       /\ r \in DOMAIN request'
                       /\ DOMAIN request'[r].items = rest
                       /\ \A i \in rest :
                            /\ request'[r].items[i].box = request[r].items[i].box
                            /\ request'[r].items[i].lot = request[r].items[i].lot
<1>1. GraphInv /\ [Next]_vars => Confined
  <2> SUFFICES ASSUME GraphInv, [Next]_vars, NEW l \in DOMAIN lot \ DOMAIN lot'
               PROVE
                 /\ \A b \in DOMAIN box : box[b].lot # l
                       => b \in DOMAIN box' /\ box'[b] = box[b]
                 /\ \A f \in DOMAIN file : file[f].lot # l
                       => f \in DOMAIN file' /\ file'[f] = file[f]
                 /\ \A r \in DOMAIN request :
                     LET rest == {i \in Items(r) : ~Own(request[r].items[i], l)}
                     IN rest # {} =>
                         /\ r \in DOMAIN request'
                         /\ DOMAIN request'[r].items = rest
                         /\ \A i \in rest :
                              /\ request'[r].items[i].box =
                                   request[r].items[i].box
                              /\ request'[r].items[i].lot =
                                   request[r].items[i].lot
    OBVIOUS
  <2>1. PICK a \in Ledgers : Purge(l, a) \/ ForcePurge(l, a)
    BY LotsGo
  <2>2. PICK rs : DropLot(l, rs)
    BY <2>1 DEF Purge, ForcePurge
  <2>3. \A b \in DOMAIN box : box[b].lot # l
          => b \in DOMAIN box' /\ box'[b] = box[b]
    BY <2>2, DropLotRows DEF BoxesOf
  <2>4. \A f \in DOMAIN file : file[f].lot # l
          => f \in DOMAIN file' /\ file'[f] = file[f]
    BY <2>2, DropLotRows DEF BoxesOf, FilesOf, GraphInv, FilesPlaced
  <2>5. ASSUME NEW r \in DOMAIN request,
               {i \in Items(r) : ~Own(request[r].items[i], l)} # {}
        PROVE  LET rest == {i \in Items(r) : ~Own(request[r].items[i], l)}
               IN  /\ r \in DOMAIN request'
                   /\ DOMAIN request'[r].items = rest
                   /\ \A i \in rest :
                        /\ request'[r].items[i].box = request[r].items[i].box
                        /\ request'[r].items[i].lot = request[r].items[i].lot
    <3>1. {i \in Items(r) : ~Own(request[r].items[i], l)} =
            Items(r) \ LostItems(r, l)
      BY DEF LostItems
    <3> QED BY <2>1, <2>5, <3>1, KeptItems
  <2> QED BY <2>3, <2>4, <2>5
<1>2. GraphInv /\ [Next]_vars => [Confined]_vars
  BY <1>1
<1> QED BY <1>2, GraphInvariant, PTL DEF Spec, PurgeConfined

(* A purge without blockers takes no box out of a request that is kept,    *)
(* nor a request from a box that is.                                       *)
THEOREM PlainPurgesKeep == Spec => PlainPurgeKeepsProvenance
<1> DEFINE Kept == \A l \in DOMAIN lot \ DOMAIN lot' :
                     Eligible(l) => \A b \in DOMAIN box' : Naming(b)' = Naming(b)
<1>1. GraphInv /\ [Next]_vars => Kept
  <2> SUFFICES ASSUME GraphInv, [Next]_vars, NEW l \in DOMAIN lot \ DOMAIN lot',
                      Eligible(l), NEW b \in DOMAIN box'
               PROVE  Naming(b)' = Naming(b)
    OBVIOUS
  <2>1. PICK a \in Ledgers : Purge(l, a) \/ ForcePurge(l, a)
    BY LotsGo
  <2>2. PICK rs : DropLot(l, rs)
    BY <2>1 DEF Purge, ForcePurge
  <2>3. b \in DOMAIN box \ BoxesOf(l)
    BY <2>2, DropLotRows
  <2>4. ASSUME NEW r \in DOMAIN request, r \in Linked(l)
        PROVE  r \notin Naming(b)
    BY <2>3, <2>4 DEF Eligible, NothingForeign, Naming
  <2>5. ASSUME NEW r \in DOMAIN request, r \notin Linked(l)
        PROVE  /\ r \in DOMAIN request'
               /\ DOMAIN request'[r].items = Items(r)
               /\ \A i \in Items(r) :
                    request'[r].items[i].box = request[r].items[i].box
    <3>1. LostItems(r, l) = {} /\ r \notin FullyLost(l)
      BY <2>5 DEF Linked, LostItems, FullyLost
    <3>2. CASE Purge(l, a)
      BY <2>5, <3>2 DEF Purge, Restrict, Items
    <3>3. CASE ForcePurge(l, a)
      <4>1. r \in DOMAIN request' /\ request'[r] = Rewritten(r, l)
        BY <3>1, <3>3 DEF ForcePurge
      <4>2. r \in DOMAIN request \ FullyLost(l)
        BY <3>1
      <4>3. l \in DOMAIN lot
        OBVIOUS
      <4>4. /\ DOMAIN Rewritten(r, l).items = Items(r) \ LostItems(r, l)
            /\ \A i \in Items(r) \ LostItems(r, l) :
                 /\ Rewritten(r, l).items[i].box = request[r].items[i].box
                 /\ Rewritten(r, l).items[i].lot = request[r].items[i].lot
        BY <4>2, <4>3, RewrittenItems
      <4> QED BY <3>1, <4>1, <4>4
    <3> QED BY <2>1, <3>2, <3>3
  <2>6. ASSUME NEW r \in DOMAIN request', r \in Linked(l) PROVE FALSE
    <3>1. CASE Purge(l, a)
      BY <2>6, <3>1 DEF Purge, Restrict
    <3>2. CASE ForcePurge(l, a)
      <4>1. LostItems(r, l) = Items(r) /\ Items(r) # {} /\ r \in DOMAIN request
        BY <2>6 DEF Linked, LostItems, Eligible, NothingForeign, Own
      <4> QED BY <3>2, <4>1, <2>6 DEF ForcePurge, FullyLost
    <3> QED BY <2>1, <3>1, <3>2
  <2>7. DOMAIN request' \subseteq DOMAIN request
    BY <2>1 DEF Purge, ForcePurge, Restrict
  <2>8. \A r : r \in Naming(b)' <=> r \in Naming(b)
    BY <2>4, <2>5, <2>6, <2>7 DEF Naming, Items
  <2> QED BY <2>8 DEF Naming
<1>2. GraphInv /\ [Next]_vars => [Kept]_vars
  BY <1>1
<1> QED BY <1>2, GraphInvariant, PTL DEF Spec, PlainPurgeKeepsProvenance

(***************************************************************************)
(* Previews: what a signature lists determines what the operation does,    *)
(* in any two states of the tables.                                        *)
(***************************************************************************)
LEMMA SameRows ==
  ASSUME NEW f, NEW g, NEW S, NEW T, Restrict(f, S) = Restrict(g, T)
  PROVE  S = T /\ \A x \in S : f[x] = g[x]
<1>1. DOMAIN Restrict(f, S) = S /\ DOMAIN Restrict(g, T) = T
  BY DEF Restrict
<1>2. \A x \in S : Restrict(f, S)[x] = f[x] /\ Restrict(g, S)[x] = g[x]
  BY DEF Restrict
<1>3. \A x \in T : Restrict(g, T)[x] = g[x]
  BY DEF Restrict
<1> QED BY <1>1, <1>2, <1>3

(* The lot, its rows and the requests that touch it are the same.          *)
SameGraph(l) ==
    /\ LotSigned(l)' = LotSigned(l)
    /\ RequestsSigned(Linked(l))' = RequestsSigned(Linked(l))

LEMMA SameLot ==
  ASSUME NEW l, SameGraph(l)
  PROVE  /\ BoxesOf(l)' = BoxesOf(l) /\ PalletsOf(l)' = PalletsOf(l)
         /\ Linked(l)' = Linked(l)
         /\ \A r \in Linked(l) : request'[r] = request[r]
<1>1. /\ Restrict(box, BoxesOf(l))' = Restrict(box, BoxesOf(l))
      /\ Restrict(pallet, PalletsOf(l))' = Restrict(pallet, PalletsOf(l))
      /\ Restrict(request, Linked(l))' = Restrict(request, Linked(l))
  BY DEF SameGraph, LotSigned, RequestsSigned
<1>2. BoxesOf(l)' = BoxesOf(l) /\ PalletsOf(l)' = PalletsOf(l)
  BY <1>1, SameRows
<1>3. /\ Linked(l)' = Linked(l)
      /\ \A r \in Linked(l)' : request'[r] = request[r]
  BY <1>1, SameRows
<1> QED BY <1>2, <1>3

LEMMA SameLost ==
  ASSUME NEW l, SameGraph(l)
  PROVE  /\ \A r \in Linked(l) : LostItems(r, l)' = LostItems(r, l)
         /\ \A r \in DOMAIN request \ Linked(l) : LostItems(r, l) = {}
         /\ \A r \in DOMAIN request' \ Linked(l) : LostItems(r, l)' = {}
         /\ FullyLost(l)' = FullyLost(l)
         /\ FullyLost(l) \subseteq Linked(l)
         /\ Linked(l) \subseteq DOMAIN request \cap DOMAIN request'
<1>1. /\ BoxesOf(l)' = BoxesOf(l) /\ Linked(l)' = Linked(l)
      /\ \A r \in Linked(l) : request'[r] = request[r]
  BY SameLot
<1>2. /\ Linked(l) \subseteq DOMAIN request
      /\ Linked(l)' \subseteq DOMAIN request'
  BY DEF Linked
<1>3. ASSUME NEW r \in Linked(l) PROVE LostItems(r, l)' = LostItems(r, l)
  BY <1>1 DEF LostItems, Items, Own
<1>4. \A r \in DOMAIN request \ Linked(l) : LostItems(r, l) = {}
  BY DEF Linked, LostItems
<1>5. \A r \in DOMAIN request' \ Linked(l)' : LostItems(r, l)' = {}
  BY DEF Linked, LostItems
<1>6. FullyLost(l) \subseteq Linked(l) /\ FullyLost(l)' \subseteq Linked(l)'
  BY <1>4, <1>5 DEF FullyLost
<1>7. \A r \in Linked(l) : r \in FullyLost(l)' <=> r \in FullyLost(l)
  BY <1>1, <1>2, <1>3 DEF FullyLost, Items
<1>8. FullyLost(l)' = FullyLost(l)
  BY <1>1, <1>6, <1>7
<1> QED BY <1>1, <1>2, <1>3, <1>4, <1>5, <1>6, <1>8

LEMMA SamePurge ==
  ASSUME NEW l, PurgeSignature(l)' = PurgeSignature(l)
  PROVE  PurgeImpact(l)' = PurgeImpact(l)
<1>1. SameGraph(l) /\ Eligible(l)' = Eligible(l)
  BY DEF PurgeSignature, SameGraph
<1>2. /\ BoxesOf(l)' = BoxesOf(l) /\ Linked(l)' = Linked(l)
      /\ \A r \in Linked(l) : request'[r] = request[r]
  BY <1>1, SameLot
<1>3. KeysOf(Linked(l))' = KeysOf(Linked(l))
  BY <1>2 DEF KeysOf
<1> QED BY <1>1, <1>2, <1>3 DEF PurgeImpact

LEMMA SameForcedPurge ==
  ASSUME NEW l, ForceSignature(l)' = ForceSignature(l)
  PROVE  ForceImpact(l)' = ForceImpact(l)
<1>1. /\ SameGraph(l)
      /\ [r \in Heirs(l)' |-> request'[r].lineage] =
           [r \in Heirs(l) |-> request[r].lineage]
  BY DEF ForceSignature, SameGraph
<1>2. /\ PalletsOf(l)' = PalletsOf(l) /\ Linked(l)' = Linked(l)
      /\ \A r \in Linked(l) : request'[r] = request[r]
  BY <1>1, SameLot
<1>3. /\ \A r \in Linked(l) : LostItems(r, l)' = LostItems(r, l)
      /\ \A r \in DOMAIN request \ Linked(l) : LostItems(r, l) = {}
      /\ \A r \in DOMAIN request' \ Linked(l) : LostItems(r, l)' = {}
      /\ FullyLost(l)' = FullyLost(l)
      /\ FullyLost(l) \subseteq Linked(l)
      /\ Linked(l) \subseteq DOMAIN request \cap DOMAIN request'
  BY <1>1, SameLost
<1>4. KeysOf(FullyLost(l))' = KeysOf(FullyLost(l))
  BY <1>2, <1>3 DEF KeysOf
<1>5. FreedKeys(l)' = FreedKeys(l)
  <2> DEFINE photos(r) ==
               UNION {PhotoOf[r][i] : i \in LostItems(r, l) \cap request[r].missing}
  <2>1. \A r \in Linked(l) : photos(r)' = photos(r)
    BY <1>2, <1>3
  <2>2. /\ \A r \in DOMAIN request \ Linked(l) : photos(r) = {}
        /\ \A r \in DOMAIN request' \ Linked(l) : photos(r)' = {}
    BY <1>3
  <2>3. /\ FreedKeys(l) =
             KeysOf(FullyLost(l)) \cup UNION {photos(r) : r \in DOMAIN request}
        /\ FreedKeys(l)' =
             KeysOf(FullyLost(l))'
               \cup UNION {photos(r)' : r \in DOMAIN request'}
    BY DEF FreedKeys
  <2> HIDE DEF photos
  <2>4. UNION {photos(r) : r \in DOMAIN request} =
          UNION {photos(r) : r \in Linked(l)}
    BY <1>3, <2>2
  <2>5. UNION {photos(r)' : r \in DOMAIN request'} =
          UNION {photos(r)' : r \in Linked(l)}
    BY <1>3, <2>2
  <2>6. UNION {photos(r)' : r \in Linked(l)} =
          UNION {photos(r) : r \in Linked(l)}
    BY <2>1
  <2> QED BY <1>4, <2>3, <2>4, <2>5, <2>6
<1>6. \A r \in Linked(l) : Rewritten(r, l)' = Rewritten(r, l)
  <2> SUFFICES ASSUME NEW r \in Linked(l)
               PROVE  Rewritten(r, l)' = Rewritten(r, l)
    OBVIOUS
  <2>1. /\ request'[r] = request[r] /\ LostItems(r, l)' = LostItems(r, l)
        /\ Items(r)' = Items(r)
    BY <1>2, <1>3 DEF Items
  <2>2. /\ QuantityAfter(r, l)' = QuantityAfter(r, l)
        /\ ActualAfter(r, l)' = ActualAfter(r, l)
    BY <2>1 DEF QuantityAfter, ActualAfter
  <2> QED BY <1>2, <1>3, <2>1, <2>2 DEF Rewritten
<1>7. [r \in Linked(l) \ FullyLost(l) |-> Rewritten(r, l)]' =
        [r \in Linked(l) \ FullyLost(l) |-> Rewritten(r, l)]
  BY <1>2, <1>3, <1>6
<1>8. /\ Heirs(l)' = Heirs(l)
      /\ \A r \in Heirs(l) : request'[r].lineage = request[r].lineage
  <2> DEFINE signed == [r \in Heirs(l) |-> request[r].lineage]
             again == [r \in Heirs(l)' |-> request'[r].lineage]
  <2>1. /\ DOMAIN signed = Heirs(l) /\ DOMAIN again = Heirs(l)'
        /\ \A r \in Heirs(l) : signed[r] = request[r].lineage
        /\ \A r \in Heirs(l)' : again[r] = request'[r].lineage
    OBVIOUS
  <2>2. signed = again
    BY <1>1
  <2> QED BY <2>1, <2>2
<1>9. [r \in Heirs(l) |-> request[r].lineage \cap FullyLost(l)]' =
        [r \in Heirs(l) |-> request[r].lineage \cap FullyLost(l)]
  BY <1>3, <1>8
<1> QED BY <1>3, <1>5, <1>7, <1>9 DEF ForceImpact

(* What an administrator confirmed is what a purge does.                   *)
THEOREM PurgesAsConfirmed == Spec => ConfirmedPurge
<1> DEFINE Confirmed ==
             \A l \in DOMAIN lot \cap DOMAIN lot' :
               /\ PurgeSignature(l)' = PurgeSignature(l)
                    => PurgeImpact(l)' = PurgeImpact(l)
               /\ ForceSignature(l)' = ForceSignature(l)
                    => ForceImpact(l)' = ForceImpact(l)
<1>1. Confirmed
  BY SamePurge, SameForcedPurge
<1>2. [Confirmed]_vars
  BY <1>1
<1> QED BY <1>2, PTL DEF ConfirmedPurge

(* The rows a merge's signature lists, in another state with the same      *)
(* signature.                                                              *)
LEMMA SameMergeRows ==
  ASSUME NEW s, NEW t, MergeSignature(s, t)' = MergeSignature(s, t)
  PROVE  /\ BoxesOf(s)' = BoxesOf(s) /\ BoxesOf(t)' = BoxesOf(t)
         /\ \A b \in BoxesOf(s) \cup BoxesOf(t) : box'[b] = box[b]
         /\ PalletsOf(s)' = PalletsOf(s) /\ PalletsOf(t)' = PalletsOf(t)
         /\ \A p \in PalletsOf(s) \cup PalletsOf(t) : pallet'[p] = pallet[p]
         /\ FilesIn(s)' = FilesIn(s) /\ FilesIn(t)' = FilesIn(t)
         /\ \A f \in FilesIn(s) \cup FilesIn(t) : file'[f] = file[f]
         /\ ItemLinks(s, t)' = ItemLinks(s, t)
<1>1. /\ Restrict(box', (BoxesOf(s) \cup BoxesOf(t))') =
           Restrict(box, BoxesOf(s) \cup BoxesOf(t))
      /\ Restrict(pallet', (PalletsOf(s) \cup PalletsOf(t))') =
           Restrict(pallet, PalletsOf(s) \cup PalletsOf(t))
      /\ Restrict(file', (FilesIn(s) \cup FilesIn(t))') =
           Restrict(file, FilesIn(s) \cup FilesIn(t))
      /\ ItemLinks(s, t)' = ItemLinks(s, t)
  BY DEF MergeSignature
<1>2. /\ (BoxesOf(s) \cup BoxesOf(t))' = BoxesOf(s) \cup BoxesOf(t)
      /\ \A b \in BoxesOf(s) \cup BoxesOf(t) : box'[b] = box[b]
  BY <1>1, SameRows
<1>3. /\ (PalletsOf(s) \cup PalletsOf(t))' = PalletsOf(s) \cup PalletsOf(t)
      /\ \A p \in PalletsOf(s) \cup PalletsOf(t) : pallet'[p] = pallet[p]
  BY <1>1, SameRows
<1>4. /\ (FilesIn(s) \cup FilesIn(t))' = FilesIn(s) \cup FilesIn(t)
      /\ \A f \in FilesIn(s) \cup FilesIn(t) : file'[f] = file[f]
  BY <1>1, SameRows
<1>5. /\ BoxesOf(s)' = BoxesOf(s) /\ BoxesOf(t)' = BoxesOf(t)
  BY <1>2 DEF BoxesOf
<1>6. PalletsOf(s)' = PalletsOf(s) /\ PalletsOf(t)' = PalletsOf(t)
  BY <1>3 DEF PalletsOf
<1>7. FilesIn(s)' = FilesIn(s) /\ FilesIn(t)' = FilesIn(t)
  BY <1>4 DEF FilesIn
<1> QED BY <1>1, <1>2, <1>3, <1>4, <1>5, <1>6, <1>7

LEMMA SameMerge ==
  ASSUME GraphInv, GraphInv', NEW s, NEW t,
         MergeSignature(s, t)' = MergeSignature(s, t)
  PROVE  MergeImpact(s, t)' = MergeImpact(s, t)
<1>1. /\ BoxesOf(s)' = BoxesOf(s) /\ BoxesOf(t)' = BoxesOf(t)
      /\ \A b \in BoxesOf(s) \cup BoxesOf(t) : box'[b] = box[b]
      /\ PalletsOf(s)' = PalletsOf(s) /\ PalletsOf(t)' = PalletsOf(t)
      /\ \A p \in PalletsOf(s) \cup PalletsOf(t) : pallet'[p] = pallet[p]
      /\ FilesIn(s)' = FilesIn(s) /\ FilesIn(t)' = FilesIn(t)
      /\ \A f \in FilesIn(s) \cup FilesIn(t) : file'[f] = file[f]
      /\ ItemLinks(s, t)' = ItemLinks(s, t)
  BY SameMergeRows
<1> DEFINE pairs == BoxPairs(s, t)
           losers == {Loser(pair) : pair \in pairs}
           removed == {<<Loser(pair), Survivor(pair)>> : pair \in pairs}
<1>2. BoxPairs(s, t)' = pairs
  BY <1>1 DEF BoxPairs
<1>3. Combined(s, t)' = Combined(s, t)
  BY <1>1 DEF Combined
<1>4. FileClashes(s, t)' = FileClashes(s, t)
  BY <1>1 DEF FileClashes
<1>5. ASSUME NEW pair \in pairs
      PROVE  /\ Loser(pair)' = Loser(pair) /\ Survivor(pair)' = Survivor(pair)
             /\ Hard(pair)' <=> Hard(pair)
             /\ Loser(pair) \in BoxesOf(s) \cup BoxesOf(t)
  <2>1. pair[1] \in BoxesOf(s) /\ pair[2] \in BoxesOf(t)
    BY DEF BoxPairs
  <2>2. (Active(pair[1])' <=> Active(pair[1]))
        /\ (Active(pair[2])' <=> Active(pair[2]))
    BY <1>1, <2>1 DEF Active
  <2> QED BY <2>1, <2>2 DEF Loser, Survivor, Hard
<1>6. losers' = losers /\ losers \subseteq BoxesOf(s) \cup BoxesOf(t)
  BY <1>2, <1>5
<1>7. removed' = removed
  BY <1>2, <1>5
<1>8. MergeAllowed(s, t, TRUE)' <=> MergeAllowed(s, t, TRUE)
  <2>1. \A pair \in Combined(s, t) : pallet'[pair[2]] = pallet[pair[2]]
    BY <1>1 DEF Combined
  <2>2. \A clash \in FileClashes(s, t) : \A f \in clash : file'[f] = file[f]
    BY <1>1 DEF FileClashes
  <2> QED BY <1>2, <1>3, <1>4, <1>5, <2>1, <2>2 DEF MergeAllowed
<1>9. FilesOf(losers)' = FilesOf(losers)
  <2>1. /\ FilesOf(losers) \subseteq FilesIn(s) \cup FilesIn(t)
        /\ FilesOf(losers)' \subseteq FilesIn(s)' \cup FilesIn(t)'
    <3>1. FilesOf(losers) \subseteq FilesIn(s) \cup FilesIn(t)
      BY <1>6 DEF FilesOf, FilesIn, BoxesOf, GraphInv, FilesPlaced
    <3>2. losers' \subseteq BoxesOf(s)' \cup BoxesOf(t)'
      BY <1>1, <1>6
    <3>3. FilesOf(losers)' \subseteq FilesIn(s)' \cup FilesIn(t)'
      BY <3>2 DEF FilesOf, FilesIn, BoxesOf, GraphInv, FilesPlaced
    <3> QED BY <3>1, <3>3
  <2>2. \A f \in FilesIn(s) \cup FilesIn(t) :
          /\ f \in DOMAIN file /\ f \in DOMAIN file'
          /\ file'[f] = file[f]
    BY <1>1 DEF FilesIn
  <2>3. \A f : f \in FilesOf(losers)' <=> f \in FilesOf(losers)
    BY <1>1, <1>6, <2>1, <2>2 DEF FilesOf
  <2> QED BY <2>3
<1>10. {link \in AllItems : link[3].lot = s}' =
         {link \in AllItems : link[3].lot = s}
  <2>1. /\ {link \in AllItems : link[3].lot = s} =
             {link \in ItemLinks(s, t) : link[3].lot = s}
        /\ {link \in AllItems : link[3].lot = s}' =
             {link \in ItemLinks(s, t)' : link[3].lot = s}
    BY DEF ItemLinks
  <2> QED BY <1>1, <2>1
<1>11. {link \in AllItems : link[3].box \in losers}' =
         {link \in AllItems : link[3].box \in losers}
  <2>1. {link \in AllItems : link[3].box \in losers} =
          {link \in ItemLinks(s, t) : link[3].box \in losers}
    BY <1>6 DEF ItemLinks
  <2>2. losers' \subseteq BoxesOf(s)' \cup BoxesOf(t)'
    BY <1>1, <1>6
  <2>3. {link \in AllItems : link[3].box \in losers}' =
          {link \in ItemLinks(s, t)' : link[3].box \in losers'}
    BY <2>2 DEF ItemLinks
  <2> QED BY <1>1, <1>6, <2>1, <2>3
<1> DEFINE files == FilesOf(losers) \cup UNION FileClashes(s, t)
<1>12. files' = files
  BY <1>4, <1>9
<1>13. MergeAllowed(s, t, TRUE)' = MergeAllowed(s, t, TRUE)
  <2>1. /\ MergeAllowed(s, t, TRUE) \in BOOLEAN
        /\ MergeAllowed(s, t, TRUE)' \in BOOLEAN
    BY DEF MergeAllowed
  <2> QED BY <1>8, <2>1
<1> DEFINE moved == {link \in AllItems : link[3].lot = s}
           relinked == {link \in AllItems : link[3].box \in losers}
<1>14. MergeImpact(s, t) =
         [allowed |-> MergeAllowed(s, t, TRUE), removed |-> removed,
          pallets |-> Combined(s, t), files |-> files,
          moved |-> moved, relinked |-> relinked]
  BY DEF MergeImpact
<1>15. MergeImpact(s, t)' =
         [allowed |-> MergeAllowed(s, t, TRUE)', removed |-> removed',
          pallets |-> Combined(s, t)', files |-> files',
          moved |-> moved', relinked |-> relinked']
  BY DEF MergeImpact
<1>16. moved' = moved /\ relinked' = relinked
  BY <1>10, <1>11
<1> HIDE DEF removed, files, moved, relinked
<1> QED
  BY <1>3, <1>7, <1>12, <1>13, <1>14, <1>15, <1>16

(* Nor does a merge delete, move or give another box to what its preview   *)
(* did not sign.                                                           *)
THEOREM MergesAsConfirmed == Spec => ConfirmedMerge
<1> DEFINE Confirmed ==
             \A s, t \in DOMAIN lot \cap DOMAIN lot' :
               s # t /\ Unmerged(s) /\ Unmerged(t)
                 /\ MergeSignature(s, t)' = MergeSignature(s, t)
                    => MergeImpact(s, t)' = MergeImpact(s, t)
<1>1. GraphInv /\ GraphInv' => [Confirmed]_vars
  BY SameMerge
<1> QED BY <1>1, GraphInvariant, PTL DEF ConfirmedMerge

(***************************************************************************)
(* Where labels lead.  A chain follows links from row to row, as the       *)
(* lineage of lots and pallets does; next[x] = None ends it.               *)
(***************************************************************************)

(* Induction on numbers, for a set rather than for a predicate.            *)
LEMMA AllNumbers ==
  ASSUME NEW S, 0 \in S, \A n \in Nat : n \in S => n + 1 \in S
  PROVE  Nat \subseteq S
<1> DEFINE T == Nat \ S
<1> SUFFICES ASSUME T # {} PROVE FALSE
  OBVIOUS
<1>1. PICK x \in T : \A y \in T : <<y, x>> \notin OpToRel(<, Nat)
  BY NatLessThanWellFounded, WFMin, T \subseteq Nat
<1>2. x - 1 \in Nat /\ x - 1 < x /\ (x - 1) + 1 = x
  <2>1. x \in Nat /\ x # 0
    OBVIOUS
  <2> QED BY <2>1
<1>3. x - 1 \in S
  BY <1>1, <1>2 DEF OpToRel
<1> QED BY <1>2, <1>3

(* No set of rows keeps its links to itself: there are no cycles.          *)
Grounded(next) ==
    \A S \in SUBSET DOMAIN next : S # {} => \E x \in S : next[x] \notin S

Closed(next, S) == \A x \in S : next[x] # None => next[x] \in S

(* y is on every chain that goes on from x.                                *)
Reaches(next, x, y) ==
    \A S \in SUBSET DOMAIN next : x \in S /\ Closed(next, S) => y \in S

Links(next) ==
    /\ IsFiniteSet(DOMAIN next) /\ None \notin DOMAIN next
    /\ \A x \in DOMAIN next : next[x] \in DOMAIN next \cup {None}
    /\ Grounded(next)

(* Lots with what they were merged into, pallets with what absorbed them   *)
(* and the lots they lie in: exactly the pallets of merged lots are        *)
(* absorbed, by one in a lot their own leads to.                           *)
Chained(into, absorber, home) ==
    /\ Links(into) /\ Links(absorber)
    /\ \A p \in DOMAIN absorber :
         /\ home[p] \in DOMAIN into
         /\ absorber[p] = None <=> into[home[p]] = None
         /\ absorber[p] # None => Reaches(into, home[p], home[absorber[p]])

(* New rows are linked to nothing.                                         *)
Extends(new, old) ==
    /\ IsFiniteSet(DOMAIN new) /\ None \notin DOMAIN new
    /\ DOMAIN old \subseteq DOMAIN new
    /\ \A x \in DOMAIN old : new[x] = old[x]
    /\ \A x \in DOMAIN new \ DOMAIN old : new[x] = None

LEMMA LinksExtended ==
  ASSUME NEW old, NEW new, Links(old), Extends(new, old)
  PROVE  /\ Links(new)
         /\ \A x \in DOMAIN old : \A y : Reaches(old, x, y) => Reaches(new, x, y)
<1>1. /\ None \notin DOMAIN new /\ DOMAIN old \subseteq DOMAIN new
      /\ \A x \in DOMAIN old : new[x] = old[x]
      /\ \A x \in DOMAIN new \ DOMAIN old : new[x] = None
      /\ \A x \in DOMAIN old : old[x] \in DOMAIN old \cup {None}
      /\ Grounded(old) /\ IsFiniteSet(DOMAIN new)
  BY DEF Links, Extends
<1>2. Grounded(new)
  <2> SUFFICES ASSUME NEW S \in SUBSET DOMAIN new, S # {}
               PROVE  \E x \in S : new[x] \notin S
    BY DEF Grounded
  <2>1. CASE S \subseteq DOMAIN old
    <3>1. PICK x \in S : old[x] \notin S
      BY <1>1, <2>1 DEF Grounded
    <3> QED BY <1>1, <2>1, <3>1
  <2>2. CASE ~(S \subseteq DOMAIN old)
    BY <1>1, <2>2
  <2> QED BY <2>1, <2>2
<1>3. Links(new)
  BY <1>1, <1>2 DEF Links
<1>4. ASSUME NEW x \in DOMAIN old, NEW y, Reaches(old, x, y),
             NEW S \in SUBSET DOMAIN new, x \in S, Closed(new, S)
      PROVE  y \in S
  <2> DEFINE T == S \cap DOMAIN old
  <2>1. Closed(old, T)
    BY <1>1, <1>4 DEF Closed
  <2>2. T \in SUBSET DOMAIN old /\ x \in T
    BY <1>4
  <2>3. y \in T
    BY <1>4, <2>1, <2>2 DEF Reaches
  <2> QED BY <2>3
<1>5. \A x \in DOMAIN old : \A y : Reaches(old, x, y) => Reaches(new, x, y)
  BY <1>4 DEF Reaches
<1> QED BY <1>3, <1>5

LEMMA ChainsExtended ==
  ASSUME NEW i, NEW a, NEW h, Chained(i, a, h),
         NEW j, NEW b, NEW g, Extends(j, i), Extends(b, a),
         \A p \in DOMAIN a : g[p] = h[p],
         \A p \in DOMAIN b \ DOMAIN a : g[p] \in DOMAIN j /\ j[g[p]] = None
  PROVE  Chained(j, b, g)
<1>1. /\ Links(j) /\ Links(b) /\ Links(a)
      /\ \A x \in DOMAIN i : \A y : Reaches(i, x, y) => Reaches(j, x, y)
  BY LinksExtended DEF Chained
<1>2. /\ DOMAIN i \subseteq DOMAIN j /\ DOMAIN a \subseteq DOMAIN b
      /\ \A x \in DOMAIN i : j[x] = i[x]
      /\ \A p \in DOMAIN a : b[p] = a[p]
      /\ \A p \in DOMAIN b \ DOMAIN a : b[p] = None
  BY DEF Extends
<1>3. ASSUME NEW p \in DOMAIN b
      PROVE  /\ g[p] \in DOMAIN j
             /\ b[p] = None <=> j[g[p]] = None
             /\ b[p] # None => Reaches(j, g[p], g[b[p]])
  <2>1. CASE p \in DOMAIN a
    <3>1. /\ h[p] \in DOMAIN i /\ (a[p] = None <=> i[h[p]] = None)
          /\ a[p] # None => Reaches(i, h[p], h[a[p]])
          /\ a[p] # None => a[p] \in DOMAIN a
      BY <2>1 DEF Chained, Links
    <3> QED BY <1>1, <1>2, <2>1, <3>1
  <2>2. CASE p \notin DOMAIN a
    BY <1>2, <2>2
  <2> QED BY <2>1, <2>2
<1> QED BY <1>1, <1>3 DEF Chained

(* A merge of s into t: pallets of s go along, or are absorbed by to[p].   *)
LEMMA ChainsMerged ==
  ASSUME NEW i, NEW a, NEW h, Chained(i, a, h),
         NEW j, NEW b, NEW g, NEW to,
         NEW s \in DOMAIN i, NEW t \in DOMAIN i, s # t,
         i[s] = None, i[t] = None,
         DOMAIN j = DOMAIN i, j[s] = t, \A x \in DOMAIN i \ {s} : j[x] = i[x],
         DOMAIN b = DOMAIN a,
         \A p \in DOMAIN a : h[p] = s /\ to[p] # p =>
            /\ to[p] \in DOMAIN a /\ h[to[p]] = t
            /\ b[p] = to[p] /\ g[p] = s,
         \A p \in DOMAIN a : h[p] = s /\ to[p] = p => b[p] = a[p] /\ g[p] = t,
         \A p \in DOMAIN a : h[p] # s => b[p] = a[p] /\ g[p] = h[p]
  PROVE  Chained(j, b, g)
<1>1. /\ Grounded(i) /\ None \notin DOMAIN i /\ IsFiniteSet(DOMAIN i)
      /\ \A x \in DOMAIN i : i[x] \in DOMAIN i \cup {None}
      /\ Grounded(a) /\ None \notin DOMAIN a /\ IsFiniteSet(DOMAIN a)
      /\ \A x \in DOMAIN a : a[x] \in DOMAIN a \cup {None}
      /\ \A p \in DOMAIN a :
           /\ h[p] \in DOMAIN i
           /\ a[p] = None <=> i[h[p]] = None
           /\ a[p] # None => Reaches(i, h[p], h[a[p]])
  BY DEF Chained, Links
<1>2. Grounded(j)
  <2> SUFFICES ASSUME NEW S \in SUBSET DOMAIN i, S # {}
               PROVE  \E x \in S : j[x] \notin S
    BY DEF Grounded
  <2>1. PICK x \in S : i[x] \notin S
    BY <1>1 DEF Grounded
  <2>2. CASE t \in S
    BY <1>1, <2>2
  <2>3. CASE t \notin S
    BY <2>1, <2>3
  <2> QED BY <2>2, <2>3
<1>3. Grounded(b)
  <2> SUFFICES ASSUME NEW S \in SUBSET DOMAIN a, S # {}
               PROVE  \E p \in S : b[p] \notin S
    BY DEF Grounded
  <2>1. PICK p \in S : a[p] \notin S
    BY <1>1 DEF Grounded
  <2>2. CASE \E q \in S : h[q] = t
    <3>1. PICK q \in S : h[q] = t
      BY <2>2
    <3>2. a[q] = None /\ b[q] = None
      BY <1>1, <3>1
    <3> QED BY <1>1, <3>2
  <2>3. CASE ~\E q \in S : h[q] = t
    BY <2>1, <2>3
  <2> QED BY <2>2, <2>3
<1>4. Links(j) /\ Links(b)
  <2>1. \A x \in DOMAIN j : j[x] \in DOMAIN j \cup {None}
    BY <1>1
  <2>2. \A p \in DOMAIN b : b[p] \in DOMAIN b \cup {None}
    BY <1>1
  <2> QED BY <1>1, <1>2, <1>3, <2>1, <2>2 DEF Links
<1>5. ASSUME NEW x \in DOMAIN i, NEW y, Reaches(i, x, y)
      PROVE  /\ Reaches(j, x, y)
             /\ y = s => Reaches(j, x, t)
  <2> SUFFICES ASSUME NEW S \in SUBSET DOMAIN i, x \in S, Closed(j, S)
               PROVE  y \in S /\ (y = s => t \in S)
    BY DEF Reaches
  <2>1. Closed(i, S)
    BY DEF Closed
  <2>2. y \in S
    BY <1>5, <2>1 DEF Reaches
  <2>3. s \in S => t \in S
    BY <1>1 DEF Closed
  <2> QED BY <2>2, <2>3
<1>6. ASSUME NEW p \in DOMAIN a
      PROVE  /\ g[p] \in DOMAIN i
             /\ b[p] = None <=> j[g[p]] = None
             /\ b[p] # None => Reaches(j, g[p], g[b[p]])
  <2>1. CASE h[p] = s /\ to[p] # p
    <3>1. b[p] = to[p] /\ g[p] = s /\ g[to[p]] = t /\ to[p] \in DOMAIN a
      BY <2>1
    <3>2. Reaches(j, s, t)
      BY <1>1 DEF Reaches, Closed
    <3> QED BY <1>1, <3>1, <3>2
  <2>2. CASE h[p] = s /\ to[p] = p
    <3>1. b[p] = None /\ g[p] = t /\ j[t] = None
      BY <1>1, <2>2
    <3> QED BY <3>1
  <2>3. CASE h[p] # s
    <3>1. b[p] = a[p] /\ g[p] = h[p] /\ j[h[p]] = i[h[p]]
      BY <1>1, <2>3
    <3>2. ASSUME a[p] # None
          PROVE  Reaches(j, h[p], g[a[p]])
      <4>1. Reaches(i, h[p], h[a[p]]) /\ h[p] \in DOMAIN i /\ a[p] \in DOMAIN a
        BY <1>1, <3>2
      <4>2. /\ Reaches(j, h[p], h[a[p]])
            /\ h[a[p]] = s => Reaches(j, h[p], t)
        BY <1>5, <4>1
      <4>3. g[a[p]] = h[a[p]] \/ (h[a[p]] = s /\ g[a[p]] = t)
        BY <4>1
      <4> QED BY <4>2, <4>3
    <3> QED BY <1>1, <3>1, <3>2
  <2> QED BY <2>1, <2>2, <2>3
<1> QED BY <1>4, <1>6 DEF Chained

(* A purge of l, a lot without merges, takes its pallets along.            *)
LEMMA ChainsDropped ==
  ASSUME NEW i, NEW a, NEW h, Chained(i, a, h),
         NEW j, NEW b, NEW g, NEW l \in DOMAIN i,
         i[l] = None, \A x \in DOMAIN i : i[x] # l,
         DOMAIN j = DOMAIN i \ {l}, \A x \in DOMAIN j : j[x] = i[x],
         DOMAIN b = {p \in DOMAIN a : h[p] # l},
         \A p \in DOMAIN b : b[p] = a[p] /\ g[p] = h[p]
  PROVE  Chained(j, b, g)
<1>1. /\ Grounded(i) /\ None \notin DOMAIN i /\ IsFiniteSet(DOMAIN i)
      /\ \A x \in DOMAIN i : i[x] \in DOMAIN i \cup {None}
      /\ Grounded(a) /\ None \notin DOMAIN a /\ IsFiniteSet(DOMAIN a)
      /\ \A x \in DOMAIN a : a[x] \in DOMAIN a \cup {None}
      /\ \A p \in DOMAIN a :
           /\ h[p] \in DOMAIN i
           /\ a[p] = None <=> i[h[p]] = None
           /\ a[p] # None => Reaches(i, h[p], h[a[p]])
  BY DEF Chained, Links
<1>2. IsFiniteSet(DOMAIN j) /\ IsFiniteSet(DOMAIN b)
  <2>1. DOMAIN j \subseteq DOMAIN i /\ DOMAIN b \subseteq DOMAIN a
    OBVIOUS
  <2> QED BY <1>1, <2>1, FS_Subset
<1>3. Grounded(j) /\ Grounded(b)
  <2>1. ASSUME NEW S \in SUBSET DOMAIN j, S # {}
        PROVE  \E x \in S : j[x] \notin S
    <3>1. PICK x \in S : i[x] \notin S
      BY <1>1, <2>1 DEF Grounded
    <3> QED BY <3>1
  <2>2. ASSUME NEW S \in SUBSET DOMAIN b, S # {}
        PROVE  \E x \in S : b[x] \notin S
    <3>1. PICK x \in S : a[x] \notin S
      BY <1>1, <2>2 DEF Grounded
    <3> QED BY <3>1
  <2> QED BY <2>1, <2>2 DEF Grounded
<1>4. ASSUME NEW x \in DOMAIN j, NEW y, Reaches(i, x, y)
      PROVE  y # l /\ Reaches(j, x, y)
  <2> DEFINE R == DOMAIN i \ {l}
  <2>1. R \in SUBSET DOMAIN i /\ x \in R /\ Closed(i, R)
    BY <1>1 DEF Closed
  <2>2. y \in R
    BY <1>4, <2>1 DEF Reaches
  <2>3. ASSUME NEW S \in SUBSET DOMAIN j, x \in S, Closed(j, S)
        PROVE  y \in S
    <3>1. S \in SUBSET DOMAIN i /\ Closed(i, S)
      BY <2>3 DEF Closed
    <3> QED BY <1>4, <2>3, <3>1 DEF Reaches
  <2> QED BY <2>2, <2>3 DEF Reaches
<1>5. ASSUME NEW p \in DOMAIN b
      PROVE  /\ g[p] \in DOMAIN j
             /\ b[p] = None <=> j[g[p]] = None
             /\ b[p] # None => /\ b[p] \in DOMAIN b
                               /\ Reaches(j, g[p], g[b[p]])
  <2>1. /\ p \in DOMAIN a /\ h[p] # l /\ b[p] = a[p] /\ g[p] = h[p]
        /\ h[p] \in DOMAIN j /\ j[h[p]] = i[h[p]]
    BY <1>1
  <2>2. ASSUME a[p] # None
        PROVE  a[p] \in DOMAIN b /\ Reaches(j, h[p], g[a[p]])
    <3>1. Reaches(i, h[p], h[a[p]]) /\ a[p] \in DOMAIN a
      BY <1>1, <2>1, <2>2
    <3>2. h[a[p]] # l /\ Reaches(j, h[p], h[a[p]])
      BY <1>4, <2>1, <3>1
    <3> QED BY <3>1, <3>2
  <2> QED BY <1>1, <2>1, <2>2
<1>6. Links(j) /\ Links(b)
  <2>1. \A x \in DOMAIN j : j[x] \in DOMAIN j \cup {None}
    BY <1>1
  <2>2. \A p \in DOMAIN b : b[p] \in DOMAIN b \cup {None}
    BY <1>5
  <2> QED BY <1>1, <1>2, <1>3, <2>1, <2>2 DEF Links
<1> QED BY <1>5, <1>6 DEF Chained

(* Following a chain, one link at a time; at its end it stands still.      *)
Follows(w, next, x) ==
    /\ w \in [Nat -> DOMAIN next] /\ w[0] = x
    /\ \A n \in Nat :
         w[n + 1] = IF next[w[n]] = None THEN w[n] ELSE next[w[n]]

LEMMA EndsStand ==
  ASSUME NEW w, NEW next, NEW x, Follows(w, next, x),
         NEW m \in Nat, NEW n \in Nat, m <= n, next[w[m]] = None
  PROVE  w[n] = w[m]
<1> DEFINE S == {k \in Nat : w[m + k] = w[m]}
<1>1. 0 \in S
  OBVIOUS
<1>2. ASSUME NEW k \in Nat, k \in S PROVE k + 1 \in S
  <2>1. m + k \in Nat /\ m + (k + 1) = (m + k) + 1
    OBVIOUS
  <2>2. w[(m + k) + 1] = w[m + k]
    BY <1>2, <2>1 DEF Follows
  <2> QED BY <1>2, <2>1, <2>2
<1>3. Nat \subseteq S
  <2> HIDE DEF S
  <2> QED BY <1>1, <1>2, AllNumbers
<1>4. n - m \in Nat /\ m + (n - m) = n
  OBVIOUS
<1> QED BY <1>3, <1>4

LEMMA ChainEnds ==
  ASSUME NEW next, Links(next), NEW x, NEW w, Follows(w, next, x)
  PROVE  LET n == Cardinality(DOMAIN next) IN
         n \in Nat /\ w[n] \in DOMAIN next /\ next[w[n]] = None
<1> DEFINE D == DOMAIN next
           n == Cardinality(D)
<1>1. IsFiniteSet(D) /\ n \in Nat
  BY FS_CardinalityType DEF Links
<1> HIDE DEF n
<1>2. w \in [Nat -> D]
  BY DEF Follows
<1>3. PICK i \in 0..n, j \in 0..n : i < j /\ w[i] = w[j]
  <2> DEFINE f == [k \in 0..n |-> w[k]]
  <2>1. IsFiniteSet(0..n) /\ Cardinality(0..n) = n + 1
    <3>1. 0 \in Int /\ n \in Int /\ 0 <= n
      BY <1>1
    <3>2. Cardinality(0..n) = n - 0 + 1
      BY <3>1, FS_Interval
    <3> QED BY <1>1, <3>1, <3>2, FS_Interval
  <2>2. f \in [0..n -> D]
    BY <1>1, <1>2
  <2>3. Cardinality(0..n) > Cardinality(D)
    BY <1>1, <2>1 DEF n
  <2>4. PICK k \in 0..n, m \in 0..n : k # m /\ f[k] = f[m]
    <3> HIDE DEF f
    <3> QED BY <1>1, <2>1, <2>2, <2>3, FS_PigeonHole
  <2>5. w[k] = w[m]
    BY <2>4
  <2>6. k < m \/ m < k
    BY <1>1, <2>4
  <2> QED BY <2>4, <2>5, <2>6
<1> DEFINE S == {w[k] : k \in i..j}
<1>4. i..j \subseteq Nat /\ i \in i..j /\ j \in i..j /\ i + 1 \in i..j
  BY <1>1, <1>3
<1>5. S \in SUBSET D /\ S # {}
  BY <1>2, <1>4
<1>6. PICK k \in i..j : next[w[k]] \notin S
  <2>1. PICK y \in S : next[y] \notin S
    <3> HIDE DEF S
    <3> QED BY <1>5 DEF Links, Grounded
  <2> QED BY <2>1
<1>7. next[w[k]] = None
  <2> SUFFICES ASSUME next[w[k]] # None PROVE FALSE
    OBVIOUS
  <2>1. w[k + 1] = next[w[k]]
    BY <1>4 DEF Follows
  <2>2. CASE k < j
    <3>1. k + 1 \in i..j
      BY <1>1, <1>3, <2>2
    <3> QED BY <1>6, <2>1, <3>1
  <2>3. CASE k = j
    <3>1. w[i + 1] = next[w[k]]
      BY <1>1, <1>3, <2>3 DEF Follows
    <3> QED BY <1>4, <1>6, <3>1
  <2> QED BY <1>1, <1>3, <2>2, <2>3
<1>8. k \in Nat /\ k <= n
  BY <1>1, <1>3, <1>4
<1>9. w[n] = w[k]
  BY <1>1, <1>7, <1>8, EndsStand
<1> QED BY <1>1, <1>2, <1>7, <1>9 DEF n

LEMMA ChainExists ==
  ASSUME NEW next, Links(next), NEW x \in DOMAIN next
  PROVE  \E w : Follows(w, next, x)
<1> DEFINE D == DOMAIN next
           go == [y \in D |-> IF next[y] = None THEN y ELSE next[y]]
           Begins(f, N) == /\ f \in [Nat -> D] /\ f[0] = x
                          /\ \A n \in Nat : n < N => f[n + 1] = go[f[n]]
<1>1. go \in [D -> D]
  BY DEF Links
<1> HIDE DEF go
<1>2. ASSUME NEW f, NEW e, NEW N \in Nat, Begins(f, N), Begins(e, N)
      PROVE  f[N] = e[N]
  <2> DEFINE S == {n \in Nat : n <= N => f[n] = e[n]}
  <2>1. 0 \in S
    BY <1>2
  <2>2. ASSUME NEW n \in Nat, n \in S PROVE n + 1 \in S
    BY <1>2, <2>2
  <2>3. Nat \subseteq S
    <3> HIDE DEF S
    <3> QED BY <2>1, <2>2, AllNumbers
  <2> QED BY <2>3
<1> DEFINE A == {N \in Nat : \E f : Begins(f, N)}
<1>3. Nat \subseteq A
  <2>1. 0 \in A
    <3> DEFINE f == [n \in Nat |-> x]
    <3>1. Begins(f, 0)
      OBVIOUS
    <3> QED BY <3>1
  <2>2. ASSUME NEW N \in Nat, N \in A PROVE N + 1 \in A
    <3>1. PICK f : Begins(f, N)
      BY <2>2
    <3> DEFINE e == [f EXCEPT ![N + 1] = go[f[N]]]
    <3>2. e \in [Nat -> D] /\ e[0] = x
      BY <1>1, <3>1
    <3>3. ASSUME NEW n \in Nat, n < N + 1 PROVE e[n + 1] = go[e[n]]
      <4>1. e[n] = f[n]
        BY <3>1, <3>3
      <4>2. CASE n = N
        BY <3>1, <4>1, <4>2
      <4>3. CASE n < N
        <5>1. e[n + 1] = f[n + 1] /\ f[n + 1] = go[f[n]]
          BY <3>1, <4>3
        <5> QED BY <4>1, <5>1
      <4> QED BY <3>3, <4>2, <4>3
    <3>4. Begins(e, N + 1)
      <4> HIDE DEF e
      <4> QED BY <3>2, <3>3
    <3>5. N + 1 \in Nat
      OBVIOUS
    <3> HIDE DEF e, Begins
    <3> QED BY <3>4, <3>5
  <2> HIDE DEF A
  <2> QED BY <2>1, <2>2, AllNumbers
<1> DEFINE F(N) == CHOOSE f : Begins(f, N)
           w == [N \in Nat |-> F(N)[N]]
<1>4. \A N \in Nat : Begins(F(N), N)
  <2> SUFFICES ASSUME NEW N \in Nat PROVE Begins(F(N), N)
    OBVIOUS
  <2>1. \E f : Begins(f, N)
    BY <1>3
  <2> HIDE DEF Begins
  <2> QED BY <2>1
<1> HIDE DEF F
<1>5. w \in [Nat -> D] /\ w[0] = x
  BY <1>4
<1>6. ASSUME NEW n \in Nat PROVE w[n + 1] = go[w[n]]
  <2>1. Begins(F(n + 1), n + 1) /\ Begins(F(n), n) /\ n + 1 \in Nat
    BY <1>4
  <2>2. Begins(F(n + 1), n)
    BY <2>1
  <2>3. F(n + 1)[n] = F(n)[n]
    <3> HIDE DEF Begins
    <3> QED BY <1>2, <2>1, <2>2
  <2>4. F(n + 1)[n + 1] = go[F(n + 1)[n]]
    BY <2>1
  <2> QED BY <2>1, <2>3, <2>4
<1>7. \A n \in Nat : w[n + 1] = IF next[w[n]] = None THEN w[n] ELSE next[w[n]]
  <2> SUFFICES ASSUME NEW n \in Nat
               PROVE  w[n + 1] = IF next[w[n]] = None THEN w[n] ELSE next[w[n]]
    OBVIOUS
  <2>1. w[n] \in D /\ w[n + 1] = go[w[n]]
    BY <1>5, <1>6
  <2> HIDE DEF w
  <2> QED BY <2>1 DEF go
<1> HIDE DEF w
<1> QED BY <1>5, <1>7 DEF Follows

(* Where pallets end, and where their lots do.                             *)
LEMMA ChainsMeet ==
  ASSUME NEW i, NEW a, NEW h, Chained(i, a, h), NEW p \in DOMAIN a,
         NEW v, Follows(v, i, h[p]), NEW w, Follows(w, a, p)
  PROVE  h[w[Cardinality(DOMAIN a)]] = v[Cardinality(DOMAIN i)]
<1> DEFINE m == Cardinality(DOMAIN i)
           n == Cardinality(DOMAIN a)
           q == w[n]
<1>1. Links(i) /\ Links(a)
  BY DEF Chained
<1>2. m \in Nat /\ v[m] \in DOMAIN i /\ i[v[m]] = None
  BY <1>1, ChainEnds
<1>3. n \in Nat /\ q \in DOMAIN a /\ a[q] = None
  BY <1>1, ChainEnds
<1> DEFINE S == {v[k] : k \in Nat}
<1>4. v \in [Nat -> DOMAIN i] /\ v[0] = h[p]
  BY DEF Follows
<1>5. S \in SUBSET DOMAIN i /\ h[p] \in S
  BY <1>4
<1>6. Closed(i, S)
  <2> SUFFICES ASSUME NEW k \in Nat, i[v[k]] # None PROVE i[v[k]] \in S
    BY DEF Closed
  <2>1. v[k + 1] = i[v[k]] /\ k + 1 \in Nat
    BY DEF Follows
  <2> QED BY <2>1
<1> HIDE DEF S, m, n
<1> DEFINE A == {k \in Nat : h[w[k]] \in S}
<1>7. 0 \in A
  BY <1>5 DEF Follows
<1>8. ASSUME NEW k \in Nat, k \in A PROVE k + 1 \in A
  <2>1. w[k] \in DOMAIN a /\ h[w[k]] \in S
    BY <1>8 DEF Follows
  <2>2. CASE a[w[k]] = None
    <3>1. w[k + 1] = w[k]
      BY <2>2 DEF Follows
    <3> QED BY <2>1, <3>1
  <2>3. CASE a[w[k]] # None
    <3>1. w[k + 1] = a[w[k]]
      BY <2>3 DEF Follows
    <3>2. Reaches(i, h[w[k]], h[a[w[k]]])
      BY <2>1, <2>3 DEF Chained
    <3>3. h[a[w[k]]] \in S
      BY <1>5, <1>6, <2>1, <3>2 DEF Reaches
    <3> QED BY <3>1, <3>3
  <2> QED BY <2>2, <2>3
<1>9. Nat \subseteq A
  <2> HIDE DEF A
  <2> QED BY <1>7, <1>8, AllNumbers
<1>10. h[q] \in S /\ i[h[q]] = None
  <2>1. i[h[q]] = None
    BY <1>3 DEF Chained
  <2> QED BY <1>3, <1>9, <2>1
<1>11. PICK k \in Nat : h[q] = v[k]
  BY <1>10 DEF S
<1>12. CASE k <= m
  <2>1. v[m] = v[k]
    BY <1>2, <1>10, <1>11, <1>12, EndsStand
  <2> QED BY <1>11, <2>1 DEF m, n
<1>13. CASE m <= k
  <2>1. v[k] = v[m]
    BY <1>2, <1>13, EndsStand
  <2> QED BY <1>11, <2>1 DEF m, n
<1> QED BY <1>2, <1>12, <1>13

(* Lots with what they were merged into, pallets with what absorbed them.  *)
Into == [l \in DOMAIN lot |-> lot[l].into]
Absorber == [p \in DOMAIN pallet |-> pallet[p].absorbed]
Home == [p \in DOMAIN pallet |-> pallet[p].lot]
LabelsChained == Chained(Into, Absorber, Home)

(* What steps other than merges and purges do to lots and to pallets.      *)
LotsGrow ==
    /\ IsFiniteSet(DOMAIN lot')
    /\ \A l \in DOMAIN lot : l \in DOMAIN lot' /\ lot'[l].into = lot[l].into
    /\ \A l \in DOMAIN lot' \ DOMAIN lot : lot'[l].into = None

PalletsGrow ==
    /\ IsFiniteSet(DOMAIN pallet')
    /\ \A p \in DOMAIN pallet :
         /\ p \in DOMAIN pallet'
         /\ pallet'[p].absorbed = pallet[p].absorbed
         /\ pallet'[p].lot = pallet[p].lot
    /\ \A p \in DOMAIN pallet' \ DOMAIN pallet :
         /\ pallet'[p].absorbed = None
         /\ pallet'[p].lot \in DOMAIN lot' /\ lot'[pallet'[p].lot].into = None

LEMMA GrowingChains ==
  ASSUME LabelsChained, TablesTyped', LotsGrow, PalletsGrow
  PROVE  LabelsChained'
<1>1. None \notin DOMAIN lot' /\ None \notin DOMAIN pallet'
  BY IdentitiesAssumption DEF TablesTyped, IsTable
<1>2. Extends(Into', Into)
  BY <1>1 DEF Extends, Into, LotsGrow
<1>3. Extends(Absorber', Absorber)
  BY <1>1 DEF Extends, Absorber, PalletsGrow
<1>4. /\ \A p \in DOMAIN Absorber : Home'[p] = Home[p]
      /\ \A p \in DOMAIN Absorber' \ DOMAIN Absorber :
           Home'[p] \in DOMAIN Into' /\ Into'[Home'[p]] = None
  BY DEF Absorber, Home, Into, PalletsGrow
<1> HIDE DEF Into, Absorber, Home
<1> QED BY <1>2, <1>3, <1>4, ChainsExtended DEF LabelsChained

LEMMA TablesFinite ==
  ASSUME LabelsChained
  PROVE  IsFiniteSet(DOMAIN lot) /\ IsFiniteSet(DOMAIN pallet)
BY DEF LabelsChained, Chained, Links, Into, Absorber

LEMMA UnchangedGrow ==
  ASSUME LabelsChained
  PROVE  /\ UNCHANGED lot => LotsGrow
         /\ UNCHANGED pallet => PalletsGrow
BY TablesFinite DEF LotsGrow, PalletsGrow

(* What the lines of a receipt name.                                       *)
LEMMA ImageFinite ==
  ASSUME NEW bs \in SUBSET Boxes, NEW f, NEW T, T \subseteq {f[b] : b \in bs}
  PROVE  IsFiniteSet(T)
<1>1. IsFiniteSet(bs)
  BY BoxCount
<1> DEFINE g == [b \in bs |-> f[b]]
           R == {f[b] : b \in bs}
<1>2. g \in Surjection(bs, R)
  BY DEF Surjection
<1>3. IsFiniteSet(R)
  BY <1>1, <1>2, FS_Surjection
<1> QED BY <1>3, FS_Subset

LEMMA NamedGrow ==
  ASSUME LabelsChained, GraphInv,
         NEW bs \in SUBSET Boxes, NEW into \in [bs -> Lots],
         NEW onto \in [bs -> Pallets \cup {None}], MayName(bs, into, onto),
         lot' = WithLots({into[b] : b \in bs}),
         NEW named, named = WithPallets(bs, into, onto)
  PROVE  /\ LotsGrow
         /\ IsFiniteSet(DOMAIN named)
         /\ \A p \in DOMAIN pallet : p \in DOMAIN named /\ named[p] = pallet[p]
         /\ \A p \in DOMAIN named \ DOMAIN pallet :
              /\ named[p].absorbed = None
              /\ named[p].lot \in DOMAIN lot' /\ lot'[named[p].lot].into = None
<1> DEFINE ls == {into[b] : b \in bs}
           used == {onto[b] : b \in bs} \ {None}
<1>1. IsFiniteSet(ls) /\ IsFiniteSet(used)
  <2>1. used \subseteq {onto[b] : b \in bs}
    OBVIOUS
  <2> QED BY <2>1, ImageFinite
<1>2. /\ DOMAIN lot' = DOMAIN lot \cup ls
      /\ \A l \in DOMAIN lot : lot'[l] = lot[l]
      /\ \A l \in DOMAIN lot' \ DOMAIN lot : lot'[l].into = None
  BY DEF WithLots, Over
<1>3. IsFiniteSet(DOMAIN lot')
  <2> HIDE DEF ls
  <2>1. IsFiniteSet(DOMAIN lot)
    BY TablesFinite
  <2>2. IsFiniteSet(DOMAIN lot \cup ls)
    BY <1>1, <2>1, FS_Union
  <2> QED BY <1>2, <2>2
<1>4. LotsGrow
  BY <1>2, <1>3 DEF LotsGrow
<1>5. /\ DOMAIN named = DOMAIN pallet \cup used
      /\ \A p \in DOMAIN pallet : named[p] = pallet[p]
      /\ \A p \in used \ DOMAIN pallet : named[p].absorbed = None
  BY DEF WithPallets, Over
<1>6. IsFiniteSet(DOMAIN named)
  <2> HIDE DEF used
  <2>1. IsFiniteSet(DOMAIN pallet)
    BY TablesFinite
  <2>2. IsFiniteSet(DOMAIN pallet \cup used)
    BY <1>1, <2>1, FS_Union
  <2> QED BY <1>5, <2>2
<1>7. /\ \A b \in bs : into[b] \in DOMAIN lot' /\ lot'[into[b]].into = None
      /\ \A b \in bs : onto[b] # None => named[onto[b]].lot = into[b]
  <2>1. \A b \in bs : into[b] \in DOMAIN lot' /\ lot'[into[b]].into = None
    BY LotsNamed
  <2>2. \A b \in bs : onto[b] # None => named[onto[b]].lot = into[b]
    <3>1. \A b \in bs : onto[b] # None =>
            /\ onto[b] \in DOMAIN named
            /\ named[onto[b]].lot = into[b] /\ named[onto[b]].active
      BY ONLY PalletsNamed, GraphInv, bs \in SUBSET Boxes, into \in [bs -> Lots],
              onto \in [bs -> Pallets \cup {None}], MayName(bs, into, onto),
              named = WithPallets(bs, into, onto)
    <3> QED BY <3>1
  <2> QED BY <2>1, <2>2
<1>8. ASSUME NEW p \in DOMAIN named \ DOMAIN pallet
      PROVE  /\ named[p].absorbed = None
             /\ named[p].lot \in DOMAIN lot' /\ lot'[named[p].lot].into = None
  <2>1. PICK b \in bs : onto[b] = p /\ p # None
    BY <1>5, <1>8
  <2> QED BY <1>5, <1>7, <1>8, <2>1
<1> QED BY <1>4, <1>5, <1>6, <1>8

LEMMA IntakeGrow ==
  ASSUME LabelsChained, GraphInv,
         NEW bs \in SUBSET Boxes, NEW into \in [bs -> Lots],
         NEW onto \in [bs -> Pallets \cup {None}], MayReceive(bs, into, onto),
         Intake(bs, into, onto)
  PROVE  LotsGrow /\ PalletsGrow
<1> PICK named : named = WithPallets(bs, into, onto)
  OBVIOUS
<1>1. /\ MayName(bs, into, onto)
      /\ lot' = WithLots({into[b] : b \in bs})
      /\ DOMAIN pallet' = DOMAIN named
      /\ \A p \in DOMAIN named :
           \/ pallet'[p] = named[p]
           \/ pallet'[p] = [named[p] EXCEPT !.active = FALSE]
  BY DEF Intake, MayReceive
<1>2. /\ LotsGrow
      /\ IsFiniteSet(DOMAIN named)
      /\ \A p \in DOMAIN pallet : p \in DOMAIN named /\ named[p] = pallet[p]
      /\ \A p \in DOMAIN named \ DOMAIN pallet :
           /\ named[p].absorbed = None
           /\ named[p].lot \in DOMAIN lot' /\ lot'[named[p].lot].into = None
  <2>1. MayName(bs, into, onto) /\ lot' = WithLots({into[b] : b \in bs})
    BY <1>1
  <2> QED BY ONLY LabelsChained, GraphInv, <2>1, NamedGrow,
             bs \in SUBSET Boxes, into \in [bs -> Lots],
             onto \in [bs -> Pallets \cup {None}],
             named = WithPallets(bs, into, onto)
<1>3. \A p \in DOMAIN named : named[p] \in PalletRow
  BY <1>1, PalletsNamed DEF IsTable
<1>4. \A p \in DOMAIN named : /\ pallet'[p].absorbed = named[p].absorbed
                              /\ pallet'[p].lot = named[p].lot
  BY <1>1, <1>3 DEF PalletRow
<1> QED BY <1>1, <1>2, <1>4 DEF PalletsGrow

LEMMA ReceiptsGrow ==
  ASSUME LabelsChained, GraphInv, Receipts
  PROVE  LotsGrow /\ PalletsGrow
<1>1. ASSUME NEW r, NEW kind, NEW bs \in SUBSET Boxes, NEW into \in [bs -> Lots],
             NEW onto \in [bs -> Pallets \cup {None}], NEW quantity,
             Receive(r, kind, bs, into, onto, quantity)
      PROVE  LotsGrow /\ PalletsGrow
  BY <1>1, IntakeGrow DEF Receive
<1>2. ASSUME NEW r, NEW bs \in SUBSET Boxes, NEW into \in [bs -> Lots],
             NEW onto \in [bs -> Pallets \cup {None}], Stage(r, bs, into, onto)
      PROVE  LotsGrow /\ PalletsGrow
  <2> PICK named : named = WithPallets(bs, into, onto)
    OBVIOUS
  <2>1. /\ MayName(bs, into, onto)
        /\ lot' = WithLots({into[b] : b \in bs}) /\ pallet' = named
    BY <1>2 DEF Stage
  <2> QED BY <2>1, NamedGrow DEF PalletsGrow
<1>3. ASSUME NEW r \in DOMAIN request, Finalize(r)
      PROVE  LotsGrow /\ PalletsGrow
  <2> DEFINE bs == Items(r)
             items == request[r].items
             into == [b \in bs |-> items[b].lot]
             onto == [b \in bs |-> items[b].pallet]
  <2>1. bs \in SUBSET Boxes /\ \A b \in bs : items[b] \in ItemRow
    BY RequestTyped DEF GraphInv
  <2>2. into \in [bs -> Lots] /\ onto \in [bs -> Pallets \cup {None}]
    BY <2>1 DEF GraphInv, ItemsPlaced, ItemRow
  <2>3. MayReceive(bs, into, onto) /\ Intake(bs, into, onto)
    BY <1>3 DEF Finalize
  <2> HIDE DEF bs, into, onto
  <2> QED BY <2>1, <2>2, <2>3, IntakeGrow
<1>4. ASSUME NEW r, Cancel(r)
      PROVE  LotsGrow /\ PalletsGrow
  BY <1>4, UnchangedGrow DEF Cancel
<1> QED BY <1>1, <1>2, <1>3, <1>4 DEF Receipts, Groups

LEMMA EmptiedGrow ==
  ASSUME LabelsChained, GraphInv, NEW ps, ArchiveEmptied(ps)
  PROVE  PalletsGrow
<1>1. /\ DOMAIN pallet' = DOMAIN pallet
      /\ \A p \in DOMAIN pallet :
           \/ pallet'[p] = pallet[p]
           \/ pallet'[p] = [pallet[p] EXCEPT !.active = FALSE]
  BY DEF ArchiveEmptied
<1>2. \A p \in DOMAIN pallet : pallet[p] \in PalletRow
  BY DEF GraphInv, TablesTyped, IsTable
<1>3. \A p \in DOMAIN pallet : /\ pallet'[p].absorbed = pallet[p].absorbed
                               /\ pallet'[p].lot = pallet[p].lot
  BY <1>1, <1>2 DEF PalletRow
<1> QED BY <1>1, <1>3, TablesFinite DEF PalletsGrow

LEMMA HandlingGrows ==
  ASSUME LabelsChained, GraphInv, Handling
  PROVE  LotsGrow /\ PalletsGrow
<1>1. ASSUME NEW b, DeleteBox(b) PROVE LotsGrow /\ PalletsGrow
  BY <1>1, UnchangedGrow DEF DeleteBox
<1>2. ASSUME NEW b, NEW p, AssignPallet(b, p) PROVE LotsGrow /\ PalletsGrow
  BY <1>2, UnchangedGrow, EmptiedGrow DEF AssignPallet
<1>3. ASSUME NEW b, NEW l, NEW p, Reassign(b, l, p)
      PROVE  LotsGrow /\ PalletsGrow
  <2>1. DOMAIN lot' = DOMAIN lot
    BY <1>3 DEF Reassign
  <2>2. \A k \in DOMAIN lot : lot'[k].into = lot[k].into
    <3> SUFFICES ASSUME NEW k \in DOMAIN lot PROVE lot'[k].into = lot[k].into
      OBVIOUS
    <3>1. lot[k] \in LotRow
      BY DEF GraphInv, TablesTyped, IsTable
    <3> QED BY <1>3, <3>1 DEF Reassign, LotRow
  <2>3. LotsGrow
    BY <2>1, <2>2, TablesFinite DEF LotsGrow
  <2>4. PalletsGrow
    BY <1>3, EmptiedGrow DEF Reassign
  <2> QED BY <2>3, <2>4
<1>4. ASSUME NEW f, NEW b, AddFile(f, b) \/ MoveFile(f, b)
      PROVE  LotsGrow /\ PalletsGrow
  BY <1>4, UnchangedGrow DEF AddFile, MoveFile
<1>5. ASSUME NEW f, NEW active, SetFile(f, active)
      PROVE  LotsGrow /\ PalletsGrow
  BY <1>5, UnchangedGrow DEF SetFile
<1>6. ASSUME NEW p, NEW l, CreatePallet(p, l)
      PROVE  LotsGrow /\ PalletsGrow
  <2> DEFINE row == [lot |-> l, active |-> TRUE, absorbed |-> None]
  <2>1. /\ p \notin DOMAIN pallet /\ UNCHANGED lot /\ Unmerged(l)
        /\ pallet' = WithRow(pallet, p, row)
    BY <1>6 DEF CreatePallet
  <2>2. /\ DOMAIN pallet' = DOMAIN pallet \cup {p} /\ pallet'[p] = row
        /\ \A q \in DOMAIN pallet : pallet'[q] = pallet[q]
    <3> QED BY <2>1 DEF WithRow, Over
  <2>3. IsFiniteSet(DOMAIN pallet')
    BY <2>2, TablesFinite, FS_AddElement
  <2>4. row.absorbed = None /\ row.lot = l
    OBVIOUS
  <2> HIDE DEF row
  <2> QED BY <2>1, <2>2, <2>3, <2>4, UnchangedGrow DEF PalletsGrow, Unmerged
<1>7. ASSUME NEW p, NEW active, SetPallet(p, active)
      PROVE  LotsGrow /\ PalletsGrow
  <2>1. DOMAIN pallet' = DOMAIN pallet /\ UNCHANGED lot
    BY <1>7 DEF SetPallet
  <2>2. \A q \in DOMAIN pallet : /\ pallet'[q].absorbed = pallet[q].absorbed
                                 /\ pallet'[q].lot = pallet[q].lot
    <3> SUFFICES ASSUME NEW q \in DOMAIN pallet
                 PROVE  /\ pallet'[q].absorbed = pallet[q].absorbed
                        /\ pallet'[q].lot = pallet[q].lot
      OBVIOUS
    <3>1. pallet[q] \in PalletRow
      BY DEF GraphInv, TablesTyped, IsTable
    <3> QED BY <1>7, <3>1 DEF SetPallet, PalletRow
  <2> QED BY <2>1, <2>2, TablesFinite, UnchangedGrow DEF PalletsGrow
<1> QED
  BY <1>1, <1>2, <1>3, <1>4, <1>5, <1>6, <1>7 DEF Handling

LEMMA GrowthCases ==
  ASSUME LabelsChained, GraphInv, [Next]_vars
  PROVE  \/ LotsGrow /\ PalletsGrow
         \/ \E s, t \in DOMAIN lot, overwrite \in BOOLEAN : Merge(s, t, overwrite)
         \/ \E l \in DOMAIN lot, a \in Ledgers : Purge(l, a) \/ ForcePurge(l, a)
<1>1. UNCHANGED tables => LotsGrow /\ PalletsGrow
  BY UnchangedGrow DEF tables
<1>2. Returns => LotsGrow /\ PalletsGrow
  <2>1. ASSUME NEW r, NEW source, NEW bs, Return(r, source, bs)
        PROVE  LotsGrow /\ PalletsGrow
    BY <2>1, UnchangedGrow DEF Return
  <2>2. ASSUME NEW r, NEW missing, HandOver(r, missing)
        PROVE  LotsGrow /\ PalletsGrow
    BY <2>2, UnchangedGrow DEF HandOver
  <2> QED BY <2>1, <2>2 DEF Returns
<1>3. ASSUME NEW l \in Lots, CreateLot(l) PROVE LotsGrow /\ PalletsGrow
  <2>1. /\ DOMAIN lot' = DOMAIN lot \cup {l} /\ UNCHANGED pallet
        /\ \A k \in DOMAIN lot : lot'[k] = lot[k]
        /\ l \notin DOMAIN lot => lot'[l].into = None
    BY <1>3 DEF CreateLot, WithLots, Over
  <2>2. IsFiniteSet(DOMAIN lot')
    BY <2>1, TablesFinite, FS_AddElement
  <2> QED BY <2>1, <2>2, UnchangedGrow DEF LotsGrow
<1>4. ASSUME NEW l, NEW name, Rename(l, name) PROVE LotsGrow /\ PalletsGrow
  <2>1. DOMAIN lot' = DOMAIN lot /\ UNCHANGED pallet
    BY <1>4 DEF Rename
  <2>2. \A k \in DOMAIN lot : lot'[k].into = lot[k].into
    <3> SUFFICES ASSUME NEW k \in DOMAIN lot PROVE lot'[k].into = lot[k].into
      OBVIOUS
    <3>1. lot[k] \in LotRow
      BY DEF GraphInv, TablesTyped, IsTable
    <3> QED BY <1>4, <3>1 DEF Rename, LotRow
  <2> QED BY <2>1, <2>2, TablesFinite, UnchangedGrow DEF LotsGrow
<1>5. UNCHANGED vars => UNCHANGED tables
  BY DEF vars
<1>6. ASSUME Administration
      PROVE  \/ LotsGrow /\ PalletsGrow
             \/ \E s, t \in DOMAIN lot, overwrite \in BOOLEAN :
                   Merge(s, t, overwrite)
             \/ \E l \in DOMAIN lot, a \in Ledgers :
                   Purge(l, a) \/ ForcePurge(l, a)
  BY <1>3, <1>4, <1>6 DEF Administration
<1> QED
  BY <1>1, <1>2, <1>5, <1>6, ReceiptsGrow, HandlingGrows DEF Next

LEMMA MergeChains ==
  ASSUME LabelsChained, GraphInv, NEW s, NEW t, NEW overwrite,
         Merge(s, t, overwrite)
  PROVE  LabelsChained'
<1> DEFINE combined == Combined(s, t)
           to == [p \in DOMAIN pallet |-> FinalPallet(p, combined)]
<1>1. /\ s \in DOMAIN Into /\ t \in DOMAIN Into /\ s # t
      /\ Into[s] = None /\ Into[t] = None
      /\ lot[s] \in LotRow /\ lot[t] \in LotRow
  BY DEF Merge, GraphInv, TablesTyped, IsTable, Unmerged, Into
<1>2. /\ DOMAIN lot' = DOMAIN lot /\ lot'[s].into = t
      /\ \A l \in DOMAIN lot \ {s} : lot'[l].into = lot[l].into
  <2>1. lot' = MergedLots(s, t)
    BY DEF Merge
  <2> QED BY <1>1, <2>1 DEF MergedLots, LotRow, Into
<1>3. /\ DOMAIN Into' = DOMAIN Into /\ Into'[s] = t
      /\ \A l \in DOMAIN Into \ {s} : Into'[l] = Into[l]
  BY <1>1, <1>2 DEF Into
<1>4. /\ DOMAIN pallet' = DOMAIN pallet
      /\ \A p \in DOMAIN pallet : pallet'[p] = MergedPallet(p, s, t, combined)
      /\ \A p \in DOMAIN pallet : pallet[p] \in PalletRow
  BY DEF Merge, GraphInv, TablesTyped, IsTable
<1>5. \A p \in DOMAIN pallet : to[p] # p =>
        /\ to[p] \in DOMAIN pallet /\ pallet[to[p]].lot = t
  <2> SUFFICES ASSUME NEW p \in DOMAIN pallet, to[p] # p
               PROVE  to[p] \in DOMAIN pallet /\ pallet[to[p]].lot = t
    OBVIOUS
  <2>1. to[p] = FinalPallet(p, combined)
    OBVIOUS
  <2>2. PICK q : q = FinalPallet(p, Combined(s, t))
    OBVIOUS
  <2>3. q \in PalletsOf(t)
    <3>1. \/ q = p
          \/ q \in PalletsOf(t)
      BY ONLY FinalPalletIs, q = FinalPallet(p, Combined(s, t))
    <3> QED BY <2>1, <2>2, <3>1
  <2>4. to[p] = q
    BY <2>1, <2>2
  <2> HIDE DEF to
  <2> QED BY <2>3, <2>4 DEF PalletsOf
<1>6. \A p \in DOMAIN pallet : FinalPallet(p, combined) = to[p]
  OBVIOUS
<1> HIDE DEF to, combined
<1>7. \A p \in DOMAIN pallet :
        /\ pallet[p].lot = s /\ to[p] # p =>
             pallet'[p].absorbed = to[p] /\ pallet'[p].lot = s
        /\ pallet[p].lot = s /\ to[p] = p =>
             pallet'[p].absorbed = pallet[p].absorbed /\ pallet'[p].lot = t
        /\ pallet[p].lot # s =>
             /\ pallet'[p].absorbed = pallet[p].absorbed
             /\ pallet'[p].lot = pallet[p].lot
  BY <1>4, <1>6 DEF MergedPallet, PalletRow
<1>8. /\ DOMAIN Absorber' = DOMAIN Absorber
      /\ \A p \in DOMAIN Absorber : Home[p] = s /\ to[p] # p =>
           /\ to[p] \in DOMAIN Absorber /\ Home[to[p]] = t
           /\ Absorber'[p] = to[p] /\ Home'[p] = s
      /\ \A p \in DOMAIN Absorber : Home[p] = s /\ to[p] = p =>
           Absorber'[p] = Absorber[p] /\ Home'[p] = t
      /\ \A p \in DOMAIN Absorber : Home[p] # s =>
           Absorber'[p] = Absorber[p] /\ Home'[p] = Home[p]
  BY <1>4, <1>5, <1>7 DEF Absorber, Home
<1> HIDE DEF Into, Absorber, Home
<1> QED BY <1>1, <1>3, <1>8, ChainsMerged DEF LabelsChained

LEMMA DropChains ==
  ASSUME LabelsChained, NEW l \in DOMAIN lot, NEW rs, DropLot(l, rs),
         lot[l].into = None, \A k \in DOMAIN lot : lot[k].into # l
  PROVE  LabelsChained'
<1>1. /\ DOMAIN lot' = DOMAIN lot \ {l}
      /\ \A k \in DOMAIN lot' : lot'[k] = lot[k]
      /\ DOMAIN pallet' = DOMAIN pallet \ PalletsOf(l)
      /\ \A p \in DOMAIN pallet' : pallet'[p] = pallet[p]
  BY DropLotRows
<1>2. /\ l \in DOMAIN Into /\ Into[l] = None
      /\ \A k \in DOMAIN Into : Into[k] # l
      /\ DOMAIN Into' = DOMAIN Into \ {l}
      /\ \A k \in DOMAIN Into' : Into'[k] = Into[k]
  BY <1>1 DEF Into
<1>3. /\ DOMAIN Absorber' = {p \in DOMAIN Absorber : Home[p] # l}
      /\ \A p \in DOMAIN Absorber' :
           Absorber'[p] = Absorber[p] /\ Home'[p] = Home[p]
  BY <1>1 DEF Absorber, Home, PalletsOf
<1> HIDE DEF Into, Absorber, Home
<1> QED BY <1>2, <1>3, ChainsDropped DEF LabelsChained

LEMMA ChainsKept ==
  ASSUME LabelsChained, GraphInv, [Next]_vars
  PROVE  LabelsChained'
<1>1. GraphInv'
  BY NextKeeps
<1>2. CASE LotsGrow /\ PalletsGrow
  BY <1>1, <1>2, GrowingChains DEF GraphInv
<1>3. ASSUME NEW s \in DOMAIN lot, NEW t \in DOMAIN lot, NEW overwrite,
             Merge(s, t, overwrite)
      PROVE  LabelsChained'
  BY <1>3, MergeChains
<1>4. ASSUME NEW l \in DOMAIN lot, NEW a, Purge(l, a) \/ ForcePurge(l, a)
      PROVE  LabelsChained'
  <2>1. /\ lot[l].into = None /\ \A k \in DOMAIN lot : lot[k].into # l
        /\ \E rs : DropLot(l, rs)
    BY <1>4 DEF Purge, ForcePurge, MayPurge, MayForcePurge, Eligible,
                NoMergeHistory, Unmixed
  <2> QED BY <2>1, DropChains
<1> QED BY <1>2, <1>3, <1>4, GrowthCases

LEMMA InitChained == Init => LabelsChained
<1> SUFFICES ASSUME Init PROVE LabelsChained
  OBVIOUS
<1>1. DOMAIN lot = {} /\ DOMAIN pallet = {}
  BY DEF Init
<1>2. DOMAIN Into = {} /\ DOMAIN Absorber = {}
  BY <1>1 DEF Into, Absorber
<1> QED BY <1>2, FS_EmptySet DEF LabelsChained, Chained, Links, Grounded

LEMMA ResolvedLotFollows ==
  ASSUME LabelsChained, NEW x \in DOMAIN lot
  PROVE  \E w : /\ Follows(w, Into, x)
                /\ ResolvedLot(x) = w[Cardinality(DOMAIN lot)]
<1> DEFINE IsWalk(w) == w = [n \in Nat |->
             IF n = 0 THEN x
             ELSE IF lot[w[n - 1]].into = None THEN w[n - 1]
                  ELSE lot[w[n - 1]].into]
           walk == CHOOSE w : IsWalk(w)
<1>1. ResolvedLot(x) = walk[Cardinality(DOMAIN lot)]
  BY DEF ResolvedLot, Final
<1>2. Links(Into) /\ DOMAIN Into = DOMAIN lot
      /\ \A y \in DOMAIN lot : Into[y] = lot[y].into
  BY DEF LabelsChained, Chained, Into
<1> HIDE DEF Into
<1>3. PICK v : Follows(v, Into, x)
  BY <1>2, ChainExists
<1>4. IsWalk(v)
  <2>1. v \in [Nat -> DOMAIN lot] /\ v[0] = x
    BY <1>2, <1>3 DEF Follows
  <2>2. ASSUME NEW n \in Nat, n # 0
        PROVE  v[n] = IF lot[v[n - 1]].into = None THEN v[n - 1]
                      ELSE lot[v[n - 1]].into
    <3>1. n - 1 \in Nat /\ (n - 1) + 1 = n /\ v[n - 1] \in DOMAIN lot
      BY <2>1, <2>2
    <3> QED BY <1>2, <1>3, <3>1 DEF Follows
  <2> QED BY <2>1, <2>2
<1>5. IsWalk(walk)
  <2> HIDE DEF IsWalk
  <2> QED BY <1>4
<1> HIDE DEF walk
<1>6. /\ walk = [n \in Nat |-> walk[n]] /\ walk[0] = x
      /\ \A n \in Nat : walk[n + 1] = IF lot[walk[n]].into = None THEN walk[n]
                                     ELSE lot[walk[n]].into
  <2> PICK u : u = walk
    OBVIOUS
  <2>1. u = [n \in Nat |-> IF n = 0 THEN x
               ELSE IF lot[u[n - 1]].into = None THEN u[n - 1]
                    ELSE lot[u[n - 1]].into]
    BY <1>5
  <2>2. u = [n \in Nat |-> u[n]] /\ u[0] = x
    BY <2>1
  <2>3. ASSUME NEW n \in Nat
        PROVE  u[n + 1] = IF lot[u[n]].into = None THEN u[n]
                          ELSE lot[u[n]].into
    <3>1. n + 1 \in Nat /\ n + 1 # 0 /\ (n + 1) - 1 = n
      OBVIOUS
    <3> QED BY <2>1, <3>1
  <2> QED BY <2>2, <2>3
<1> DEFINE A == {n \in Nat : walk[n] \in DOMAIN lot}
<1>7. Nat \subseteq A
  <2>1. 0 \in A
    BY <1>6
  <2>2. ASSUME NEW n \in Nat, n \in A PROVE n + 1 \in A
    BY <1>2, <1>6, <2>2 DEF Links
  <2> HIDE DEF A
  <2> QED BY <2>1, <2>2, AllNumbers
<1>8. walk \in [Nat -> DOMAIN lot]
  BY <1>6, <1>7
<1>9. Follows(walk, Into, x)
  BY <1>2, <1>6, <1>8 DEF Follows
<1> QED BY <1>1, <1>9

LEMMA ResolvedPalletFollows ==
  ASSUME LabelsChained, NEW x \in DOMAIN pallet
  PROVE  \E w : /\ Follows(w, Absorber, x)
                /\ ResolvedPallet(x) = w[Cardinality(DOMAIN pallet)]
<1> DEFINE IsWalk(w) == w = [n \in Nat |->
             IF n = 0 THEN x
             ELSE IF pallet[w[n - 1]].absorbed = None THEN w[n - 1]
                  ELSE pallet[w[n - 1]].absorbed]
           walk == CHOOSE w : IsWalk(w)
<1>1. ResolvedPallet(x) = walk[Cardinality(DOMAIN pallet)]
  BY DEF ResolvedPallet, Final
<1>2. Links(Absorber) /\ DOMAIN Absorber = DOMAIN pallet
      /\ \A y \in DOMAIN pallet : Absorber[y] = pallet[y].absorbed
  BY DEF LabelsChained, Chained, Absorber
<1> HIDE DEF Absorber
<1>3. PICK v : Follows(v, Absorber, x)
  BY <1>2, ChainExists
<1>4. IsWalk(v)
  <2>1. v \in [Nat -> DOMAIN pallet] /\ v[0] = x
    BY <1>2, <1>3 DEF Follows
  <2>2. ASSUME NEW n \in Nat, n # 0
        PROVE  v[n] = IF pallet[v[n - 1]].absorbed = None THEN v[n - 1]
                      ELSE pallet[v[n - 1]].absorbed
    <3>1. n - 1 \in Nat /\ (n - 1) + 1 = n /\ v[n - 1] \in DOMAIN pallet
      BY <2>1, <2>2
    <3> QED BY <1>2, <1>3, <3>1 DEF Follows
  <2> QED BY <2>1, <2>2
<1>5. IsWalk(walk)
  <2> HIDE DEF IsWalk
  <2> QED BY <1>4
<1> HIDE DEF walk
<1>6. /\ walk = [n \in Nat |-> walk[n]] /\ walk[0] = x
      /\ \A n \in Nat : walk[n + 1] = IF pallet[walk[n]].absorbed = None THEN walk[n]
                                     ELSE pallet[walk[n]].absorbed
  <2> PICK u : u = walk
    OBVIOUS
  <2>1. u = [n \in Nat |-> IF n = 0 THEN x
               ELSE IF pallet[u[n - 1]].absorbed = None THEN u[n - 1]
                    ELSE pallet[u[n - 1]].absorbed]
    BY <1>5
  <2>2. u = [n \in Nat |-> u[n]] /\ u[0] = x
    BY <2>1
  <2>3. ASSUME NEW n \in Nat
        PROVE  u[n + 1] = IF pallet[u[n]].absorbed = None THEN u[n]
                          ELSE pallet[u[n]].absorbed
    <3>1. n + 1 \in Nat /\ n + 1 # 0 /\ (n + 1) - 1 = n
      OBVIOUS
    <3> QED BY <2>1, <3>1
  <2> QED BY <2>2, <2>3
<1> DEFINE A == {n \in Nat : walk[n] \in DOMAIN pallet}
<1>7. Nat \subseteq A
  <2>1. 0 \in A
    BY <1>6
  <2>2. ASSUME NEW n \in Nat, n \in A PROVE n + 1 \in A
    BY <1>2, <1>6, <2>2 DEF Links
  <2> HIDE DEF A
  <2> QED BY <2>1, <2>2, AllNumbers
<1>8. walk \in [Nat -> DOMAIN pallet]
  BY <1>6, <1>7
<1>9. Follows(walk, Absorber, x)
  BY <1>2, <1>6, <1>8 DEF Follows
<1> QED BY <1>1, <1>9

LEMMA ChainsLead == LabelsChained => LabelsLead
<1> SUFFICES ASSUME LabelsChained PROVE LabelsLead
  OBVIOUS
<1>1. ASSUME NEW l \in DOMAIN lot PROVE Unmerged(ResolvedLot(l))
  <2>1. PICK w : /\ Follows(w, Into, l)
                 /\ ResolvedLot(l) = w[Cardinality(DOMAIN lot)]
    BY ResolvedLotFollows
  <2>2. DOMAIN Into = DOMAIN lot /\ Links(Into)
    BY DEF Into, LabelsChained, Chained
  <2>3. ResolvedLot(l) \in DOMAIN lot /\ Into[ResolvedLot(l)] = None
    BY <2>1, <2>2, ChainEnds
  <2> QED BY <2>3 DEF Unmerged, Into
<1>2. ASSUME NEW p \in DOMAIN pallet
      PROVE  LET q == ResolvedPallet(p) IN
             /\ q \in DOMAIN pallet /\ pallet[q].absorbed = None
             /\ pallet[q].lot = ResolvedLot(pallet[p].lot)
  <2>1. /\ DOMAIN Into = DOMAIN lot /\ DOMAIN Absorber = DOMAIN pallet
        /\ \A q \in DOMAIN pallet : Home[q] = pallet[q].lot
        /\ \A q \in DOMAIN pallet : Absorber[q] = pallet[q].absorbed
        /\ Links(Into) /\ Links(Absorber) /\ Chained(Into, Absorber, Home)
    BY DEF Into, Absorber, Home, LabelsChained, Chained
  <2> HIDE DEF Into, Absorber, Home
  <2>2. pallet[p].lot \in DOMAIN lot
    BY <2>1 DEF Chained
  <2>3. PICK w : /\ Follows(w, Absorber, p)
                 /\ ResolvedPallet(p) = w[Cardinality(DOMAIN pallet)]
    BY ResolvedPalletFollows
  <2>4. PICK v : /\ Follows(v, Into, pallet[p].lot)
                 /\ ResolvedLot(pallet[p].lot) = v[Cardinality(DOMAIN lot)]
    BY <2>2, ResolvedLotFollows
  <2>5. /\ ResolvedPallet(p) \in DOMAIN pallet
        /\ Absorber[ResolvedPallet(p)] = None
    BY <2>1, <2>3, ChainEnds
  <2>6. Follows(v, Into, Home[p])
    BY <2>1, <2>4
  <2>7. Home[w[Cardinality(DOMAIN pallet)]] = v[Cardinality(DOMAIN lot)]
    BY <2>1, <2>3, <2>6, ChainsMeet
  <2> QED BY <2>1, <2>3, <2>4, <2>5, <2>7
<1> QED BY <1>1, <1>2 DEF LabelsLead

(* Every label on a shelf leads to a row that is in use, in however many   *)
(* merges it took part, and pallets and lots lead to the same place: the   *)
(* checks of resolve_barcode for cycles and dangling rows never fire.      *)
THEOREM EveryLabelLeads == Spec => []LabelsLead
<1>1. Init => LabelsChained
  BY InitChained
<1>2. LabelsChained /\ GraphInv /\ [Next]_vars => LabelsChained'
  BY ChainsKept
<1>3. LabelsChained => LabelsLead
  BY ChainsLead
<1> QED BY <1>1, <1>2, <1>3, GraphInvariant, PTL DEF Spec

=============================================================================
