# Warehouse Box Tracker: TLA+ models and proofs

This directory holds the formal models of the Warehouse Box Tracker (`src/api`, a
FastAPI service over PostgreSQL, with a React client in `src/web`). Paths below are
relative to the repository; `services/`, `models/`, `routers/` and `jobs/` are under
`src/api/app/`.

Every module is translated from the code. Where a model deliberately says less than the
code, the section on that module says so.

## 1. Inventory

| component | state it keeps | operations | talks to |
|---|---|---|---|
| Request lifecycle (`services/requests.py`, `routers/requests.py`) | `BoxRequest` status and version, one unresolved `BoxRequestException`, current documents, comments, attachments, events | approve, reject, prepare, ready, transit, awaiting, complete, cancel, hold, resume, reschedule, report failed, retry, coordination, comments, uploads | boxes, outbox, event bus |
| Creation, reservation, completion (`services/requests.py`) | request items, family (`root_request_id`), quantities | create, staged and completed receipts, completion of both directions, follow-ups and drafts | boxes, warehouses, lots, pallets, files |
| Boxes (`services/boxes.py`, `routers/boxes.py`) | `Box` status, warehouse, archive mark, lot, pallet, files | create, restore, update, bulk update, delete, bulk delete, moves made by requests | requests (override cancels returns), pallets, files, barcodes |
| Warehouses (`services/warehouses.py`) | `is_active`, capacity, review policy | archive, restore, policy | requests and boxes (what blocks an archive) |
| Lots (`services/lots.py`) | lot rows, merge links, the purge ledger | create, rename, merge, purge, forced purge | boxes, requests, pallets, object storage |
| Pallets (`services/pallets.py`) | pallet rows, warehouse, archive mark | create, assign, detach, move, archive (also automatically), restore, absorb in a merge | boxes, lots |
| Box files (`services/box_files.py`) | files of boxes, their identities | add, change, move, archive, restore, reconcile at intake; one UPDATE per position | boxes, reservations |
| Barcodes (`services/barcodes.py`) | identity rows, never reused | issue, retire, snapshot | boxes, lots, pallets, files |
| Imports (`services/imports.py`) | none of its own | box, employee and productivity spreadsheets, mapping templates | boxes, receipts, lots, pallets |
| Request outbox (`services/request_notifications.py`) | outbox rows: status, attempts, lease, next attempt | enqueue in the transaction of the operation, claim, send, retry, overdue and missing-document scans | scheduler, mail |
| Alerts (`services/alerts.py`) | one open alert per warehouse and kind, recorded e-mail attempts, claims | evaluate, open, resolve, claim, send, heal | scheduler, mail, boxes |
| Productivity dispatch (`services/productivity_dispatch.py`) | dispatch rows: status, attempts, lease | schedule, claim, send, retry | scheduler, mail |
| Productivity and employees | daily figures, employees and their warehouse | upsert, transfer, import | dispatch |
| Events and streams (`events.py`, `routers/stream.py`) | in-process subscriber queues | publish, subscribe, drop when full | every router |
| Scheduler (`jobs/scheduler.py`) | periodic jobs, one instance of each per process | run each job | outbox, alerts, dispatch |
| Suggestion and reports | none | arithmetic over history | requests |
| Authentication, ACL | users, roles, warehouses of a user | login, role and access checks | every router |
| Object storage, mail, exports, dashboard, migrations, web client | thin or read-only | | |

**How they interact.** A request handler opens one SQLAlchemy session, calls one service
operation, which locks what it must (`SELECT ... FOR UPDATE` under PostgreSQL READ
COMMITTED), checks, writes and commits once; notifications are written to the outbox in
the same transaction and sent later by the scheduler. An error rolls the whole
transaction back (`_run_action`). Clients send the version of the request they last saw
(`expected_version`). So the hard behaviours are:

* *stale copies*: users act on old versions; a handler reads a row before it locks it;
* *legal calls in unforeseen orders*: holds, failed transports, retries and approvals;
  reservations made through several inbound requests, follow-ups of partial completions,
  admin overrides that cancel returns, warehouses archived while something needs them;
* *transactions of several rows* whose locks do not cover everything they read;
* *leases and retries* of three dispatchers with stale clocks, crashes and duplicates;
* *clean-up after commit*: purge of lots and of stored objects.

**What makes each component correct.** Lifecycle: a version identifies a state, an
exception can always be left, transport is documented, statuses follow the phases.
Reservations: a box is promised to one return, stays collectable, and quantities add up
along partial completions. Boxes: referenced boxes are kept. Warehouses: an archived one
is quiet. Lots and pallets: boxes keep exactly one live lot and a pallet of their
warehouse, erasure leaves no dangling row or object,
labels lead to the row that took over. Files: no write meets a unique position, active
files come first. Completion: it does what was reviewed, once. Suggestion: what it says
to order fits the warehouse and is not asked for twice. Dispatchers: what was enqueued is
eventually sent or given up after the attempt limit, and not sent twice except where a
lease expires. Alerts: at most one open alert per kind. Streams: a subscriber that is
not full sees events in order (not modelled).

The file `PROJECT.json` lists the hazards at their lines, with the properties that cover
them, or the reason no property does.

## 2. Modules

| module | models | composed with |
|---|---|---|
| `RequestPhases` | abstract specification of one request: draft, open, moving, awaiting, completed, closed | implemented by `RequestLifecycle` and by the rows of `BoxReservations` |
| `RequestLifecycle`, `RequestLifecycleProofs` | one request row under every operation, several users with their own copies; the proofs also cover `InboundCompletion` | `RequestPhases` |
| `BoxReservations`, `-MC`, `-Proofs` | boxes, requests and warehouses together, one committed operation per step | `RequestPhases` |
| `ReservationTxn`, `-MC`, `-Proofs` | the row locks and statements of reserving, editing, intake and archival | |
| `InboundCompletion`, `-MC` | preview, confirmation and repetition of one inbound completion | proved in `RequestLifecycleProofs` |
| `PurgeCleanup` | the purge ledger and the deletion of stored objects after a purge | implemented by `LotGraph` |
| `LotGraph`, `-MC`, `-Proofs` | lots, pallets, boxes, files and request items; merges, purges, previews, labels; the proofs cover `PurgeCleanup` too | extends `PurgeCleanup` |
| `BoxFileOrders` | the positions of files in boxes, statement by statement | proved in `SequentialProofs` |
| `RequestOutbox`, `RequestOutboxProofs` | the outbox of request e-mails and the passes that drain it | |
| `InventoryAlerts`, `-Proofs` | evaluation of alerts and dispatch of their opening e-mails | |
| `ProductivityDispatch`, `-Proofs` | the leases and attempts of the daily reports | |
| `OrderSuggestion` | the arithmetic of the order suggestion | proved in `SequentialProofs` |
| `SequentialProofs` | theorems on the two modules in which nothing is concurrent | `BoxFileOrders`, `OrderSuggestion` |

Definitions marked *Mutant* in the modules are wrong variants of the definition that
follows them. They show that the properties notice such a mistake.

### RequestPhases

The six phases the rest of the tracker distinguishes (`ACTIVE_REQUEST_STATUSES`,
`BLOCKING_REQUEST_STATUSES`, `models/requests.py`) and the steps between them. It is the
interface between the two detailed modules: `RequestLifecycle` implements it status by
status (`PhaseRefinement`), and each row of `BoxReservations` follows it
(`RequestsFollowPhases`).

### RequestLifecycle

Variables correspond to columns and rows: `status`, `version`, the open exception with
its `resume_status`, the set of current document types, and `header` for what never
changes (direction, origin, requester, review rules). `seen[u]` is the version a client
holds and would send as `expected_version`; `view[u]` is a history variable with the
state that client saw. An operation is one step: `_locked_request`, `_check_common`, the
role, the exception and the status checks, one commit. A refused call changes nothing
and is no step.

`approve_request` is the exception. It loads the row with `db.get` before
`_locked_request` selects it `FOR UPDATE`. The session's identity map keeps the
attributes of the first load (the select does not set `populate_existing`), so the
checks after the lock read the earlier row. It is modelled in two steps,
`LoadForApproval` and `ApproveRequest` or `FinalizeStagedReceipt`, with the loaded copy
in `candidate`. The constant `OverlappingApprovals` says whether another transaction may
commit in between.

Left out: which warehouses a user may access, texts, time windows, SLA dates, the
contents of documents; the warehouse's two-person threshold stands still. The admin
override of a reserved box (`_cancel_active_returns`) is an action of the environment.

### BoxReservations

`box`, `request` and `active` are the `Box` rows, the `BoxRequest` rows with their items,
and `Warehouse.is_active`. A step is one committed operation: creations, completed and
staged receipts, completion of both directions together with the follow-up it creates,
box edits, moves, deletions and their admin overrides, file changes of reserved boxes,
archiving and restoring warehouses. Reading operators carry the code's queries:
`Candidates` is `_return_candidate_stmt` with `_allocated_return_ids`, `Linked` is
`_referencing_request_ids`, `Reserved` is `_active_return_request_stmt`.

Left out: roles and warehouse access (somebody is always allowed to do what the rules
allow), lots, pallets, files and contents; a receipt's boxes and the boxes of an inbound
completion are any sets of identities. The capacity is a constant, which only
`finalize_staged_receipt` enforces, as in the code. Steps are atomic: the interleavings
inside a transaction are the subject of `ReservationTxn`.

### ReservationTxn

Each member of `Txns` runs one transaction: `create_request` for a return,
`submit_follow_up_draft`, a status edit without override (`update_box`), an intake
(`create_box`), or archiving or restoring a warehouse. `pc` is the statement a transaction
is at and `todo` the rows that statement has still to lock; `lock` has the holder of each
row. A locking statement takes its rows in the order of their ids (`LockNext`) and waits
for each. `cand` is the result of the selection of candidates: its condition, with the
sub-query on allocated boxes, is evaluated in `SelectCandidates`; when a row lock is
granted only the box itself is looked at again (`Take`), as PostgreSQL does at READ
COMMITTED. Commits and rollbacks release all locks (`Ends`). The tables (`ItemsOf`,
`WarehouseOf`, `Home`, `FilesOf`) are constants: boxes and files do not move here.

A reservation locks warehouses, source, candidates and at last the files of the selected
boxes (`SelectFiles`). An edit goes the other way: its change stays in the session while
`emit_inherited_box_file_events` locks the files of the box (`GuardEdit`; the sessions have
`autoflush=False`), the flush then locks the box (`FlushEdit`), and the `BoxEvent` of that
flush waits, by its foreign key, until nobody holds the warehouse (`WriteBox`), like a new
box (`InsertBox`). `Awaits` says for which row a transaction waits, and `DeadlockVictim`
is PostgreSQL rolling back a member of a circle of waits.

Which transactions can interleave depends on the deployment. Handlers declared `async`
run their synchronous database calls on the event loop, so two of them interleave only in
different API processes (several replicas, or the old and the new one while a release is
rolled out; the comments on claims and locks assume several). Handlers declared `def`,
warehouse archival and restoration among them, run in worker threads and interleave with
everything else in a single process.

Left out: locks on lots, which these transactions share; intake onto a pallet, which
locks the lot alone and then the pallet (section 4); admin overrides; completion of
returns (`BoxReservations` has it); rows vanishing.

### RequestOutbox

`row` is the outbox table; `pass[w]` is the loop of `dispatch_request_email_outbox` in
process `w`, one action per transaction: `Claim` (`_claim_next_outbox`), `Check` with
`Release` or `Discard`, `Reserve` (`_reserve_claimed_attempt`), `Send` (the call of the
transport, outside any transaction), `Finalize`. Every write after the claim is the
code's conditional `UPDATE ... WHERE email_claim_token = ...`: if its guard fails it
changes nothing and the pass goes on (`Write`). A pass reads the clock once; so ages are
relative to the pass, and a claim made late in a pass is as old as the pass. `Abort` is a
crash or an exception at any point. `calls` and `accepted` are history variables.

Left out: who is notified and the wording, the copies shown in the application,
`mark_overdue_requests`, and the removal of rows when a lot is purged.

### InboundCompletion

`review` is the preview on the requester's screen with its impact, `txn` the completion
that runs, `request` the status, version and completion key of the request. The tables
are the stock of one lot: boxes with warehouse, status, archive mark and pallet; pallets;
files; boxes reserved by returns. `Impact` is `_classify_inbound_completion`; equality of
impacts stands for equality of the signatures computed from them.

A completion is two steps. `BeginCompletion` takes the locks of request, warehouse and
lots and reads boxes and pallets; `FinishCompletion` classifies again and places the rows
one after the other (`PlaceRow`), then commits or rolls back. In between, operations that
do not lock the lot may commit (`OverlappingEdits`): edits, moves and forced deletions of
boxes, reservations, pallet operations. The completion goes on with the copies it has of
boxes and pallets, because the locking select does not refresh rows the session holds;
reservations and files it reads afterwards (`Seen`). `Reply` is the answer to a repeated
call: its idempotency key decides.

Left out: versions of pallets and files other than the comparison of a written pallet
with its reading, pallets given by id, lists over several lots, legacy contents, rows
removed altogether, snapshots, the follow-up (it is in `BoxReservations`) and positions
(they are in `BoxFileOrders`). "later" stands for every status after received. The
operations in between create no pallet and put no received box on one, so the pallets
`Impact` says a completion will create are never created by another transaction first.

### LotGraph and PurgeCleanup

`lot`, `pallet`, `box`, `file` and `request` are functions from the identities of live
rows; an identity is never reused and `retired` collects those of deleted rows, whose
barcodes are retired in the same transaction. Receipts (completed at once or staged and
finalized) create lots and pallets on demand and restore archived boxes; returns,
hand-overs, box, file and pallet operations, renames, merges and both purges are one step
each, since each locks its lots first. `Eligible` joins the blockers of the ordinary
purge. `Merge` resolves boxes of one number (`Survivor`, `Loser`), pallets of one number
(`Combined`, `FinalPallet`) and files of one reference (`FileClashes`, `KeptFile`) and
relinks the request items. `PurgeSignature`, `ForceSignature` and `MergeSignature` hold
what the previews sign, `PurgeImpact`, `ForceImpact` and `MergeImpact` what the
operations then do (`RelinkedItems`: every item a merge changes); `Scanned`, `ResolvedLot` and `ResolvedPallet` are `resolve_barcode`.

An inbound receipt may name a box of its number that is archived; the code also relocates
one that is active and received, which is the same as a move before the receipt.

Left out: statuses of boxes between held, returned and archived; who may do what; the
texts of blockers and warnings. Reservations, quantities of deliveries and warehouses are
in `BoxReservations`.

`PurgeCleanup` is the part of `cleanup_lot_purge_objects` that runs after the commit: two
transactions with the deletions between them, each of which may fail, each call of which
may die. An upload is one step with the commit of the rows that name it: when the commit
fails the router deletes the objects again, and a crash between the two, which leaves an
object nobody names, is not modelled. Keys are unique per row. `LotGraph` implements
`PurgeCleanup` (`CleanupRefinement`): its receipts upload, its purges write ledger rows
with exactly the keys no remaining row names.

### BoxFileOrders

`table` is `box_files` with box, position and archive mark. An operation is the list of
the flushes of its session; `Collides` tells whether writing a flush row by row, in the
order of the ids, meets the unique position of a row not written yet. The files of a box
are numbered from 1, the active ones first (`Orders`); where the code's sort leaves ties
any order is allowed. The constant `Relocations` says whether intake may move files into
a box that already holds some.

### InventoryAlerts

`alert` is the table of incidents with the recorded attempts of their opening e-mail,
`evaluation[e]` the open transaction of an evaluator (a request hook or the minute job of
a process) and `sender[s]` the dispatch pass of a process. An evaluation reads the
inventory once (`BeginEvaluation`), looks at the open alert of each warehouse
(`Reconcile`; the partial unique index makes a second opening wait) and commits. A
dispatch pass claims the first due incident, checks, records the attempt before it calls
the transport, sends, records the result. The claim is a time stamp in the code; here it
is the process that wrote it and its age.

Left out: all but one alert type, acknowledgements and test e-mails, waits for row locks
between transactions that change the same incident, the conditions of archiving a
warehouse. The select that skips locked rows is never left empty-handed here.

### ProductivityDispatch

Two jobs (daily and every minute) run the same tick in every process; each is a worker.
A report is one warehouse on one day, and a row not inserted yet is one without attempts.
A claim increases the attempts, so the attempt number stands for the random token.
`LeaseEnds` and `DelayOver` are the passage of time. `unsure` marks a report that met
what nobody can tell from a failure: a lost answer, a death between answer and record, a
holder slower than its lease. Calls with explicit recipients occur in tests only and are
left out. The next day's ticks never retry yesterday's report, and a worker that dies on
the last attempt leaves its row claimed for ever; so no liveness is stated.

### OrderSuggestion

Pure operators after `calculate_suggestion`: what is observed (`Observe`: stock, open
requests, consumption of 30 and 90 days), the forecast and its fallback, the suggested
quantity. The code divides decimals of 28 digits and rounds up; when the exact demand is
whole, the quotient may end just above it and one more box is asked for. So
`LeadTimeDemands` is the set of the demands the code may arrive at, and the theorems hold
for each.

## 3. Runs

| run | instance | shows |
|---|---|---|
| `lifecycle` | an admin and a mover, every kind of request, ten versions, no overlapping approvals | `VersionIdentifiesState`, `ExceptionIsRecoverable`, `PhaseRefinement` |
| `reservations` | database with at most one box of an earlier release, two boxes, two warehouses, two requests, inbound quantity up to two, capacity one | `ReservedBoxesReady`, `ArchivedWarehouseQuiet`, `LinkedBoxesKept`, `QuantityConserved`, `RequestsFollowPhases` |
| `returns` | two boxes ready to return, one of them received twice, two receipts and three more requests | `ReservationExclusive`, `AllocationComplete` |
| `txn_serial` | three transactions of any kind; two boxes, one with a file, three source requests of which two share a box, drafts on the third | `ReservedOnce`, `ReservesReady`, `ArchivedUnneeded`, `OnlyEditsDeadlock` |
| `completion` | two box numbers, a pallet, a file, two keys, two lists, two edits by others, overlapping | `RepeatsAnswered`, `CompletesAsReviewed`, `ReservedUntouched` |
| `completion_pallets` | two pallets, one list, nobody else | `NoLateRefusal` is violated |
| `lots_merge` | two lots, two pallets, three boxes of which two share a number, two files of one reference, one staged receipt | `GraphClosed`, `IdentitiesUnique`, `LabelsLead`, `ActiveBoxOnActivePallet`, `BarcodesRetired`, `ActiveBoxSurvives`, `ConfirmedMerge` |
| `lots_purge` | two lots, three boxes, two requests of any kind, one with a document, the other with a photo, two ledger rows, two cleanup calls | `TypeOK`, `ProvenanceKept`, `CountsAgree`, `PurgeConfined`, `PlainPurgeKeepsProvenance`, `ConfirmedPurge`, `CleanupRefinement` |
| `file_orders` | two boxes, four files, up to two taken in at once | `NoTransientCollision`, `ActiveFirst` |
| `outbox_overlap` | one e-mail, three processes, passes twice as long as the lease, an abort, lost answers | `OneCallPerAttempt`, `OwnerWrites` |
| `outbox_timely` | two e-mails, two processes, passes no longer than the lease, one abort, a faithful transport; fair | `SendsOnce`, `EveryRowSettles` |
| `alerts` | one warehouse, two evaluators, two processes, two attempts, three incidents, two events or mishaps; fair | `MailPerIncident`, `IncidentsAnswered`, `AlertsFollowInventory` |

Further configurations are kept for readers; TLC runs them like the others:

| configuration | module | outcome |
|---|---|---|
| `ProductivityDispatch.cfg` | `ProductivityDispatch` | `TypeOK`, `SentOnce`, `RecordTrue`, `SentIsRecorded` hold with two reports, two workers, three attempts |
| `RequestLifecycleHold.cfg` | `RequestLifecycle` | `HoldBlocksLifecycle` is violated |
| `RequestLifecycleOverlap.cfg` | `RequestLifecycle` | `OnlySubmittedApproved` is violated |
| `ReservationTxnDrafts.cfg`, `-Edit.cfg`, `-Intake.cfg` | `ReservationTxnMC` | `ReservedOnce`, `ReservedStaysReady`, `ArchivedEmpty` are violated |
| `ReservationTxnDeadlock.cfg` | `ReservationTxnMC` | `NoWaitCycle` is violated: an edit and a creation wait for each other |
| `RequestOutboxSlowPass.cfg` | `RequestOutbox` | `SendsOnce` is violated |
| `LotGraphMoved.cfg` | `LotGraphMC` | `RelinkedAreSigned` is violated |
| `BoxFileOrdersIntake.cfg` | `BoxFileOrders` | `NoTransientCollision` is violated |
| `InventoryAlertsArchived.cfg` | `InventoryAlerts` | `ArchivedSilent` is violated |

Every state module has a type invariant. It is an invariant of `lots_purge`; everywhere else it
is a theorem (section 5), and no run repeats it.

**Bounds.** `MaxVersion` bounds the commits of a behaviour: ten let a request be
documented, go through the whole lifecycle, fail once, be retried and completed. Two users
are enough for one to act while the other's copy is stale, and the two roles are apart:
the admin is not a mover. With two requests `reservations` reaches an inbound request or
receipt followed by a return of its boxes, or by its backorder. `returns` starts after the
receipts, where two source requests share a box, and its three further requests allow two
concurrent returns and the draft of a partial one. Two boxes make a partial collection
possible, two warehouses a target other than the source and an archive. Boxes and
warehouses are symmetric in `reservations`, where no value of them is named.

In the `txn` runs three transactions let two compete while a third changes what they
looked at; each runs once, so these runs end and do not check deadlock. Who can wait in a
circle for the locks is what `OnlyEditsDeadlock` states; three transactions make circles
of two and of three.

In `completion` two edits (`MaxEdits`) let one change the stock between preview and
confirmation and another between the first read and the locks; two keys tell a repetition
from another call. The lists (`Deliveries`) have one row with a file, and two rows one of
which names a pallet; `completion_pallets` needs two pallets and no edits.

In `lots_merge` a merge meets a collision of every kind: boxes of one number, pallets of
one number, files of one reference; lots are created with the receipt or empty; two lots and the identities used up
by deletions allow a merge followed by new rows. Which lots and boxes were "worked" on is left out of its
view: it matters only to ordinary purges, which staged receipts block. `lots_purge` has no
pallets or files, but requests of every kind that share lots, returns that descend from
receipts, and objects to clean up; two calls overlap on one ledger row and two ledger rows
follow each other. `ReceiptSize` bounds the boxes of one receipt, `Kinds` and `NewNames`
what happens in each run. Boxes, lots, ledger rows and workers are symmetric where no
value of them is named and no property speaks of time.

In `file_orders` four files in two boxes give moves in both directions, archived files
between active ones and gaps left by deletions.

In the outbox runs `MaxAborts` bounds the crashes and `MaxPass` the length of a pass in
ticks; with a lease of one tick, passes of one and two ticks are the two cases that
differ. Three processes let one take a row over twice. In `alerts` `MaxTrouble` bounds
stock moves, appointments, archivals, failed or overlapping evaluations, crashes, overrun
claims and lost answers together, `MaxIncidents` the incidents; a claim runs out one tick
after it was made, and a process that is still working then is counted as a mishap.

**Deadlock** is not checked where behaviours really end: transactions that run once, a
request that is completed, tables whose bounded identities are used up, alerts with
nothing left to do.

**Fairness.** `outbox_timely` and `alerts` use a `FairSpec`, because the scheduler starts
each job again and again (the outbox and the evaluation every minute, the sending of alerts every
five) and runs it to its end (the mail call has a timeout), back-offs
and claims expire and time goes on. Nothing obliges a recipient to stay reachable, the
transport to accept, stock to move or a user to act. `EveryRowSettles` is checked with
passes within the lease: if every pass dawdled longer than a lease between claim and
reservation, two processes could take a row from each other for ever. In `alerts` crashes
and late claims are bounded by `MaxTrouble`, so they end. The rest are safety properties.

## 4. Known disagreements

What the code does here differs from what its documents, comments or purpose say. The
first is a run, those with a configuration can be replayed, the others were met while
modelling.

* **A reviewed completion is refused after all** (`completion_pallets`). `complete_request`
  resolves the pallet of each row while it places the rows. When an earlier row takes the
  only box off pallet P, P is archived at once and a later row that names P is refused,
  although the classification, under the same locks, found the pallet usable. Every retry
  ends the same way.
* **A hold on a submitted request** (`RequestLifecycleHold.cfg`). `approve_request` and
  `reject_request` do not look for an open exception. The hold survives the approval, and
  from then on `resume_request` refuses (the status is not the recorded one) and every
  other step refuses (the exception is open): only an admin override can still end the
  request. `ExceptionIsRecoverable` states what does hold: every exception but a hold of a
  submitted request can be left again.
* **Overlapping approvals** (`RequestLifecycleOverlap.cfg`). A request that was rejected or
  cancelled between the load and the lock of an approval is approved from the stale copy,
  and its version repeats one already used.
* **Drafts** (`ReservationTxnDrafts.cfg`). A draft submitted with a new selection locks its
  source request and its candidates, not the warehouse. Two reservations through different
  source requests of a shared box both evaluate the condition before either commits; the
  one that waits for the row does not evaluate the sub-query again.
* **Edits** (`ReservationTxnEdit.cfg`). `update_box` works on a box it read without a lock:
  its check for active returns and its check of the transition are stale when it writes.
* **Intake** (`ReservationTxnIntake.cfg`). `ensure_active_warehouse` takes no lock, and the
  foreign key of the new box only waits for the archival.
* **Edits against reservations** (`ReservationTxnDeadlock.cfg`). `create_request` locks the
  warehouses, the source, the candidates and the files in this order
  (`services/requests.py:1363-1374`, `1405-1409`, `1474`); its comment says that it does not
  deadlock with the archival (`1359-1362`), which holds. A status edit locks the files, the
  box and, through its event, the warehouse (`services/boxes.py:1065`,
  `models/boxes.py:211`): the edit of a box and a reservation that selects it can each wait
  for the other, over the warehouse and the box or over the box and its files, and
  PostgreSQL aborts one. `OnlyEditsDeadlock` states that the other transactions modelled
  in `ReservationTxn` never make a circle.
* **Slow passes** (`RequestOutboxSlowPass.cfg`). The claims of a pass carry the time the
  pass began. Once the pass lasts longer than the lease, other processes take over the row
  it is sending.
* **Intake into a box with files** (`BoxFileOrdersIntake.cfg`). `_persist_orders` moves
  changed rows out of the way to "avoid transient unique collisions"
  (`services/box_files.py:566`). At intake the box of a moved file is already changed in
  the session: one whose old position equals its final one does not count as changed, is
  given no temporary place, and may meet a row that still holds the position. It takes a
  relocated box that has files of its own.
* **Items a merge changes unsigned** (`LotGraphMoved.cfg`). The signature of a merge lists the items
  whose lot or box is of the two lots. The merge also relinks items that lie on a combined
  pallet (`services/lots.py:5959`), and after a box was absorbed and its survivor moved on,
  such an item may be of neither lot. README.md:589 says that the signature records the
  affected IDs. What the merge deletes, moves and gives another box is signed, which
  `ConfirmedMerge` states and a theorem proves.
* **Alerts of an archived warehouse** (`InventoryAlertsArchived.cfg`). "Archiving ...
  resolves open alerts" (`README.md:126-128`), but an evaluation that read the inventory
  before inserts its alert after the archival, and nothing evaluates the warehouse again
  until it is restored.
* A sender that outlives its claim still records its attempt as sent but no longer owns the
  row, and the reservation of the new owner is then refused without a release: the e-mail
  is sent once, but `notified_at` stays empty until a later pass heals the row, and for
  ever when the incident is resolved before. The client shows "Never"
  (`AlertDetailPage.tsx:121`).
* An evaluation with an old reading can resolve an incident that a newer one would keep;
  the next evaluation opens another, with another e-mail. `AlertsFollowInventory` states
  that this comes to rest.
* The order suggestion can be one box too high when the exact demand is whole (weights 70
  and 30, 50 events in 30 days, 230 in 90, a lead time of 210 days: 406 boxes exactly, 407
  computed). The fallback suggestion is not capped by the capacity, and boxes that arrive
  into quarantine are neither pending nor available, so the gap is suggested again.
* Other deadlocks: two completions on one lot hold it `FOR SHARE` and then ask for it
  `FOR UPDATE`, and so do two intakes onto pallets of one lot; such an intake also holds the lot
  (`services/pallets.py:628`) while its box waits for the warehouse, which a creation holds
  while it asks for the lot; two pallet moves in opposite directions lock the target before
  the sources. PostgreSQL aborts one of each pair. None is modelled.

Handlers declared `async` interleave only in different API processes, so the approvals,
drafts, edits (and their deadlock) and slow passes need two of them; holds, intakes, completions and the
evaluation beside an archival, which is served by a worker thread, need one.

## 5. Proofs

Eight modules hold theorems, checked by TLAPS for all values of the constants that meet
the named assumptions.

`RequestLifecycleProofs` proves type correctness outright and, under the assumption
`~OverlappingApprovals`, the other properties of the `lifecycle` run, for any sets of
users, admins and movers and any version bound. The invariant `SerialInv` joins two
parts. `RowInv` (the recoverable exceptions, the documented transport, and that a draft
has no exception) is kept because each operation either leaves the status
(`StatusKept`), leaves `submitted` (`SubmittedLeft`), or moves while no exception is open
(`UnheldMove`). `VersionInv` says that nobody has seen a later version than the row's,
and that at most one approval is running and its copy is the row: that is why its commit
is a commit like the others (`ApprovalCommits`). The refinement theorem maps each of
these shapes to a step of `RequestPhases` or to a stutter.

The same module proves of `InboundCompletion`, for any boxes, pallets, files, keys, lists
and interleavings, that the tables stay well formed (`CompletionTypeCorrect`), that a
completion does exactly what the signed preview said (`ReviewedThenDone`), that it leaves
alone what a return reserved while it ran (`ReservedStays`) and that a call is told
"completed" only with the key that completed the request, which is never refused
afterwards (`RepeatsAreAnswered`). The completion works on copies of rows it read before
it locked them, so the invariant must say what a copy is still good for: by `CopiesInv` the
copied boxes are exactly the boxes of the list that are in the lot, and the copied pallets
those of the lot, until the completion ends, because whoever adds a row takes the lot's
lock. The rows are placed one after the other, by a fold in the order of box numbers;
`AllPlaced` shows by induction on the rows placed (`WellPlaced`) that statuses and archive
marks stay, that only boxes of the list are created or change warehouse, and that a file
changes only to lie in the row that names it.

`BoxReservationsProofs` proves, for any finite set of boxes and any warehouses and
bounds, that states are well typed, that no box is reserved by two active returns, that
reserved boxes stay collectable, and that whoever changes a reserved box ends its
reservation in the same step. `ReservationExclusive` is not inductive alone:
`Candidates` leaves out only the boxes allocated by returns *of the same warehouse*, so a
second reservation is excluded only because a reserved box is still in the warehouse its
return collects from (`ReservedBoxesReady`), and because a return keeps the warehouse of
the inbound request it was selected through (`SourceKept`). `IInv` is the conjunction.
The other invariants follow from what a step does to one row: `RowEffect` lists the six
ways an operation changes a request (it moves a phase, finishes, takes a new selection, or
is created as an inbound request, a return or a follow-up), `BoxEffect` and
`WarehouseEffect` the same of boxes and warehouses, and `StepEffect` proves every action of
`Next` to be one of them. With them `KeptInv` is inductive, which adds to `IInv` that
archived warehouses are quiet, that no linked box is missing, that every return names a
completed inbound request that holds its boxes, and that drafts are returns, so that the boxes a submitted draft selects are those of its
source. Archived
warehouses are quiet, linked boxes kept, allocations complete, and each row takes only
steps of `RequestPhases`, whatever the operation was about.

`ReservationTxnProofs` proves, for any number of transactions and any tables, type
correctness, that a request reserves boxes that are ready at its commit, that a warehouse
stays active, and that reservations are exclusive under `Serialised`: either no drafts
are submitted or no box belongs to two source requests. The invariants are about locks.
`Held` says which warehouse and source rows a reserving transaction has at each
statement, `Selected` that a candidate whose row is locked is ready, `Unreserved` that no
candidate is reserved by an active request. `Unreserved` survives the commit of another
transaction because two that select the same box would hold the same lock: the source's
if it is the same source, else, both being creations, that of the box's warehouse.
`Archiving` says that an archival holds all warehouses from its count to its commit. With
it `Claims` proves that archived warehouses are not needed (`ArchivedUnneeded`): a creation
holds the warehouses it found active, what a draft needs is counted all along, and at the
commit of an archival nothing needs its warehouse. Who can wait in a circle
(`OnlyEditsDeadlock`) is proved for any finite tables from `LocksInOrder`, which says for
each statement what tables its transaction holds rows of and which it asks for. Without
edits at their write every transaction asks only for rows above those it holds, counted
from warehouses over sources and boxes to files; without reservations at their boxes or
files, counted from files over boxes and warehouses to sources. `NoCircle` does the rest
for any such order: of the rows a circle waits for, one has the fewest above it, and its
holder waits for one of these.

`RequestOutboxProofs` proves, for any rows, processes, caps, leases and pass lengths, that
the transport is called at most once per reserved attempt (`Reservations`: a pass that
will call it has an attempt of its own, on which no call was made) and that the sent mark
is true. That an e-mail is accepted once, and a discarded one never, is proved under
`Timely`: passes end within the lease, are not cut short, and answers are faithful. Then
a pass that works on a row holds its lease (`Exclusive`), and `Delivery` relates what was
accepted to what the holder is about to record. That nobody but the holder of a running
lease changes its row (`OwnerWrites`) needs none of this, only that every write carries the
token (`OwnWrite`) and that only queued rows are claimed.

`LotGraphProofs` proves, for any lots, pallets, files, requests and object keys and any
finite set of boxes, every property of `lots_merge` and `lots_purge`. It assumes what identities and keys are: identities of two tables are never confused, and a
document or photo has a key of its own (`IdentitiesAssumption`, `KeysAssumption`).
`GraphInv` is the inductive invariant. Beyond the properties it says that an item always
names an unmerged lot, that absorbed pallets are archived, that retired identities are not
used again, what an open, staged or completed request counts, and that the keys the cleanup
counts as referenced are those of the rows. The hard step is the merge: a box number, a
file reference and a pallet number may each exist on both sides, so the lemmas go table by
table from the rows that stay (`Survivor`, `KeptFile`, `FinalPallet`) to the items that
must follow them. `LosesTo` states what a forced purge leaves of a request. The action
properties follow from it with lemmas on what one step does to labels, boxes and purged
lots. That equal signatures mean equal effects (`ConfirmedPurge`, `ConfirmedMerge`) is
proved of any two states, so what happens between preview and confirmation does not matter.
That every label leads to a row in use (`EveryLabelLeads`) rests on `LabelsChained`. The
links of lots, and those of pallets, have no cycle: every nonempty set of rows has one whose
link leaves the set (`Grounded`). A pallet is absorbed exactly when its lot was merged, and
by a pallet of a lot its own lot leads to (`Reaches`, said with sets closed under links).
Steps of three kinds keep this: most add rows without links (`GrowthCases`), a merge
points one unmerged lot and its pallets at another and at pallets there (`MergeChains`), and
a purge drops rows to which nothing points (`DropChains`). A walk of as many steps as there
are rows then ends: had it not, it would have visited more rows than exist (`ChainEnds`),
and the walks of a pallet and of its lot end in the same lot (`ChainsMeet`).
`StoreRefined` maps the steps of the tables to steps of `PurgeCleanup`: a purge frees
exactly the keys of the rows it deletes because the keys of those it keeps are disjoint;
so the theorems of `PurgeCleanup` hold of lots (`PurgedObjectsGone`).

`LotGraphProofs` also proves, for any keys, calls and ledger rows, that a completed cleanup
has removed its objects, that every stored object is named by a row or by a ledger that is
not settled, and that completion is final. `CleanupInv` joins types and
`StoredIsAccounted` with `RowsTruthful` (what a settled row, or one with a retry list,
does not name as failed is gone) and `CallsTruthful` (a call has deleted what it has
neither still to try nor failed to delete). Without the last the end of a slow call, which
overwrites the failures another one recorded, could not be justified.

`ProductivityDispatchProofs` proves, for any reports, workers and attempt limit, types,
that a report is e-mailed at most once unless it met a mishap, that a report recorded as
sent was sent, and that one that was sent is recorded or about to be by its holder.
`IInv` joins types with `Holders` (a worker with a positive answer has sent its report),
`Recorded` (a report recorded as sent was sent and carries no claim) and `Sure`: a report
without mishap has at most one holder, whose token is the row's and whose lease runs, and
what was sent is recorded or known to that holder. So nobody else sends it.

`InventoryAlertsProofs` proves, for any finite set of warehouses and any evaluators,
senders, incidents and attempt limit, types and that an incident is announced once while no
mishap happened and at most as often as attempts are allowed with them (`MailPerIncident`).
Calls of the transport are counted against the recorded attempts: a sender that reserved an
attempt and has not called owns one call. Without a mishap at most one sender holds an
incident, its claim is the row's, and what was accepted is recorded or about to be by it.

`SequentialProofs` proves of `BoxFileOrders`, for any boxes and files and any sequence of
operations, that in every box the active files come first (`ActiveFilesFirst`) and, under
`~Relocations`, that no statement of a flush meets the unique position of another row
(`FlushesNeverCollide`). The invariant `FilesInv` has positions unique in a box (`Separate`)
and the active files ahead. A flush that first moves the changed rows out of the way is
apart from the table it is written over (`ApartFlush`), and the second writes positions
that are distinct and free. The hypothesis is the deployment constant of the module: with
relocations the property is violated (section 4).

Of `OrderSuggestion`, which has operators and no steps, it proves that ordering what is
suggested and asking again suggests nothing (`OrderedOnce`), arrivals leave the suggestion
alone (`ArrivalNeutral`), a forecast's suggestion fits the capacity (`ForecastFits`), restores
the minimum unless capped or adjusted down (`MinimumRestored`), grows with it
(`MinimumMonotone`); the displayed reason and the decision agree (`FallbackExplained`);
no lead time, no demand (`NoLeadNoDemand`); the rounding moves the demand by one box at
most (`DemandCovered`); observed figures are consistent (`ObservationConsistent`).

**Sums, folds and walks.** The operators of the community modules that fold over a set are
recursive functions, and the induction theorems that take an operator cannot be used. Where
a proof needs one, it states the fact to be shown of a number as membership in a set of
numbers, applies induction in the form of a theorem on sets (`AllNumbers`: a set of numbers
that holds 0 and the successor of each of its members is all of `Nat`), and shows that the
recursive function exists by building it in stages (`FoldExists`). So the quantities of a
family (`QuantitiesAddUp`), the placement of rows (`AllPlaced`) and the walks along merges
(`EveryLabelLeads`) are proved for any number of follow-ups, rows and merges.
In `QuantitiesAddUp` a request enters a family or changes its share
together with the follow-up that asks for the rest, so that the sum is kept by each step.

Only model-checked: `EveryRowSettles`, `IncidentsAnswered` and `AlertsFollowInventory`
(liveness under fairness, out of the provers' reach).

## 6. Plan

1. An abstract delivery specification that the three dispatchers implement.
2. Bulk operations and import rows with their savepoints; `mark_overdue_requests`; the
   locks of pallet moves and of completions.

## 7. Not modelled

Migrations and scripts run offline; exports, dashboard, spreadsheets and previews are
read-only or formatting; object storage and mail are thin clients whose failures belong
to the modules that call them; the web client keeps no authoritative state (only the
confirmation of a completion is modelled); tokens and passwords are library code.
Productivity entries and employees are upserts of one transaction each. Live events only
tell clients to fetch again. Bulk operations and imports are sequences of operations that
are modelled; the savepoint of each row is not.
