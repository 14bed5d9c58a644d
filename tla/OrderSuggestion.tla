-------------------------- MODULE OrderSuggestion --------------------------
(***************************************************************************)
(* How many boxes the tracker recommends to order for a warehouse or to    *)
(* return from it, computed by calculate_suggestion from the warehouse's   *)
(* planning settings and from what it observes: the boxes in stock, the    *)
(* open requests and the consumption of the last 90 days.                  *)
(*                                                                         *)
(* The recommendation is a pure function, so the module has operators and  *)
(* no state; SequentialProofs proves what they guarantee.                  *)
(*                                                                         *)
(* The code computes the demand with 28-digit decimals and rounds it up;   *)
(* when the exact demand is a whole number the inexact quotients may end   *)
(* just above it, and one more box is ordered. LeadTimeDemands is          *)
(* therefore the set of the demands the code may arrive at, and the        *)
(* theorems hold for each of them.                                         *)
(***************************************************************************)
EXTENDS Integers, FiniteSets, FiniteSetsExt

AtLeast0(n) == IF n > 0 THEN n ELSE 0
Least(m, n) == IF m < n THEN m ELSE n

\* The least integer that is no less than n/d, n a natural and d positive.
CeilOf(n, d) == (n + d - 1) \div d

Available   == {"received", "processing"}
Unavailable == {"incomplete", "ready_to_return"}
Occupying   == {"quarantined"} \union Available \union Unavailable

\* The settings of a warehouse, within the bounds its table enforces.
Planning ==
    {p \in [minimum : Nat, capacity : Nat, lead : 0..365, safety : 0..500,
            weight30 : 0..1000, weight90 : 0..1000,
            adjusted : BOOLEAN, adjustment : Int] :
        /\ p.weight30 + p.weight90 > 0
        /\ p.adjustment >= -5000 /\ p.adjustment <= 5000
        /\ ~p.adjusted => p.adjustment = 0}

\* What one suggestion reads.  month and quarter count the consumption of
\* the last 30 and 90 days, days is how far back it reaches.
Observed ==
    [available : Nat, occupied : Nat, pending : Nat, returning : Nat,
     eligible : Nat, month : Nat, quarter : Nat, days : 0..90]

-----------------------------------------------------------------------------
(* What is observed.  A box is [id, at, status, archived]; a request has   *)
(* id, to, inbound, active, quantity, received, boxes, a transport window  *)
(* and a requested day, each of which may be None; an event has box, at    *)
(* (the warehouse), from, to, time and day.  A moment is [time, day]: an   *)
(* instant and its date in the application's time zone.                    *)

CONSTANT None

Outstanding(request) == AtLeast0(request.quantity - request.received)

DueBy(request, horizon) ==
    IF request.window # None THEN request.window <= horizon.time
                             ELSE /\ request.day # None
                                  /\ request.day <= horizon.day

OutstandingOf(requests) == MapThenSumSet(Outstanding, requests)

\* Two audit rows of one change of a box at one instant count once.
Distinct(events) ==
    {[box |-> e.box, from |-> e.from, to |-> e.to, time |-> e.time,
      day |-> e.day] : e \in events}

\* The last n days by the calendar of the application, today included.
Window(now, n) == (now.day - (n - 1))..now.day

\* Boxes of warehouse w that turned from available into unavailable within
\* the last n days.
Consumption(events, w, now, n) ==
    Distinct({e \in events : /\ e.at = w
                             /\ e.from \in Available
                             /\ e.to \in Unavailable
                             /\ e.day \in Window(now, n)
                             /\ e.time <= now.time})

HistoryDays(consumption, now) ==
    IF consumption = {} THEN 0
    ELSE Least(90, now.day - Min({e.day : e \in consumption}) + 1)

Stock(boxes, w, statuses) ==
    {b \in boxes : b.at = w /\ b.status \in statuses /\ ~b.archived}

ActiveAt(requests, w, inbound) ==
    {r \in requests : r.to = w /\ r.active /\ r.inbound = inbound}

Allocated(requests, w) ==
    UNION {r.boxes : r \in ActiveAt(requests, w, FALSE)}

\* leadEnd is the moment the warehouse's lead time ends.
Observe(boxes, requests, events, w, now, leadEnd) ==
    LET quarter == Consumption(events, w, now, 90) IN
    [available |-> Cardinality(Stock(boxes, w, Available)),
     occupied  |-> Cardinality(Stock(boxes, w, Occupying)),
     pending   |-> OutstandingOf(ActiveAt(requests, w, TRUE)),
     returning |-> OutstandingOf({r \in ActiveAt(requests, w, FALSE) :
                                    DueBy(r, leadEnd)}),
     eligible  |-> Cardinality({b \in Stock(boxes, w, {"ready_to_return"}) :
                                    b.id \notin Allocated(requests, w)}),
     month     |-> Cardinality(Consumption(events, w, now, 30)),
     quarter   |-> Cardinality(quarter),
     days      |-> HistoryDays(quarter, now)]

-----------------------------------------------------------------------------
(* The forecast. *)

Configured(p) == p.lead > 0 \/ p.safety > 0 \/ p.adjusted

EnoughHistory(o) == o.quarter >= 3 /\ o.days >= 30

ForecastApplied(p, o) == EnoughHistory(o) /\ Configured(p)

\* The demand of the lead time is DemandOver / DemandUnit boxes: the daily
\* rates of the two windows, weighted, times the days of the lead time.
DemandUnit(p) == 90 * (p.weight30 + p.weight90)

DemandOver(p, o) ==
    (3 * o.month * p.weight30 + o.quarter * p.weight90) * p.lead

\* Rounded up, or up from just above a whole number.
LeadTimeDemands(p, o) ==
    {x \in 0..DemandOver(p, o) :
        /\ DemandOver(p, o) <= x * DemandUnit(p)
        /\ (x - 1) * DemandUnit(p) <= DemandOver(p, o)}

SafetyStock(p, demand) == CeilOf(demand * p.safety, 100)

Target(p, demand) ==
    AtLeast0(p.minimum + demand + SafetyStock(p, demand) + p.adjustment)

CapacityAvailable(p, o) ==
    AtLeast0(p.capacity - o.occupied - o.pending + o.returning)

\* What is missing from a level of stock, open orders counted as stock.
Missing(level, o) == AtLeast0(level - o.available - o.pending)

InboundSuggestion(p, o, demand) ==
    IF ForecastApplied(p, o)
    THEN Least(Missing(Target(p, demand), o), CapacityAvailable(p, o))
    ELSE Missing(p.minimum, o)

CapacityCapApplied(p, o, demand) ==
    /\ ForecastApplied(p, o)
    /\ InboundSuggestion(p, o, demand) < Missing(Target(p, demand), o)

FallbackReason(p, o) ==
    IF o.quarter = 0          THEN "no_events"
    ELSE IF o.quarter < 3     THEN "few_events"
    ELSE IF o.days < 30       THEN "short_history"
    ELSE IF ~Configured(p)    THEN "not_configured"
                              ELSE "none"

ForecastConfidence(o) ==
    IF o.quarter < 3       THEN "insufficient"
    ELSE IF o.quarter < 10 THEN "low"
    ELSE IF o.quarter < 30 THEN "medium"
                           ELSE "high"

SuggestedQuantity(direction, p, o, demand) ==
    IF direction = "return" THEN o.eligible
                            ELSE InboundSuggestion(p, o, demand)
=============================================================================
