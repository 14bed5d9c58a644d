--------------------------- MODULE RequestPhases ---------------------------
(***************************************************************************)
(* What one box request promises the rest of the tracker: the phases that  *)
(* decide whether it reserves boxes, blocks a warehouse from being         *)
(* archived, may still be withdrawn, and may be completed.                 *)
(*                                                                         *)
(*   draft      a generated reselection that reserves nothing yet          *)
(*   open       submitted, approved, preparing or ready_for_transport      *)
(*   moving     in_transit                                                 *)
(*   awaiting   awaiting_confirmation                                      *)
(*   completed  completed                                                  *)
(*   closed     rejected or cancelled                                      *)
(*                                                                         *)
(* RequestLifecycle implements this module status by status;               *)
(* BoxReservations gives every request row one of these phases.            *)
(***************************************************************************)

VARIABLE phase

Phase == {"draft", "open", "moving", "awaiting", "completed", "closed"}

\* ACTIVE_REQUEST_STATUSES: these hold return reservations.
ActivePhases == {"open", "moving", "awaiting"}

\* BLOCKING_REQUEST_STATUSES: these keep a warehouse from being archived.
BlockingPhases == {"draft"} \union ActivePhases

FinalPhases == {"completed", "closed"}

Goes(from, to) == phase = from /\ phase' = to

-----------------------------------------------------------------------------

\* A receipt that needs no review is inserted completed.
Init == phase \in {"draft", "open", "completed"}

Submit   == Goes("draft", "open")          \* a reselection draft is submitted
Dispatch == Goes("open", "moving")         \* transport starts
Retry    == Goes("moving", "open")         \* a failed transport is retried
Arrive   == Goes("moving", "awaiting")
Complete == Goes("awaiting", "completed")
Finalize == Goes("open", "completed")      \* a staged receipt is reviewed
Withdraw == Goes("open", "closed")         \* rejected or cancelled
Override == phase \in ActivePhases /\ phase' = "closed"  \* admin override

Next == \/ Submit \/ Dispatch \/ Retry \/ Arrive
        \/ Complete \/ Finalize \/ Withdraw \/ Override

Spec == Init /\ [][Next]_phase

=============================================================================
