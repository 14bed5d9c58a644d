-------------------------- MODULE ReservationTxnMC --------------------------
(***************************************************************************)
(* Values for the tables of ReservationTxn: warehouse 1 holds two boxes.   *)
(* A receipt named box 21 again after it was archived, so it belongs to    *)
(* two completed inbound requests, 11 and 12.  Box 22 holds the files.     *)
(* SerialSpec leaves out the drafts of requests 11 and 12, which the lock  *)
(* on the warehouse does not cover.                                        *)
(***************************************************************************)
EXTENDS ReservationTxn, TLC

AllAtOne  == [s \in Sources |-> 1]
AllHome   == [b \in Boxes |-> 1]
FileIn22  == [b \in Boxes |-> IF b = 22 THEN Files ELSE {}]
TwiceIn   == (11 :> {21}) @@ (12 :> {21})
TwiceInAndOnce == (11 :> {21}) @@ (12 :> {21}) @@ (13 :> {22})

SerialInit ==
  Init /\ \A t \in Txns : request[t] = "draft" => op[t].source = 13

SerialSpec == SerialInit /\ [][Next]_vars

Symmetry == Permutations(Txns)

=============================================================================
