----------------------------- MODULE LotGraphMC -----------------------------
(* Instances of LotGraph: see README.md for the bounds. *)
EXTENDS LotGraph, TLC

CONSTANTS l1, l2, l3, l4, p1, p2, b1, b2, b3, b4, f1, f2, r1, r2, k1, k2, w1, w2

(* A lot is created under a name of its own, renamed to that of l1. *)
MCLotName == [l \in Lots |-> l]

(* All boxes but one share their number. *)
MCBoxNumber == [b \in Boxes |-> IF b = b2 THEN 2 ELSE 1]

(* Merges: what else may collide does, and is interchangeable. *)
MCSameLabel == [p \in Pallets |-> "P"]
MCSameReference == [f \in Files |-> "R"]
MCMergeSymmetry ==
    Permutations(Requests) \cup Permutations(Files) \cup Permutations(Pallets)
        \cup Permutations(Boxes \ {b2}) \cup Permutations(Lots \ {l1})

(* Staged receipts stand in the way of ordinary purges, so that it makes no *)
(* difference which lots and boxes were worked on.                         *)
MCMergeView ==
    <<[l \in DOMAIN lot |-> <<lot[l].name, lot[l].into>>], pallet,
      [b \in DOMAIN box |-> <<box[b].lot, box[b].pallet, Active(b)>>], file,
      request, retired, ledger>>

(* Purges: r1 has a document, r2 a photo of a missing box. *)
MCKeyOf == [r \in Requests |-> IF r = r1 THEN Keys \ {k2} ELSE {}]
MCPhotoOf ==
    [r \in Requests |-> [b \in Boxes |-> IF r = r2 /\ b = b2
                                         THEN Keys \ {k1} ELSE {}]]
MCPurgeSymmetry ==
    Permutations(Lots) \cup Permutations(Boxes \ {b2})
        \cup Permutations(Ledgers) \cup Permutations(Workers)

(* Merges of lots whose boxes were moved before: two boxes of a number. *)
MCTwoNumbers == [b \in Boxes |-> IF b \in {b1, b3} THEN 1 ELSE 2]
MCMovedSymmetry ==
    Permutations(Lots) \cup Permutations(Pallets)
        \cup Permutations({b1, b3}) \cup Permutations({b2, b4})
=============================================================================
