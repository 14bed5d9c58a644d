------------------------ MODULE InboundCompletionMC ------------------------
(* Instances of InboundCompletion: see README.md for the bounds.           *)
EXTENDS InboundCompletion, TLC

CONSTANTS p1, p2, f1, k1, k2

OneBox(p, fs) == [box |-> 1, pallet |-> p, files |-> fs]
OtherBox(p, fs) == [box |-> 2, pallet |-> p, files |-> fs]

(* A box with its file, on a pallet or not, and a second box.              *)
MCDeliveries ==
    {{OneBox(None, {f1})}, {OneBox(p1, {f1}), OtherBox(None, {})}}

(* The same with a second pallet.                                          *)
MCPalletDeliveries == {{OneBox(p2, {}), OtherBox(p1, {})}}

MCSymmetry == Permutations(IdempotencyKeys)
=============================================================================
