--------------------------- MODULE MCTransferSaga ---------------------------
(***************************************************************************)
(* Small instances of TransferSaga.                                        *)
(***************************************************************************)
EXTENDS TransferSaga, TLC

CONSTANTS alice, bob, carol

\* carol has no wallet when a behaviour starts.
MCFunding == (alice :> 3) @@ (bob :> 2)

\* A negative amount, none at all, and one that either sender can afford once,
\* but not twice unless somebody has paid in between.
MCAmounts == {-1, 0, 2}

Symmetry == Permutations(Transfers)
=============================================================================
