----------------------------- MODULE MCReceiver -----------------------------
(* ReceiverSpec under the reordering bound its properties need.            *)
EXTENDS ReceiverSpec

ASSUME MCReordering == BoundedReordering
=============================================================================
