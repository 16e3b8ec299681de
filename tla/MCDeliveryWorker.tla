-------------------------- MODULE MCDeliveryWorker --------------------------
(***************************************************************************)
(* Instances of DeliveryWorker for TLC.                                    *)
(***************************************************************************)
EXTENDS DeliveryWorker, TLC

CONSTANTS w1, w2

WorkerSymmetry == Permutations(Worker)
=============================================================================
