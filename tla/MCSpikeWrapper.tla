---------------------------- MODULE MCSpikeWrapper ----------------------------
(* Instances of SpikeWrapper for TLC. *)
EXTENDS SpikeWrapper

CONSTANTS w1, w2

TwoWaiters == {w1, w2}
=============================================================================
