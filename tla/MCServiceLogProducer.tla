------------------------ MODULE MCServiceLogProducer ------------------------
(***************************************************************************)
(* Instances of ServiceLogProducer for TLC.                                *)
(***************************************************************************)
EXTENDS ServiceLogProducer

CONSTANTS m1, m2
=============================================================================
