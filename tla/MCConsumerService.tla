------------------------- MODULE MCConsumerService --------------------------
(* The consumer process with the time-outs of its configuration, in ticks of five seconds. *)
EXTENDS ConsumerService
=============================================================================
