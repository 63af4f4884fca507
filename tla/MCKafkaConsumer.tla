-------------------------- MODULE MCKafkaConsumer ---------------------------
(* Two listeners: the one of main.go and one of a /consume request. *)
EXTENDS KafkaConsumer
=============================================================================
