----------------------------- MODULE MCProducer -----------------------------
(* The producer with a few messages; the cfg files choose what may fail. *)
EXTENDS Producer
=============================================================================
