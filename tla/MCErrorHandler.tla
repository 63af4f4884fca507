--------------------------- MODULE MCErrorHandler ---------------------------
(* The error handler called by the listener of main.go and by that of a /consume request; the
   properties of its runs are about steps, not about fairness, and tell the two not apart. *)
EXTENDS ErrorHandler, TLC

Symmetry == Permutations(Pump)
=============================================================================
