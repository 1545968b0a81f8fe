----------------------------- MODULE MCService -----------------------------
(* Small instances of Service for TLC. *)
EXTENDS Service, TLC

\* Callers are interchangeable (used by the safety runs only).
CallersSymmetric == Permutations(Clients)
=============================================================================
