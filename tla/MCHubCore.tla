------------------------------ MODULE MCHubCore ------------------------------
(* Model values are interchangeable: panels with panels, processes likewise. *)
EXTENDS HubCore, TLC

Interchangeable == Permutations(Panels) \cup Permutations(Procs)
=============================================================================
