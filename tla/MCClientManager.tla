--------------------------- MODULE MCClientManager ---------------------------
(***************************************************************************)
(* Channels, and clients, are interchangeable.  Symmetry is used for the   *)
(* safety of sessions only.                                                *)
(***************************************************************************)
EXTENDS ClientManager, TLC

Symmetry == Permutations(Channels) \cup Permutations(Clients)
=============================================================================
