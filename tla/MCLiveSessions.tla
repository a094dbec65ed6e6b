---------------------------- MODULE MCLiveSessions ----------------------------
(* LiveSessions with model values for TLC.                                  *)
EXTENDS LiveSessions, TLC

CONSTANTS d1, d2, d3, h1, h2

Symmetric == Permutations(Device) \cup Permutations(Handler)
===============================================================================
