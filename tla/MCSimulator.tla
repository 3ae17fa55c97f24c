----------------------------- MODULE MCSimulator -----------------------------
(* Values for the constants of Simulator.                                  *)
EXTENDS SimulatorProperties
MCAddresses == 1 .. 7
=============================================================================
