------------------------------ MODULE MCAdmin -------------------------------
(* A small instance of Admin, and with it of Topology, for TLC.            *)
EXTENDS Admin

MCRecord == {"PRIMARY", "REPLICA"}
=============================================================================
