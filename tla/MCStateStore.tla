---------------------------- MODULE MCStateStore ----------------------------
(* Small instances of StateStore: d1 is the directory of p2 only.          *)
EXTENDS StateStore

CONSTANTS d1, p2

MCUnder == [d \in Dirs |-> {p2}]
=============================================================================
