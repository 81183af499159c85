---------------------------- MODULE MCCollector ----------------------------
(***************************************************************************)
(* Collector on three objects, one of them a string, and two root        *)
(* sources: every graph on them, cycles included.                          *)
(***************************************************************************)
EXTENDS Collector

CONSTANTS o1, o2, o3

MCObjects == {o1, o2, o3}

MCStrings == {o3}

MCSources == {"stack", "strings"}
=============================================================================
