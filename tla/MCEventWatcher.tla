--------------------------- MODULE MCEventWatcher ---------------------------
(* EventWatcher with a timeout of two ticks, three NewJob events and two   *)
(* reorgs: enough for [removed, removed, valid] and for a reorg to arrive  *)
(* both before and after the first valid log.                              *)
EXTENDS EventWatcher

MCEventTimeout == 2
MCMaxEvents == 3
MCMaxReorgs == 2
MCMaxClock == 3
====
