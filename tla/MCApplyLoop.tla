---------------------------- MODULE MCApplyLoop ----------------------------
(* Small instances of ApplyLoop.  A transaction without published changes   *)
(* is one that the walsender may skip.                                      *)
EXTENDS ApplyLoop

OneNoneTwo == <<1, 0, 2>>

\* The stream keeps its order from the socket to the destination: what the loop
\* holds is the latest part of what it received, the destination sees no event
\* before those that precede it, and no flushed or reported position passes what
\* was received (flush_batch, the debug_assert!s of ReplicationProgress).
StreamKeepsOrder == BufferIsSuffixOfReceived /\ DeliveredWithoutGap /\ ProgressIsOrdered
=============================================================================
