--------------------------- MODULE MCRuntimeLane ---------------------------
(* Instances of RuntimeLane for TLC.                                       *)
EXTENDS RuntimeLane, TLC

\* An instantaneous operation, and parked ones of one and of three chunks.
InlineItem == [checkpoint_count |-> 1, policy |-> "Inline"]
ShortItem == [checkpoint_count |-> 1, policy |-> "Async"]
ChunkedItem == [checkpoint_count |-> 3, policy |-> "Async"]

\* max_queue_depth_per_lane of an engine without a cap.
NoCap == -1

MCItems == {InlineItem, ShortItem, ChunkedItem}
MCMixed == {InlineItem, ChunkedItem}
MCChunked == {ChunkedItem}

Symmetry == Permutations(Requests) \cup Permutations(Clients)
=============================================================================
