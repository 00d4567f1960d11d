--------------------------- MODULE MCSamplerPool ---------------------------
(* SamplerPool on the split SamplerPool::init makes of NStreams streams.   *)
EXTENDS SamplerPool, StreamSplit

CONSTANTS NStreams, WantedGroups

MCGroups == 0 .. GroupCount(NStreams, WantedGroups) - 1
MCLo == [g \in MCGroups |-> SplitLo(NStreams, GroupCount(NStreams, WantedGroups))[g]]
MCHi == [g \in MCGroups |-> SplitLo(NStreams, GroupCount(NStreams, WantedGroups))[g + 1]]
=============================================================================
