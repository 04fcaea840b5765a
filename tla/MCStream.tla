------------------------------ MODULE MCStream ------------------------------
(***************************************************************************)
(* RealtimeStream for TLC with the pages of two tenants at one API         *)
(* instance.                                                               *)
(***************************************************************************)
EXTENDS RealtimeStream, TLC

CONSTANTS inc, far, n1, n2

ChannelTenants == inc :> n1 @@ far :> n2
FrameCounts == [n \in {n1, n2} |-> 1]
StreamRequests == {{inc}, {far}}
=============================================================================
