----------------------------- MODULE MCPlatform -----------------------------
(***************************************************************************)
(* AgentIdentity, MetricsIngest and RealtimeStream for TLC.  They share no *)
(* variable: part, chosen at the start, says which of them moves, and the  *)
(* others rest in one of their initial states.                             *)
(***************************************************************************)
EXTENDS AgentIdentity, MetricsIngest, RealtimeStream, TLC

CONSTANTS g1, g2, inc, ag, far, n1, n2, c1, c2

VARIABLE part

platformVars == <<part, identityVars, ingestVars, streamVars>>

Init ==
    /\ part \in {"identity", "ingest", "stream"}
    /\ InitIdentity /\ InitIngest /\ InitStream
    /\ part # "ingest" => enabled = {} /\ \A x \in DOMAIN values : values[x] = 0
    /\ wants[c2] = {far} /\ wants[c1] # {far}
    /\ part # "stream" => wants[c1] = {inc}

\* Bounds of the stream part: three frames in all, on channels somebody listens to.
\* The page of the other tenant is there before that of c1, if at all, and stays.  With
\* it, or with two channels, one failure.
StreamBounds ==
    /\ Len(frames') <= 3
    /\ frames' # frames => \/ Last(frames').topic \in wants[c1]
                           \/ clients[c2] # Fresh /\ Last(frames').topic \in wants[c2]
    /\ clients'[c2].at # clients[c2].at =>
          wants[c1] = {inc} /\ clients[c1] = Fresh /\ clients'[c2].at = "open"
    /\ drops' > 1 => wants[c1] = {inc} /\ clients[c2] = Fresh

\* Bounds of the ingest part: an operator does one thing, and none where something goes
\* wrong; only the agent of one sample has two mishaps.
IngestBounds ==
    /\ switched' # {} => mishaps' = 0 /\ named' = {}
    /\ named' # {} => mishaps' = 0
    /\ mishaps' > 1 => jobs'[g1] = <<>>

Next ==
    \/ part = "identity" /\ NextIdentity /\ UNCHANGED <<part, ingestVars, streamVars>>
    \/ /\ part = "ingest" /\ NextIngest /\ IngestBounds
       /\ UNCHANGED <<part, identityVars, streamVars>>
    \/ /\ part = "stream" /\ NextStream /\ StreamBounds
       /\ UNCHANGED <<part, identityVars, ingestVars>>

Spec == Init /\ [][Next]_platformVars

\* Every variable has a value of its type.
TypeOK == IdentityOK /\ IngestOK /\ StreamOK

-----------------------------------------------------------------------------

\* The machine ids of g1 and g2 differ after their first 12 characters.
HostNames == [a \in Agents |-> "host-0123456789ab"]
SampleCounts == g1 :> 2 @@ g2 :> 1
\* Two rules of their tenant, and one of another that has the event type of the first.
AgentTenants == [a \in Agents |-> n1]
CpuRule(event) == [event |-> event, comparator |-> ">", threshold |-> 0, need |-> 2]
OfTenant(rule, n) == rule @@ ("tenant" :> n)
AlertRules == <<OfTenant(CpuRule("cpu.high"), n1), OfTenant(CpuRule("cpu.busy"), n1),
                OfTenant(CpuRule("cpu.high"), n2)>>
FallbackRule == CpuRule("infra.cpu.high")

\* Two channels of a tenant, and one of another.
ChannelTenants == inc :> n1 @@ ag :> n1 @@ far :> n2
FrameCounts == n1 :> 3 @@ n2 :> 1
StreamRequests == {{inc}, {inc, ag}, {far}}

\* One set of names for what each part handles at once, and one for those that call it.
Symmetry == Permutations(Workers) \cup Permutations(Producers)
=============================================================================
