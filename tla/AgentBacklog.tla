---------------------------- MODULE AgentBacklog ----------------------------
(***************************************************************************)
(* How many batches wait in the agent's buffer: what the scheduler's loop  *)
(* (agent/internal/scheduler/scheduler.go) does to that number, run after  *)
(* run, for as long as the agent lives.  Payloads and sequences are left   *)
(* out, so behaviours are infinite and liveness can be asked of them;      *)
(* AgentTelemetry implements this specification (its property Backlog).    *)
(***************************************************************************)
EXTENDS Naturals

CONSTANTS
    MaxItems,         \* Limited.maxItems: 256
    PeekItems,        \* batches of one request: 100
    MaxAttempts,      \* attempts of one flush: 5
    PerCycle,         \* batches one collection may enqueue: host, containers
    ItemSizes,        \* numbers of samples a batch of one host may have
    MaxBatchSamples   \* MetricsBatchV1's limit: 5000

ASSUME BacklogAssumption ==
    /\ MaxItems \in Nat \ {0} /\ PeekItems \in Nat \ {0} /\ MaxAttempts \in Nat \ {0}
    /\ PerCycle \subseteq Nat /\ ItemSizes \subseteq Nat /\ MaxBatchSamples \in Nat

VARIABLES
    pending,   \* Limited.Len()
    phase,     \* what the loop is doing
    attempt,   \* attempt of flush
    stopping,  \* a signal came
    itemSize   \* samples of each batch of this host

vars == <<pending, phase, attempt, stopping, itemSize>>

Smaller(a, b) == IF a < b THEN a ELSE b

Init ==
    /\ pending = 0 /\ phase = "idle" /\ attempt = 0 /\ stopping = FALSE
    /\ itemSize \in ItemSizes

\* k batches arrive, the oldest beyond MaxItems are dropped.
Arrive == \E k \in PerCycle : pending' = Smaller(pending + k, MaxItems)

Collect ==
    /\ phase = "idle"
    /\ Arrive
    /\ phase' = "flush" /\ attempt' = 0
    /\ UNCHANGED <<stopping, itemSize>>

\* A collect tick taken after the signal (see AgentTelemetry).
LateCollect ==
    /\ stopping /\ phase \in {"flush", "exit"}
    /\ Arrive
    /\ UNCHANGED <<phase, attempt, stopping, itemSize>>

\* Batches older than the TTL go; this tick too may come late.
Expire ==
    /\ phase = "idle" \/ (stopping /\ phase \in {"flush", "exit"})
    /\ pending' \in 0..pending
    /\ UNCHANGED <<phase, attempt, stopping, itemSize>>

\* The gateway takes a request of as many batches as flush puts into it.
Carried == Smaller(pending, PeekItems) * itemSize <= MaxBatchSamples

Done == IF stopping THEN "exit" ELSE "idle"

\* Mutant of SendOk: a request carries the whole buffer.
SendOkWithAll ==
    /\ phase = "flush" /\ pending > 0 /\ attempt < MaxAttempts
    /\ pending * itemSize <= MaxBatchSamples
    /\ pending' = pending - 1
    /\ phase' = Done
    /\ UNCHANGED <<attempt, stopping, itemSize>>

\* A request of the PeekItems oldest batches is answered 200: the ack names
\* the first of them, and flush returns after one ack.  Only while stopping
\* can a late tick have changed the buffer since the request was made.
SendOk ==
    /\ phase = "flush" /\ attempt < MaxAttempts
    /\ stopping \/ pending > 0
    /\ stopping \/ Carried
    /\ \/ pending > 0 /\ pending' = pending - 1
       \/ stopping /\ UNCHANGED pending
    /\ phase' = Done
    /\ UNCHANGED <<attempt, stopping, itemSize>>

SendFails ==
    /\ phase = "flush" /\ attempt < MaxAttempts
    /\ stopping \/ pending > 0
    /\ attempt' = attempt + 1
    /\ phase' \in {"flush"} \cup (IF stopping THEN {"exit"} ELSE {})
    /\ UNCHANGED <<pending, stopping, itemSize>>

\* Mutant of GiveUp: the attempts of a flush are not limited.
GiveUpWhenEmpty ==
    /\ phase = "flush" /\ pending = 0
    /\ phase' = Done
    /\ UNCHANGED <<pending, attempt, stopping, itemSize>>

GiveUp ==
    /\ phase = "flush"
    /\ pending = 0 \/ attempt = MaxAttempts
    /\ phase' = Done
    /\ UNCHANGED <<pending, attempt, stopping, itemSize>>

Signal ==
    /\ ~stopping /\ phase \in {"idle", "flush"}
    /\ stopping' = TRUE /\ phase' = "flush" /\ attempt' = 0
    /\ UNCHANGED <<pending, itemSize>>

\* The process ends, in Run's last lines or by a crash.
Die ==
    /\ phase # "down"
    /\ phase' = "down" /\ pending' = 0
    /\ UNCHANGED <<attempt, stopping, itemSize>>

Start ==
    /\ phase = "down"
    /\ phase' = "idle" /\ attempt' = 0 /\ stopping' = FALSE
    /\ UNCHANGED <<pending, itemSize>>

Next ==
    \/ Collect \/ LateCollect \/ Expire \/ SendOk \/ SendFails \/ GiveUp
    \/ Signal \/ Die \/ Start

Spec == Init /\ [][Next]_vars

(***************************************************************************)
(* The loop goes on while the process lives (the collect ticker ticks, the *)
(* steps of a flush end, the service manager starts a dead agent again),   *)
(* and the gateway is not away for ever: requests it could accept do not   *)
(* all fail.                                                               *)
(***************************************************************************)
FairSpec ==
    /\ Spec
    /\ WF_vars(Collect) /\ WF_vars(GiveUp) /\ WF_vars(SendFails) /\ WF_vars(Start)
    /\ SF_vars(SendOk)

-----------------------------------------------------------------------------
(* Properties *)

\* From some moment on the process is neither stopped nor killed.
LeftAlone == <>[](phase \in {"idle", "flush"} /\ ~stopping)

\* A flush that the gateway can take.
Flushable == phase = "flush" /\ Carried

(***************************************************************************)
(* The agent goes on delivering (scheduler.go:152-185): as long as flushes *)
(* come again that the gateway can take, they are acknowledged again, and  *)
(* the backlog an outage left keeps nothing from that.  Where PeekItems    *)
(* batches fit in a request this is every flush; a host with larger        *)
(* batches stops delivering when its backlog no longer fits, until the TTL *)
(* has made it smaller, for flush never sends less (agent-protocol.ts:39). *)
(***************************************************************************)
KeepsAcking ==
    LeftAlone /\ []<>Flushable => []<><<SendOk>>_vars

\* From some moment on, besides, no request fails any more.
Restored == LeftAlone /\ <>[][~SendFails]_vars

(***************************************************************************)
(* With the gateway back for good, the flushes of the loop empty the       *)
(* buffer ("gateway volta: flush drena", loopback_test.go:121).            *)
(***************************************************************************)
Drains == Restored => []<>(pending = 0)

(***************************************************************************)
(* A flush ends: it is never the reason that collection stops              *)
(* (scheduler.go:155, at most five attempts).                              *)
(***************************************************************************)
FlushEnds == phase = "flush" ~> phase # "flush"
=============================================================================
