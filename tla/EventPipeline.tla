---------------------------- MODULE EventPipeline ----------------------------
(***************************************************************************)
(* From a published domain event to an incident and its notifications: the *)
(* worker's consumer and the operators' console, on one tenant's incidents.*)
(***************************************************************************)
EXTENDS IncidentConsole, EventConsumer

vars == <<incidentVars, consoleVars, consumerVars>>

Init == InitIncidents /\ InitConsole /\ InitConsumer

Next ==
    \/ Consumer /\ UNCHANGED consoleVars
    \/ Console /\ UNCHANGED consumerVars

Spec == Init /\ [][Next]_vars

(***************************************************************************)
(* A handler that runs goes on, and a waiting job is taken in its turn     *)
(* (the queue is FIFO, and every handler ends), so strongly fair per job.  *)
(* Nothing makes an operator act, a job disappear or an event be published.*)
(***************************************************************************)
FairConsumer ==
    /\ \A c \in Slots : WF_vars(HandlerStep(c) /\ UNCHANGED consoleVars)
    /\ \A e \in Events : SF_vars((\E c \in Slots : Take(c, e)) /\ UNCHANGED consoleVars)

-----------------------------------------------------------------------------
(* Properties *)

TypeOK == IncidentsOK /\ ConsoleOK /\ ConsumerOK

\* The incidents whose timeline names the event e.
Named(e) == {timeline[k].incident : k \in {k \in DOMAIN timeline : timeline[k].event = e}}

(***************************************************************************)
(* An event reaches at most one timeline, once, and every channel at most  *)
(* once, whatever is published again, retried, or run again after a crash  *)
(* ("no second timeline entry, no notification fan-out", main.ts:31-33).   *)
(***************************************************************************)
DuplicatesAreSkipped ==
    /\ \A k, l \in DOMAIN timeline :
          timeline[k].event = timeline[l].event /\ timeline[k].event # NoEvent => k = l
    /\ \A k, l \in DOMAIN deliveries :
          deliveries[k].event = deliveries[l].event
            /\ deliveries[k].channel = deliveries[l].channel => k = l

(***************************************************************************)
(* An incident only collects events of its own fingerprint, which are in   *)
(* the events table; a notification is about an incident whose timeline    *)
(* already tells of the event.                                             *)
(***************************************************************************)
EventsBelong ==
    /\ \A e \in Events : Named(e) # {} => e \in events
    /\ \A k \in DOMAIN timeline : timeline[k].event # NoEvent =>
          incidents[timeline[k].incident].print = PrintOf[timeline[k].event]
    /\ \A k \in DOMAIN deliveries : deliveries[k].incident \in Named(deliveries[k].event)

\* The status an entry of the timeline leaves.
StatusAfter == [created |-> "detected", acknowledged |-> "acknowledged",
                resolved |-> "resolved", reopened |-> "acknowledged"]

(***************************************************************************)
(* However the requests of operators interleave with each other and with   *)
(* recurrences, the status of an incident is what the last entry of its    *)
(* timeline that changes it says, and a resolved one has its resolvedAt.   *)
(***************************************************************************)
TimelineExplainsStatus ==
    \A i \in DOMAIN incidents :
        LET changes == {k \in DOMAIN timeline : timeline[k].incident = i
                                                  /\ timeline[k].type # "event_recurred"}
        IN  /\ \E k \in changes :
                  /\ \A l \in changes : l <= k
                  /\ incidents[i].status = StatusAfter[timeline[k].type]
            /\ incidents[i].status = "resolved" => incidents[i].resolvedAt

(***************************************************************************)
(* The events the tables account for: one with a fingerprint is in a       *)
(* timeline by the time its job is completed.                              *)
(***************************************************************************)
CompletedIsHandled ==
    \A e \in Events : jobs[e] = "completed" /\ PrintOf[e] # NoPrint => Named(e) # {}

\* As long as no database call fails and the worker does not die.
CompletedIsHandledWhenClean == faults = {} => CompletedIsHandled

\* "dedup por fingerprint" (full-flow.e2e.test.ts:263-270).
OneOpenPerFingerprint ==
    \A i, j \in DOMAIN incidents :
        /\ incidents[i].status # "resolved" /\ incidents[j].status # "resolved"
        /\ incidents[i].print = incidents[j].print
        => i = j

(***************************************************************************)
(* A published event is dealt with: its job ends, and unless something     *)
(* failed an event with a fingerprint is then in a timeline.               *)
(***************************************************************************)
EventsAreHandled ==
    \A e \in Events :
        jobs[e] = "waiting" ~> \/ faults # {} /\ jobs[e] \in {"completed", "failed"}
                               \/ PrintOf[e] = NoPrint /\ e \in events
                               \/ Named(e) # {}
=============================================================================
