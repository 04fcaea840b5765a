---------------------------- MODULE EventConsumer ----------------------------
(***************************************************************************)
(* The worker's consumer of the queue waops.domain-events (consumeQueue    *)
(* and handleEventEnvelope of apps/worker/src/main.ts), with the parts it  *)
(* awaits one after the other: IncidentService.openFromEvent and           *)
(* NotificationService.dispatchToChannel.  Several jobs are handled at     *)
(* once, each await is a point where the others go on, a step may throw    *)
(* (the job is tried again) and the worker may die (its jobs are found     *)
(* stalled and queued again).  Queue and tables are external.              *)
(***************************************************************************)
EXTENDS Incidents

CONSTANTS
    Slots,       \* jobs handled at once: concurrency 4
    Channels,    \* enabled notification channels of the tenant
    MaxTries,    \* attempts of a job: 5
    MaxFaults    \* bound: how many of PossibleFaults happen, each once

\* A database call throws; the worker dies.
PossibleFaults == {"dbError", "workerCrash"}

ASSUME ConsumerAssumption == MaxTries \in Nat \ {0} /\ MaxFaults \in Nat

VARIABLES
    jobs,         \* what the queue knows of each event's jobId
    tries,        \* failed attempts of its job
    slots,        \* where each handler is
    events,       \* rows of events, the dedup table
    deliveries,   \* rows of notification_deliveries
    faults        \* history: the faults that happened

consumerVars == <<jobs, tries, slots, events, deliveries, faults>>

JobState == {"absent", "waiting", "active", "completed", "failed"}
Points == {"store", "find", "link", "note", "open", "notify", "dispatch", "deliver",
           "done"}
Idle == [at |-> "idle", event |-> NoEvent, incident |-> 0, todo |-> {}, row |-> 0]
Handler == [at : Points \cup {"idle"}, event : Events \cup {NoEvent}, incident : Nat,
            todo : SUBSET Channels, row : Nat]
Delivery == [event : Events, channel : Channels, incident : Nat,
             status : {"pending", "delivered", "failed"}]

InitConsumer ==
    /\ jobs = [e \in Events |-> "absent"] /\ tries = [e \in Events |-> 0]
    /\ slots = [c \in Slots |-> Idle]
    /\ events = {} /\ deliveries = <<>> /\ faults = {}

Fault(kind) ==
    /\ kind \notin faults /\ Cardinality(faults) < MaxFaults
    /\ faults' = faults \cup {kind}

\* The handler of slot c goes on at p.
Goto(c, p) == slots' = [slots EXCEPT ![c].at = p]

-----------------------------------------------------------------------------
(* The queue *)

\* publish: an add is ignored while the queue still holds the jobId.
Publish(e) ==
    /\ jobs[e] = "absent"
    /\ jobs' = [jobs EXCEPT ![e] = "waiting"]
    /\ tries' = [tries EXCEPT ![e] = 0]
    /\ UNCHANGED <<incidentVars, slots, events, deliveries, faults>>

\* removeOnComplete 1000: other jobs push this one out.
Evict(e) ==
    /\ jobs[e] = "completed"
    /\ jobs' = [jobs EXCEPT ![e] = "absent"]
    /\ UNCHANGED <<incidentVars, tries, slots, events, deliveries, faults>>

Take(c, e) ==
    /\ slots[c] = Idle /\ jobs[e] = "waiting"
    /\ jobs' = [jobs EXCEPT ![e] = "active"]
    /\ slots' = [slots EXCEPT ![c] = [Idle EXCEPT !.at = "store", !.event = e]]
    /\ UNCHANGED <<incidentVars, tries, events, deliveries, faults>>

-----------------------------------------------------------------------------
(* handleEventEnvelope, one await at a time *)

\* Mutants of Store: the unique event_id does not stop it; an event without
\* fingerprint goes on.
StoreAgain(c) ==
    LET e == slots[c].event
    IN  /\ slots[c].at = "store"
        /\ events' = events \cup {e}
        /\ Goto(c, IF PrintOf[e] = NoPrint THEN "done" ELSE "find")
        /\ UNCHANGED <<incidentVars, jobs, tries, deliveries, faults>>

\* domainEvent.create: an event without fingerprint opens no incident.
Store(c) ==
    LET e == slots[c].event
    IN  /\ slots[c].at = "store" /\ e \notin events
        /\ events' = events \cup {e}
        /\ Goto(c, IF PrintOf[e] = NoPrint THEN "done" ELSE "find")
        /\ UNCHANGED <<incidentVars, jobs, tries, deliveries, faults>>

\* P2002: the event is a duplicate, everything downstream is skipped.
SkipDuplicate(c) ==
    /\ slots[c].at = "store" /\ slots[c].event \in events
    /\ Goto(c, "done")
    /\ UNCHANGED <<incidentVars, jobs, tries, events, deliveries, faults>>

\* Mutant of Find: a recurrence is taken for a duplicate.
FindDropsRecurrence(c) ==
    /\ slots[c].at = "find"
    /\ Goto(c, IF OpenFor(slots[c].event) = {} THEN "open" ELSE "done")
    /\ UNCHANGED <<incidentVars, jobs, tries, events, deliveries, faults>>

\* incident.findFirst.
Find(c) ==
    LET open == OpenFor(slots[c].event)
    IN  /\ slots[c].at = "find"
        /\ \/ open = {} /\ Goto(c, "open")
           \/ \E i \in open : slots' = [slots EXCEPT ![c].at = "link", ![c].incident = i]
        /\ UNCHANGED <<incidentVars, jobs, tries, events, deliveries, faults>>

\* incidentEvent.create; whatever it throws is taken for "already linked".
Link(c) ==
    /\ slots[c].at = "link"
    /\ \/ links' = links \cup {<<slots[c].incident, slots[c].event>>} /\ UNCHANGED faults
       \/ Fault("dbError") /\ UNCHANGED links
    /\ Goto(c, "note")
    /\ UNCHANGED <<incidents, timeline, jobs, tries, events, deliveries>>

\* The entry event_recurred.
Note(c) ==
    /\ slots[c].at = "note"
    /\ Write(slots[c].incident, "event_recurred", slots[c].event)
    /\ Goto(c, "notify")
    /\ UNCHANGED <<incidents, links, jobs, tries, events, deliveries, faults>>

\* The transaction that opens the incident.
Open(c) ==
    /\ slots[c].at = "open"
    /\ OpenIncident(slots[c].event)
    /\ slots' = [slots EXCEPT ![c].at = "notify", ![c].incident = Len(incidents) + 1]
    /\ UNCHANGED <<jobs, tries, events, deliveries, faults>>

\* The best-effort realtime frame is left out; notificationChannel.findMany.
ListChannels(c) ==
    /\ slots[c].at = "notify"
    /\ slots' = [slots EXCEPT ![c].at = "dispatch", ![c].todo = Channels]
    /\ UNCHANGED <<incidentVars, jobs, tries, events, deliveries, faults>>

\* dispatchToChannel records the delivery as pending, unless the channel was
\* disabled since.
Dispatch(c, ch) ==
    /\ slots[c].at = "dispatch" /\ ch \in slots[c].todo
    /\ \/ /\ deliveries' = Append(deliveries, [event |-> slots[c].event, channel |-> ch,
                                               incident |-> slots[c].incident,
                                               status |-> "pending"])
          /\ slots' = [slots EXCEPT ![c].at = "deliver", ![c].todo = @ \ {ch},
                                    ![c].row = Len(deliveries) + 1]
       \/ /\ slots' = [slots EXCEPT ![c].todo = @ \ {ch}]
          /\ UNCHANGED deliveries
    /\ UNCHANGED <<incidentVars, jobs, tries, events, faults>>

\* The mail or the webhook, and the update with what came of it.
Deliver(c) ==
    /\ slots[c].at = "deliver"
    /\ \E status \in {"delivered", "failed"} :
          deliveries' = [deliveries EXCEPT ![slots[c].row].status = status]
    /\ slots' = [slots EXCEPT ![c].at = "dispatch", ![c].row = 0]
    /\ UNCHANGED <<incidentVars, jobs, tries, events, faults>>

Dispatched(c) ==
    /\ slots[c].at = "dispatch" /\ slots[c].todo = {}
    /\ Goto(c, "done")
    /\ UNCHANGED <<incidentVars, jobs, tries, events, deliveries, faults>>

\* The processor returns.
Complete(c) ==
    /\ slots[c].at = "done"
    /\ jobs' = [jobs EXCEPT ![slots[c].event] = "completed"]
    /\ slots' = [slots EXCEPT ![c] = Idle]
    /\ UNCHANGED <<incidentVars, tries, events, deliveries, faults>>

-----------------------------------------------------------------------------
(* What goes wrong *)

\* Mutant of Throws: the job is not queued again.
ThrowsAway(c) ==
    /\ slots[c].at \in Points \ {"link", "done"}
    /\ slots[c].at = "dispatch" => slots[c].todo # {}
    /\ Fault("dbError")
    /\ tries' = [tries EXCEPT ![slots[c].event] = @ + 1]
    /\ slots' = [slots EXCEPT ![c] = Idle]
    /\ UNCHANGED <<incidentVars, jobs, events, deliveries>>

\* A database call throws (Link catches its own; one that commits and throws
\* all the same is its step, then a throw at the next): the job is tried again,
\* after a backoff, until its attempts are used up.
Throws(c) ==
    LET e == slots[c].event
    IN  /\ slots[c].at \in Points \ {"link", "done"}
        /\ slots[c].at = "dispatch" => slots[c].todo # {}
        /\ Fault("dbError")
        /\ tries' = [tries EXCEPT ![e] = @ + 1]
        /\ jobs' = [jobs EXCEPT ![e] = IF tries[e] + 1 < MaxTries THEN "waiting" ELSE "failed"]
        /\ slots' = [slots EXCEPT ![c] = Idle]
        /\ UNCHANGED <<incidentVars, events, deliveries>>

\* The worker dies and starts again; the jobs it held are queued again.
WorkerCrash ==
    /\ Fault("workerCrash")
    /\ \E c \in Slots : slots[c] # Idle
    /\ jobs' = [e \in Events |-> IF jobs[e] = "active" THEN "waiting" ELSE jobs[e]]
    /\ slots' = [c \in Slots |-> Idle]
    /\ UNCHANGED <<incidentVars, tries, events, deliveries>>

-----------------------------------------------------------------------------

\* The steps a handler takes when nothing goes wrong.
HandlerStep(c) ==
    \/ Store(c) \/ SkipDuplicate(c) \/ Find(c) \/ Link(c) \/ Note(c) \/ Open(c)
    \/ ListChannels(c) \/ (\E ch \in Channels : Dispatch(c, ch)) \/ Deliver(c)
    \/ Dispatched(c) \/ Complete(c)

Consumer ==
    \/ \E e \in Events : Publish(e) \/ Evict(e)
    \/ \E c \in Slots : HandlerStep(c) \/ Throws(c) \/ (\E e \in Events : Take(c, e))
    \/ WorkerCrash

ConsumerOK ==
    /\ jobs \in [Events -> JobState] /\ tries \in [Events -> 0..MaxTries]
    /\ slots \in [Slots -> Handler]
    /\ events \subseteq Events
    /\ deliveries \in Seq(Delivery)
    /\ faults \subseteq PossibleFaults
=============================================================================
