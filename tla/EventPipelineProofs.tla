------------------------ MODULE EventPipelineProofs ------------------------
(***************************************************************************)
(* Theorems about EventPipeline, for every set of events and fingerprints, *)
(* any number of handlers, channels, operators and requests, and every     *)
(* fault: its types, that duplicates are skipped, that events, incidents   *)
(* and notifications belong together, that a timeline explains the status  *)
(* of its incident, and that without faults a completed job was handled.   *)
(***************************************************************************)
EXTENDS EventPipeline, TLAPS

\* What a handler knows between its steps.  Its job is active.  Past the dedup
\* table its event is in it and, until the event is linked or opens an incident,
\* in no timeline; from then on the incident is one whose timeline names it, and
\* no channel the loop has yet to visit has a delivery of it.
HandlerKnows(c) ==
    LET e == slots[c].event
    IN  /\ slots[c].at # "idle" => e \in Events /\ jobs[e] = "active"
        /\ slots[c].at \notin {"idle", "store"} => e \in events
        /\ slots[c].at \notin {"idle", "store", "done"} => PrintOf[e] # NoPrint
        /\ slots[c].at \in {"find", "link", "note", "open"} =>
              \A k \in DOMAIN timeline : timeline[k].event # e
        /\ slots[c].at \in {"link", "note"} =>
              /\ slots[c].incident \in DOMAIN incidents
              /\ incidents[slots[c].incident].print = PrintOf[e]
        /\ slots[c].at \in {"notify", "dispatch", "deliver"} =>
              \E k \in DOMAIN timeline :
                 timeline[k].event = e /\ timeline[k].incident = slots[c].incident
        /\ slots[c].at = "notify" => \A k \in DOMAIN deliveries : deliveries[k].event # e
        /\ slots[c].at \in {"dispatch", "deliver"} =>
              \A k \in DOMAIN deliveries :
                 deliveries[k].event = e => deliveries[k].channel \notin slots[c].todo
        /\ slots[c].at = "deliver" => slots[c].row \in DOMAIN deliveries

HandlersKnow == \A c \in Slots : HandlerKnows(c)

\* No two handlers have the same event: its jobId is in the queue once.
HeldOnce ==
    \A c, d \in Slots :
        slots[c].at # "idle" /\ slots[d].at # "idle" /\ slots[c].event = slots[d].event => c = d

\* A job that may run has an attempt left.
AttemptLeft == \A e \in Events : jobs[e] \in {"waiting", "active"} => tries[e] < MaxTries

\* An entry is about an incident there is; so is what an operator is about to write.
EntriesHaveIncidents ==
    /\ \A k \in DOMAIN timeline : timeline[k].incident \in DOMAIN incidents
    /\ \A o \in Operators : handling[o] # Nothing => handling[o].incident \in DOMAIN incidents

\* A handler that is about to write the event e into a timeline.
OnItsWay(e) ==
    \E c \in Slots : slots[c].event = e /\ slots[c].at \in {"find", "link", "note", "open"}

\* Without faults, an event in the dedup table is in a timeline or on its way to
\* one, and a job whose handler is done with it has it in a timeline.
HandledInv ==
    faults = {} => \A e \in Events :
        PrintOf[e] # NoPrint =>
            /\ e \in events => OnItsWay(e) \/ Named(e) # {}
            /\ (\E c \in Slots : slots[c].at = "done" /\ slots[c].event = e) => Named(e) # {}
            /\ jobs[e] = "completed" => Named(e) # {}

Held == HandlersKnow /\ HeldOnce /\ AttemptLeft
Tables == EntriesHaveIncidents /\ DuplicatesAreSkipped /\ EventsBelong
IInv == TypeOK /\ Held /\ Tables /\ TimelineExplainsStatus /\ HandledInv

-----------------------------------------------------------------------------
(* Rows and handlers *)

LEMMA Appended ==
    ASSUME NEW S, NEW s \in Seq(S), NEW x \in S, NEW t, t = Append(s, x)
    PROVE  /\ t \in Seq(S) /\ Len(s) + 1 \in DOMAIN t /\ t[Len(s) + 1] = x
           /\ DOMAIN t = DOMAIN s \cup {Len(s) + 1}
           /\ \A k \in DOMAIN s : t[k] = s[k] /\ k \in Nat /\ k < Len(s) + 1
  OBVIOUS

LEMMA RestTyped == Idle \in Handler /\ Idle.at = "idle" /\ Nothing \in Handling
  BY DEF Idle, Handler, Nothing, Handling

LEMMA SlotMoves ==
    ASSUME ConsumerOK, NEW c \in Slots, NEW h \in Handler, slots' = [slots EXCEPT ![c] = h]
    PROVE  /\ slots' \in [Slots -> Handler] /\ slots'[c] = h
           /\ \A d \in Slots \ {c} : slots'[d] = slots[d]
  BY DEF ConsumerOK

\* The handler of c now is at p, with the incident i, the channels in todo and the
\* delivery row, and the same event; the others are where they were.
Moves(c, p, i, todo, row) ==
    /\ slots' \in [Slots -> Handler]
    /\ slots'[c].at = p /\ slots'[c].event = slots[c].event /\ slots'[c].incident = i
    /\ slots'[c].todo = todo /\ slots'[c].row = row
    /\ \A d \in Slots \ {c} : slots'[d] = slots[d]

LEMMA FieldsMove ==
    ASSUME ConsumerOK, NEW c \in Slots, NEW p \in Points, NEW i \in Nat,
           NEW todo \in SUBSET Channels, NEW row \in Nat,
           slots' = [slots EXCEPT ![c].at = p, ![c].incident = i, ![c].todo = todo, ![c].row = row]
    PROVE  Moves(c, p, i, todo, row)
<1> DEFINE h == [slots[c] EXCEPT !.at = p, !.incident = i, !.todo = todo, !.row = row]
<1>1. h \in Handler /\ h.at = p /\ h.incident = i /\ h.todo = todo /\ h.row = row
      /\ h.event = slots[c].event
  BY DEF ConsumerOK, Handler
<1>2. slots' = [slots EXCEPT ![c] = h]
  BY DEF ConsumerOK
<1> QED
  BY <1>1, <1>2, SlotMoves DEF Moves

\* What each step does to the handler that takes it.
LEMMA StepsMove ==
    ASSUME ConsumerOK, incidents \in Seq(Incident), NEW c \in Slots
    PROVE  /\ \A p \in Points : Goto(c, p) =>
                 Moves(c, p, slots[c].incident, slots[c].todo, slots[c].row)
           /\ Find(c) =>
                 \/ Moves(c, "open", slots[c].incident, slots[c].todo, slots[c].row)
                 \/ \E i \in OpenFor(slots[c].event) :
                       Moves(c, "link", i, slots[c].todo, slots[c].row)
           /\ Open(c) => Moves(c, "notify", Len(incidents) + 1, slots[c].todo, slots[c].row)
           /\ ListChannels(c) => Moves(c, "dispatch", slots[c].incident, Channels, slots[c].row)
           /\ Deliver(c) => Moves(c, "dispatch", slots[c].incident, slots[c].todo, 0)
<1>1. /\ slots[c] \in Handler /\ slots[c].incident \in Nat /\ slots[c].row \in Nat
      /\ slots[c].todo \in SUBSET Channels /\ Len(incidents) + 1 \in Nat
      /\ {"open", "link", "notify", "dispatch", "deliver"} \subseteq Points
  BY DEF ConsumerOK, Handler, Points
<1>2. ASSUME NEW p \in Points, Goto(c, p)
      PROVE  Moves(c, p, slots[c].incident, slots[c].todo, slots[c].row)
  <2>1. [slots EXCEPT ![c].at = p]
        = [slots EXCEPT ![c].at = p, ![c].incident = slots[c].incident, ![c].todo = slots[c].todo,
                        ![c].row = slots[c].row]
    BY DEF ConsumerOK, Handler
  <2> QED
    BY <1>1, <1>2, <2>1, FieldsMove DEF Goto
<1>3. ASSUME Find(c)
      PROVE  \/ Moves(c, "open", slots[c].incident, slots[c].todo, slots[c].row)
             \/ \E i \in OpenFor(slots[c].event) :
                   Moves(c, "link", i, slots[c].todo, slots[c].row)
  <2>1. CASE Goto(c, "open")
    BY <1>1, <1>2, <2>1
  <2>2. ASSUME NEW i \in OpenFor(slots[c].event),
               slots' = [slots EXCEPT ![c].at = "link", ![c].incident = i]
        PROVE  Moves(c, "link", i, slots[c].todo, slots[c].row)
    <3>1. i \in Nat
      BY DEF OpenFor
    <3>2. [slots EXCEPT ![c].at = "link", ![c].incident = i]
          = [slots EXCEPT ![c].at = "link", ![c].incident = i, ![c].todo = slots[c].todo,
                          ![c].row = slots[c].row]
      BY DEF ConsumerOK, Handler
    <3> QED
      BY <1>1, <2>2, <3>1, <3>2, FieldsMove
  <2> QED
    BY <1>3, <2>1, <2>2 DEF Find
<1>4. ASSUME Open(c)
      PROVE  Moves(c, "notify", Len(incidents) + 1, slots[c].todo, slots[c].row)
  <2>1. [slots EXCEPT ![c].at = "notify", ![c].incident = Len(incidents) + 1]
        = [slots EXCEPT ![c].at = "notify", ![c].incident = Len(incidents) + 1,
                        ![c].todo = slots[c].todo, ![c].row = slots[c].row]
    BY DEF ConsumerOK, Handler
  <2> QED
    BY <1>1, <1>4, <2>1, FieldsMove DEF Open
<1>5. ASSUME ListChannels(c)
      PROVE  Moves(c, "dispatch", slots[c].incident, Channels, slots[c].row)
  <2>1. [slots EXCEPT ![c].at = "dispatch", ![c].todo = Channels]
        = [slots EXCEPT ![c].at = "dispatch", ![c].incident = slots[c].incident,
                        ![c].todo = Channels, ![c].row = slots[c].row]
    BY DEF ConsumerOK, Handler
  <2> QED
    BY <1>1, <1>5, <2>1, FieldsMove DEF ListChannels
<1>6. ASSUME Deliver(c)
      PROVE  Moves(c, "dispatch", slots[c].incident, slots[c].todo, 0)
  <2>1. [slots EXCEPT ![c].at = "dispatch", ![c].row = 0]
        = [slots EXCEPT ![c].at = "dispatch", ![c].incident = slots[c].incident,
                        ![c].todo = slots[c].todo, ![c].row = 0]
    BY DEF ConsumerOK, Handler
  <2> QED
    BY <1>1, <1>6, <2>1, FieldsMove DEF Deliver
<1> QED
  BY <1>2, <1>3, <1>4, <1>5, <1>6

\* A delivery is recorded, or the channel was disabled.
LEMMA DispatchMoves ==
    ASSUME ConsumerOK, NEW c \in Slots, NEW ch \in Channels, Dispatch(c, ch)
    PROVE  \/ /\ UNCHANGED deliveries
              /\ Moves(c, "dispatch", slots[c].incident, slots[c].todo \ {ch}, slots[c].row)
           \/ /\ deliveries' = Append(deliveries, [event |-> slots[c].event, channel |-> ch,
                                                   incident |-> slots[c].incident,
                                                   status |-> "pending"])
              /\ Moves(c, "deliver", slots[c].incident, slots[c].todo \ {ch}, Len(deliveries) + 1)
<1>1. /\ slots[c].incident \in Nat /\ slots[c].row \in Nat /\ Len(deliveries) + 1 \in Nat
      /\ slots[c].todo \ {ch} \in SUBSET Channels
      /\ "dispatch" \in Points /\ "deliver" \in Points
  BY DEF ConsumerOK, Handler, Points
<1> DEFINE row == [event |-> slots[c].event, channel |-> ch, incident |-> slots[c].incident,
                   status |-> "pending"]
<1>2. CASE slots' = [slots EXCEPT ![c].todo = @ \ {ch}] /\ UNCHANGED deliveries
  <2>1. slots' = [slots EXCEPT ![c].at = "dispatch", ![c].incident = slots[c].incident,
                               ![c].todo = slots[c].todo \ {ch}, ![c].row = slots[c].row]
    BY <1>2 DEF ConsumerOK, Handler, Dispatch
  <2> QED
    BY <1>1, <1>2, <2>1, FieldsMove
<1>3. CASE /\ slots' = [slots EXCEPT ![c].at = "deliver", ![c].todo = @ \ {ch},
                                     ![c].row = Len(deliveries) + 1]
           /\ deliveries' = Append(deliveries, row)
  <2>1. slots' = [slots EXCEPT ![c].at = "deliver", ![c].incident = slots[c].incident,
                               ![c].todo = slots[c].todo \ {ch}, ![c].row = Len(deliveries) + 1]
    BY <1>3 DEF ConsumerOK, Handler
  <2> QED
    BY <1>1, <1>3, <2>1, FieldsMove
<1> QED
  BY <1>2, <1>3 DEF Dispatch

\* The handler of c is free; the others are where they were.
LEMMA SlotFrees ==
    ASSUME ConsumerOK, NEW c \in Slots, slots' = [slots EXCEPT ![c] = Idle]
    PROVE  /\ slots' \in [Slots -> Handler] /\ slots'[c] = Idle
           /\ \A d \in Slots \ {c} : slots'[d] = slots[d]
  BY RestTyped, SlotMoves

LEMMA TakeMoves ==
    ASSUME ConsumerOK, NEW c \in Slots, NEW e \in Events, Take(c, e)
    PROVE  /\ slots' \in [Slots -> Handler] /\ slots'[c].at = "store" /\ slots'[c].event = e
           /\ \A d \in Slots \ {c} : slots'[d] = slots[d]
<1>1. [Idle EXCEPT !.at = "store", !.event = e] \in Handler
  BY DEF Idle, Handler, Points
<1>2. /\ [Idle EXCEPT !.at = "store", !.event = e].at = "store"
      /\ [Idle EXCEPT !.at = "store", !.event = e].event = e
  BY DEF Idle
<1> QED
  BY <1>1, <1>2, SlotMoves DEF Take

-----------------------------------------------------------------------------
(* What a step adds to the tables *)

\* Rows stay, and with them what they are about.
TablesGrow ==
    /\ \A i \in DOMAIN incidents :
          i \in DOMAIN incidents' /\ incidents'[i].print = incidents[i].print
    /\ \A k \in DOMAIN timeline : k \in DOMAIN timeline' /\ timeline'[k] = timeline[k]
    /\ \A k \in DOMAIN deliveries :
          /\ k \in DOMAIN deliveries' /\ deliveries'[k].event = deliveries[k].event
          /\ deliveries'[k].channel = deliveries[k].channel
          /\ deliveries'[k].incident = deliveries[k].incident
    /\ events \subseteq events'

\* Nothing is written.
Quiet == UNCHANGED <<incidents, timeline, deliveries, events>>

\* An entry about the event e is written for the incident i.
Tells(i, type, e) ==
    LET n == Len(timeline) + 1
    IN  /\ n \notin DOMAIN timeline /\ DOMAIN timeline' = DOMAIN timeline \cup {n}
        /\ timeline'[n] = [incident |-> i, type |-> type, event |-> e]
        /\ \A k \in DOMAIN timeline : timeline'[k] = timeline[k] /\ k < n

LEMMA WriteTells ==
    ASSUME IncidentsOK, NEW i \in Nat, NEW type \in EntryType, NEW e \in Events \cup {NoEvent},
           Write(i, type, e)
    PROVE  timeline' \in Seq(Entry) /\ Tells(i, type, e)
<1>1. [incident |-> i, type |-> type, event |-> e] \in Entry
  BY DEF Entry
<1>2. timeline \in Seq(Entry)
  BY DEF IncidentsOK
<1> QED
  BY <1>1, <1>2, Appended DEF Write, Tells

\* The incident that an event opens.
LEMMA OpenAdds ==
    ASSUME IncidentsOK, NEW e \in Events, PrintOf[e] # NoPrint, OpenIncident(e)
    PROVE  LET n == Len(incidents) + 1
           IN  /\ incidents' \in Seq(Incident) /\ links' \subseteq Nat \X Events
               /\ n \in Nat /\ n \notin DOMAIN incidents
               /\ DOMAIN incidents' = DOMAIN incidents \cup {n}
               /\ incidents'[n].print = PrintOf[e] /\ incidents'[n].status = "detected"
               /\ \A i \in DOMAIN incidents : incidents'[i] = incidents[i]
               /\ timeline' \in Seq(Entry) /\ Tells(n, "created", e)
<1> DEFINE n == Len(incidents) + 1
           row == [print |-> PrintOf[e], status |-> "detected", resolvedAt |-> FALSE]
<1>1. row \in Incident /\ row.print = PrintOf[e] /\ row.status = "detected"
  BY IncidentsAssumption DEF Incident, Status
<1>2. incidents \in Seq(Incident) /\ n \in Nat /\ n \notin DOMAIN incidents
  BY DEF IncidentsOK
<1>3. incidents' = Append(incidents, row) /\ links' = links \cup {<<n, e>>}
      /\ Write(n, "created", e)
  BY DEF OpenIncident
<1> HIDE DEF row
<1>4. /\ incidents' \in Seq(Incident) /\ incidents'[n] = row
      /\ DOMAIN incidents' = DOMAIN incidents \cup {n}
      /\ \A i \in DOMAIN incidents : incidents'[i] = incidents[i]
  BY <1>1, <1>2, <1>3, Appended
<1>5. "created" \in EntryType
  BY DEF EntryType
<1>6. timeline' \in Seq(Entry) /\ Tells(n, "created", e)
  BY <1>2, <1>3, <1>5, WriteTells
<1>7. links' \subseteq Nat \X Events
  BY <1>2, <1>3 DEF IncidentsOK
<1> QED
  BY <1>1, <1>2, <1>4, <1>6, <1>7

\* An operator's transaction: the row of i, and its entry.
LEMMA SetStatusTells ==
    ASSUME IncidentsOK, NEW i \in DOMAIN incidents, NEW status \in Status,
           NEW resolvedAt \in BOOLEAN, NEW type \in EntryType,
           SetStatus(i, status, resolvedAt, type)
    PROVE  /\ incidents' \in Seq(Incident) /\ DOMAIN incidents' = DOMAIN incidents
           /\ incidents'[i] = [incidents[i] EXCEPT !.status = status, !.resolvedAt = resolvedAt]
           /\ incidents'[i].print = incidents[i].print /\ incidents'[i].status = status
           /\ incidents'[i].resolvedAt = resolvedAt
           /\ \A j \in DOMAIN incidents \ {i} : incidents'[j] = incidents[j]
           /\ timeline' \in Seq(Entry) /\ Tells(i, type, NoEvent)
           /\ UNCHANGED links
<1> DEFINE row == [incidents[i] EXCEPT !.status = status, !.resolvedAt = resolvedAt]
<1>1. incidents \in Seq(Incident) /\ incidents[i] \in Incident /\ i \in Nat
  BY DEF IncidentsOK
<1>2. /\ row \in Incident /\ row.status = status /\ row.resolvedAt = resolvedAt
      /\ row.print = incidents[i].print
  BY <1>1 DEF Incident
<1>3. incidents' = [incidents EXCEPT ![i] = row] /\ Write(i, type, NoEvent) /\ UNCHANGED links
  BY <1>1 DEF SetStatus, Incident
<1> HIDE DEF row
<1>4. /\ incidents' \in Seq(Incident) /\ DOMAIN incidents' = DOMAIN incidents
      /\ incidents'[i] = row
      /\ \A j \in DOMAIN incidents \ {i} : incidents'[j] = incidents[j]
  BY <1>1, <1>2, <1>3
<1>5. timeline' \in Seq(Entry) /\ Tells(i, type, NoEvent)
  BY <1>1, <1>3, WriteTells
<1> USE DEF row
<1> QED
  BY <1>2, <1>3, <1>4, <1>5

\* Whatever an operator's request commits, the entry explains the new status.
LEMMA CommitTells ==
    ASSUME TypeOK, EntriesHaveIncidents, NEW o \in Operators, Commit(o)
    PROVE  \E i \in DOMAIN incidents, type \in EntryType \ {"created", "event_recurred"} :
              /\ incidents' \in Seq(Incident) /\ DOMAIN incidents' = DOMAIN incidents
              /\ incidents'[i].print = incidents[i].print
              /\ incidents'[i].status = StatusAfter[type]
              /\ incidents'[i].status = "resolved" => incidents'[i].resolvedAt
              /\ \A j \in DOMAIN incidents \ {i} : incidents'[j] = incidents[j]
              /\ timeline' \in Seq(Entry) /\ Tells(i, type, NoEvent)
              /\ UNCHANGED links
<1> DEFINE i == handling[o].incident
<1>1. i \in DOMAIN incidents /\ IncidentsOK
  BY DEF Commit, EntriesHaveIncidents, TypeOK
<1>2. incidents[i].resolvedAt = TRUE \/ incidents[i].resolvedAt = FALSE
  <2>1. incidents[i] \in Incident
    BY <1>1 DEF IncidentsOK
  <2> QED
    BY <2>1 DEF Incident
<1>3. \/ SetStatus(i, "acknowledged", TRUE, "acknowledged")
      \/ SetStatus(i, "acknowledged", FALSE, "acknowledged")
      \/ SetStatus(i, "resolved", TRUE, "resolved")
      \/ SetStatus(i, "acknowledged", FALSE, "reopened")
  BY <1>2 DEF Commit, Acknowledge, Resolve, Reopen
<1> HIDE DEF i
<1>4. /\ {"acknowledged", "resolved"} \subseteq Status
      /\ {"acknowledged", "resolved", "reopened"} \subseteq
            EntryType \ {"created", "event_recurred"}
      /\ StatusAfter["acknowledged"] = "acknowledged" /\ StatusAfter["resolved"] = "resolved"
      /\ StatusAfter["reopened"] = "acknowledged"
  BY DEF Status, EntryType, StatusAfter
<1>5. CASE SetStatus(i, "acknowledged", TRUE, "acknowledged")
           \/ SetStatus(i, "acknowledged", FALSE, "acknowledged")
  BY <1>1, <1>4, <1>5, SetStatusTells
<1>6. CASE SetStatus(i, "resolved", TRUE, "resolved")
  BY <1>1, <1>4, <1>6, SetStatusTells
<1>7. CASE SetStatus(i, "acknowledged", FALSE, "reopened")
  BY <1>1, <1>4, <1>7, SetStatusTells
<1> QED
  BY <1>3, <1>5, <1>6, <1>7

\* A delivery is recorded as pending.
LEMMA RecordAdds ==
    ASSUME ConsumerOK, NEW e \in Events, NEW ch \in Channels, NEW i \in Nat,
           deliveries' = Append(deliveries, [event |-> e, channel |-> ch, incident |-> i,
                                             status |-> "pending"])
    PROVE  LET n == Len(deliveries) + 1
           IN  /\ deliveries' \in Seq(Delivery)
               /\ n \notin DOMAIN deliveries /\ DOMAIN deliveries' = DOMAIN deliveries \cup {n}
               /\ deliveries'[n].event = e /\ deliveries'[n].channel = ch
               /\ deliveries'[n].incident = i
               /\ \A k \in DOMAIN deliveries : deliveries'[k] = deliveries[k]
<1> DEFINE row == [event |-> e, channel |-> ch, incident |-> i, status |-> "pending"]
<1>1. row \in Delivery /\ row.event = e /\ row.channel = ch /\ row.incident = i
  BY DEF Delivery
<1>2. deliveries \in Seq(Delivery) /\ deliveries' = Append(deliveries, row)
  BY DEF ConsumerOK
<1> HIDE DEF row
<1> QED
  BY <1>1, <1>2, Appended

\* Its outcome changes nothing else of it.
LEMMA DeliverKeeps ==
    ASSUME ConsumerOK, NEW c \in Slots, slots[c].row \in DOMAIN deliveries, Deliver(c)
    PROVE  /\ deliveries' \in Seq(Delivery) /\ DOMAIN deliveries' = DOMAIN deliveries
           /\ \A k \in DOMAIN deliveries :
                 /\ deliveries'[k].event = deliveries[k].event
                 /\ deliveries'[k].channel = deliveries[k].channel
                 /\ deliveries'[k].incident = deliveries[k].incident
<1> DEFINE r == slots[c].row
<1>1. PICK status \in {"delivered", "failed"} :
         deliveries' = [deliveries EXCEPT ![r].status = status]
  BY DEF Deliver
<1>2. deliveries \in Seq(Delivery) /\ r \in DOMAIN deliveries /\ deliveries[r] \in Delivery
  BY DEF ConsumerOK
<1>3. /\ [deliveries[r] EXCEPT !.status = status] \in Delivery
      /\ [deliveries[r] EXCEPT !.status = status].event = deliveries[r].event
      /\ [deliveries[r] EXCEPT !.status = status].channel = deliveries[r].channel
      /\ [deliveries[r] EXCEPT !.status = status].incident = deliveries[r].incident
  BY <1>2 DEF Delivery
<1> DEFINE row == [deliveries[r] EXCEPT !.status = status]
<1>4. deliveries' = [deliveries EXCEPT ![r] = row]
  BY <1>1, <1>2 DEF Delivery
<1> HIDE DEF r, row
<1>5. /\ deliveries' \in Seq(Delivery) /\ DOMAIN deliveries' = DOMAIN deliveries
      /\ deliveries'[r] = row
      /\ \A k \in DOMAIN deliveries \ {r} : deliveries'[k] = deliveries[k]
  <2>1. row \in Delivery
    BY <1>3 DEF row
  <2> QED
    BY <1>2, <1>4, <2>1
<1>6. /\ deliveries'[r].event = deliveries[r].event
      /\ deliveries'[r].channel = deliveries[r].channel
      /\ deliveries'[r].incident = deliveries[r].incident
  BY <1>3, <1>5 DEF row
<1> QED
  BY <1>5, <1>6

-----------------------------------------------------------------------------
(* Types, and rows that stay *)

LEMMA QueueTypes ==
    ASSUME TypeOK, NEW e \in Events, Publish(e) \/ Evict(e) \/ (\E c \in Slots : Take(c, e))
    PROVE  ConsumerOK'
<1>1. {"absent", "waiting", "active"} \subseteq JobState /\ 0 \in 0..MaxTries
  BY ConsumerAssumption DEF JobState
<1>2. CASE Publish(e) \/ Evict(e)
  <2>1. jobs' \in [Events -> JobState] /\ tries' \in [Events -> 0..MaxTries]
    BY <1>1, <1>2 DEF Publish, Evict, TypeOK, ConsumerOK
  <2> QED
    BY <1>2, <2>1 DEF Publish, Evict, TypeOK, ConsumerOK
<1>3. ASSUME NEW c \in Slots, Take(c, e)
      PROVE  ConsumerOK'
  <2>1. jobs' \in [Events -> JobState]
    BY <1>1, <1>3 DEF Take, TypeOK, ConsumerOK
  <2>2. slots' \in [Slots -> Handler]
    BY <1>3, TakeMoves DEF TypeOK
  <2> QED
    BY <1>3, <2>1, <2>2 DEF Take, TypeOK, ConsumerOK
<1> QED
  BY <1>2, <1>3

LEMMA HandlerTypes ==
    ASSUME TypeOK, NEW c \in Slots, HandlerKnows(c), HandlerStep(c)
    PROVE  ConsumerOK'
<1> USE DEF TypeOK
<1>1. /\ slots[c].event \in Events
  BY DEF HandlerKnows, HandlerStep, Store, SkipDuplicate, Find, Link, Note, Open, ListChannels,
         Dispatch, Deliver, Dispatched, Complete
<1>2. slots[c].incident \in Nat /\ slots[c].todo \in SUBSET Channels /\ slots[c].row \in Nat
  BY DEF ConsumerOK, Handler
<1>3. CASE Store(c) \/ SkipDuplicate(c) \/ Link(c) \/ Note(c) \/ Dispatched(c)
  <2>1. PICK p \in Points : Goto(c, p)
    BY <1>3 DEF Store, SkipDuplicate, Link, Note, Dispatched, Points
  <2>2. slots' \in [Slots -> Handler]
    BY <2>1, StepsMove DEF Moves, IncidentsOK
  <2>3. UNCHANGED <<jobs, tries, deliveries>> /\ events' \subseteq Events
    BY <1>1, <1>3 DEF Store, SkipDuplicate, Link, Note, Dispatched, ConsumerOK
  <2>4. faults' \subseteq PossibleFaults
    BY <1>3 DEF Store, SkipDuplicate, Link, Note, Dispatched, ConsumerOK, Fault, PossibleFaults
  <2> QED
    BY <2>2, <2>3, <2>4 DEF ConsumerOK
<1>4. CASE Find(c) \/ Open(c) \/ ListChannels(c)
  <2>1. slots' \in [Slots -> Handler]
    BY <1>4, StepsMove DEF Moves, IncidentsOK
  <2> QED
    BY <1>4, <2>1 DEF Find, Open, ListChannels, ConsumerOK
<1>5. ASSUME NEW ch \in Channels, Dispatch(c, ch)
      PROVE  ConsumerOK'
  <2>1. slots' \in [Slots -> Handler]
    BY <1>5, DispatchMoves DEF Moves
  <2>2. deliveries' \in Seq(Delivery)
    BY <1>1, <1>2, <1>5, DispatchMoves, RecordAdds DEF ConsumerOK
  <2> QED
    BY <1>5, <2>1, <2>2 DEF Dispatch, ConsumerOK
<1>6. CASE Deliver(c)
  <2>1. slots[c].row \in DOMAIN deliveries
    BY <1>6 DEF HandlerKnows, Deliver
  <2>2. slots' \in [Slots -> Handler]
    BY <1>6, StepsMove DEF Moves, IncidentsOK
  <2>3. deliveries' \in Seq(Delivery)
    BY <1>6, <2>1, DeliverKeeps
  <2> QED
    BY <1>6, <2>2, <2>3 DEF Deliver, ConsumerOK
<1>7. CASE Complete(c)
  <2>1. slots' \in [Slots -> Handler]
    BY <1>7, SlotFrees DEF Complete
  <2>2. jobs' \in [Events -> JobState]
    BY <1>7 DEF Complete, ConsumerOK, JobState
  <2> QED
    BY <1>7, <2>1, <2>2 DEF Complete, ConsumerOK
<1> QED
  BY <1>3, <1>4, <1>5, <1>6, <1>7 DEF HandlerStep

LEMMA FailureTypes ==
    ASSUME TypeOK, Held, WorkerCrash \/ \E c \in Slots : Throws(c)
    PROVE  ConsumerOK'
<1> USE DEF TypeOK
<1>1. CASE WorkerCrash
  <2>1. slots' \in [Slots -> Handler]
    BY <1>1, RestTyped DEF WorkerCrash
  <2>2. jobs' \in [Events -> JobState]
    BY <1>1 DEF WorkerCrash, ConsumerOK, JobState
  <2> QED
    BY <1>1, <2>1, <2>2 DEF WorkerCrash, Fault, PossibleFaults, ConsumerOK
<1>2. ASSUME NEW c \in Slots, Throws(c)
      PROVE  ConsumerOK'
  <2> DEFINE e == slots[c].event
  <2>1. e \in Events /\ jobs[e] = "active"
    BY <1>2 DEF Throws, Points, Held, HandlersKnow, HandlerKnows
  <2>2. tries[e] \in 0..MaxTries /\ tries[e] < MaxTries
    BY <2>1 DEF Held, AttemptLeft, ConsumerOK
  <2>3. tries[e] + 1 \in 0..MaxTries
    BY <2>2, ConsumerAssumption
  <2>4. tries' = [tries EXCEPT ![e] = tries[e] + 1]
    BY <1>2 DEF Throws
  <2>5. tries' \in [Events -> 0..MaxTries]
    BY <2>3, <2>4 DEF ConsumerOK
  <2>6. jobs' \in [Events -> JobState]
    BY <1>2 DEF Throws, ConsumerOK, JobState
  <2>7. slots' \in [Slots -> Handler]
    BY <1>2, SlotFrees DEF Throws
  <2> QED
    BY <1>2, <2>5, <2>6, <2>7 DEF Throws, Fault, PossibleFaults, ConsumerOK
<1> QED
  BY <1>1, <1>2

\* The steps that write the tables; the others are quiet.
Writers ==
    \/ \E c \in Slots : Store(c) \/ Note(c) \/ Open(c) \/ Deliver(c)
                        \/ (\E ch \in Channels : Dispatch(c, ch))
    \/ \E o \in Operators : Commit(o) /\ UNCHANGED consumerVars

LEMMA QuietSteps ==
    ASSUME TypeOK, HandlersKnow, [Next]_vars, ~Writers
    PROVE  Quiet /\ links' \subseteq Nat \X Events
<1>1. links \subseteq Nat \X Events
  BY DEF TypeOK, IncidentsOK
<1>2. CASE UNCHANGED vars
  BY <1>1, <1>2 DEF vars, incidentVars, consumerVars, Quiet
<1>3. CASE Console /\ UNCHANGED consumerVars
  <2>1. PICK o \in Operators :
           Abort(o) \/ \E op \in Operations, i \in DOMAIN incidents : Check(o, op, i)
    BY <1>3 DEF Console, Writers
  <2>2. UNCHANGED incidentVars
    BY <2>1 DEF Abort, Check
  <2> QED
    BY <1>1, <1>3, <2>2 DEF incidentVars, consumerVars, Quiet
<1>4. ASSUME NEW e \in Events, Publish(e) \/ Evict(e) \/ (\E c \in Slots : Take(c, e))
      PROVE  Quiet /\ links' = links
  BY <1>4 DEF Publish, Evict, Take, incidentVars, Quiet
<1>5. ASSUME NEW c \in Slots, HandlerStep(c) \/ Throws(c), ~Link(c)
      PROVE  Quiet /\ links' = links
  <2>1. \/ SkipDuplicate(c) \/ Find(c) \/ ListChannels(c) \/ Dispatched(c) \/ Complete(c)
        \/ Throws(c)
    BY <1>5 DEF HandlerStep, Writers
  <2> QED
    BY <2>1 DEF SkipDuplicate, Find, ListChannels, Dispatched, Complete, Throws,
                incidentVars, Quiet
<1>6. ASSUME NEW c \in Slots, Link(c)
      PROVE  Quiet /\ links' \subseteq Nat \X Events
  <2>1. slots[c].incident \in Nat /\ slots[c].event \in Events
    BY <1>6 DEF Link, HandlersKnow, HandlerKnows, TypeOK, ConsumerOK, Handler
  <2> QED
    BY <1>1, <1>6, <2>1 DEF Link, Quiet
<1>7. CASE WorkerCrash
  BY <1>1, <1>7 DEF WorkerCrash, incidentVars, Quiet
<1> QED
  BY <1>1, <1>2, <1>3, <1>4, <1>5, <1>6, <1>7 DEF Next, Consumer

LEMMA NoteWrites ==
    ASSUME TypeOK, NEW c \in Slots, HandlerKnows(c), Note(c)
    PROVE  /\ slots[c].event \in Events /\ slots[c].incident \in DOMAIN incidents
           /\ incidents[slots[c].incident].print = PrintOf[slots[c].event]
           /\ UNCHANGED <<incidents, links, deliveries, events>>
           /\ timeline' \in Seq(Entry)
           /\ Tells(slots[c].incident, "event_recurred", slots[c].event)
<1>1. /\ slots[c].event \in Events /\ slots[c].incident \in DOMAIN incidents
      /\ incidents[slots[c].incident].print = PrintOf[slots[c].event]
  BY DEF Note, HandlerKnows
<1>2. slots[c].incident \in Nat
  BY DEF TypeOK, ConsumerOK, Handler
<1>3. "event_recurred" \in EntryType
  BY DEF EntryType
<1> QED
  BY <1>1, <1>2, <1>3, WriteTells DEF Note, TypeOK

LEMMA OpenWrites ==
    ASSUME TypeOK, NEW c \in Slots, HandlerKnows(c), Open(c)
    PROVE  LET n == Len(incidents) + 1  e == slots[c].event
           IN  /\ e \in Events /\ incidents' \in Seq(Incident) /\ links' \subseteq Nat \X Events
               /\ n \in Nat /\ n \notin DOMAIN incidents
               /\ DOMAIN incidents' = DOMAIN incidents \cup {n}
               /\ incidents'[n].print = PrintOf[e] /\ incidents'[n].status = "detected"
               /\ \A i \in DOMAIN incidents : incidents'[i] = incidents[i]
               /\ timeline' \in Seq(Entry) /\ Tells(n, "created", e)
               /\ UNCHANGED <<deliveries, events>>
<1>1. slots[c].event \in Events /\ PrintOf[slots[c].event] # NoPrint
  BY DEF Open, HandlerKnows
<1>2. OpenIncident(slots[c].event) /\ UNCHANGED <<deliveries, events>>
  BY DEF Open
<1> QED
  BY <1>1, <1>2, OpenAdds DEF TypeOK

\* A delivery is recorded for a channel that had none of this event.
LEMMA DispatchWrites ==
    ASSUME TypeOK, NEW c \in Slots, NEW ch \in Channels, HandlerKnows(c), Dispatch(c, ch)
    PROVE  /\ UNCHANGED <<incidents, links, timeline, events>>
           /\ \/ UNCHANGED deliveries
              \/ LET n == Len(deliveries) + 1
                 IN  /\ n \notin DOMAIN deliveries
                     /\ DOMAIN deliveries' = DOMAIN deliveries \cup {n}
                     /\ deliveries'[n].event = slots[c].event /\ deliveries'[n].channel = ch
                     /\ deliveries'[n].incident = slots[c].incident
                     /\ \A k \in DOMAIN deliveries : deliveries'[k] = deliveries[k]
<1>1. slots[c].event \in Events /\ slots[c].incident \in Nat
  BY DEF Dispatch, HandlerKnows, TypeOK, ConsumerOK, Handler
<1>2. UNCHANGED <<incidents, links, timeline, events>>
  BY DEF Dispatch, incidentVars
<1>3. \/ UNCHANGED deliveries
      \/ deliveries' = Append(deliveries, [event |-> slots[c].event, channel |-> ch,
                                          incident |-> slots[c].incident,
                                          status |-> "pending"])
  BY DEF Dispatch
<1>4. CASE UNCHANGED deliveries
  BY <1>2, <1>4
<1>5. CASE deliveries' = Append(deliveries, [event |-> slots[c].event, channel |-> ch,
                                             incident |-> slots[c].incident,
                                             status |-> "pending"])
  BY <1>1, <1>2, <1>5, RecordAdds DEF TypeOK
<1> QED
  BY <1>3, <1>4, <1>5

LEMMA DeliverWrites ==
    ASSUME TypeOK, NEW c \in Slots, HandlerKnows(c), Deliver(c)
    PROVE  /\ UNCHANGED <<incidents, links, timeline, events>>
           /\ DOMAIN deliveries' = DOMAIN deliveries
           /\ \A k \in DOMAIN deliveries :
                 /\ deliveries'[k].event = deliveries[k].event
                 /\ deliveries'[k].channel = deliveries[k].channel
                 /\ deliveries'[k].incident = deliveries[k].incident
<1>1. slots[c].row \in DOMAIN deliveries /\ UNCHANGED <<incidents, links, timeline, events>>
  BY DEF Deliver, HandlerKnows, incidentVars
<1> QED
  BY <1>1, DeliverKeeps DEF TypeOK

LEMMA RowsStep ==
    ASSUME TypeOK, Held, EntriesHaveIncidents, [Next]_vars
    PROVE  TablesGrow /\ IncidentsOK'
<1> USE DEF TypeOK, TablesGrow, IncidentsOK
<1>1. \A c \in Slots : HandlerKnows(c)
  BY DEF Held, HandlersKnow
<1>2. CASE ~Writers
  BY <1>2, QuietSteps DEF Quiet, Held
<1>3. ASSUME NEW c \in Slots, Store(c)
      PROVE  TablesGrow /\ IncidentsOK'
  BY <1>3 DEF Store, incidentVars
<1>4. ASSUME NEW c \in Slots, Note(c)
      PROVE  TablesGrow /\ IncidentsOK'
  BY <1>1, <1>4, NoteWrites DEF Tells
<1>5. ASSUME NEW c \in Slots, Open(c)
      PROVE  TablesGrow /\ IncidentsOK'
  BY <1>1, <1>5, OpenWrites DEF Tells
<1>6. ASSUME NEW c \in Slots, NEW ch \in Channels, Dispatch(c, ch)
      PROVE  TablesGrow /\ IncidentsOK'
  BY <1>1, <1>6, DispatchWrites
<1>7. ASSUME NEW c \in Slots, Deliver(c)
      PROVE  TablesGrow /\ IncidentsOK'
  BY <1>1, <1>7, DeliverWrites
<1>8. ASSUME NEW o \in Operators, Commit(o), UNCHANGED consumerVars
      PROVE  TablesGrow /\ IncidentsOK'
  BY <1>8, CommitTells DEF Tells, consumerVars
<1> QED
  BY <1>2, <1>3, <1>4, <1>5, <1>6, <1>7, <1>8 DEF Writers

LEMMA ConsoleTypes ==
    ASSUME TypeOK, Console
    PROVE  ConsoleOK'
<1> USE RestTyped DEF TypeOK, ConsoleOK
<1>1. PICK o \in Operators :
         \/ Commit(o) \/ Abort(o)
         \/ \E op \in Operations, i \in DOMAIN incidents : Check(o, op, i)
  BY DEF Console
<1>2. CASE Commit(o) \/ Abort(o)
  BY <1>2 DEF Commit, Abort
<1>3. ASSUME NEW op \in Operations, NEW i \in DOMAIN incidents, Check(o, op, i)
      PROVE  ConsoleOK'
  <2>1. [op |-> op, incident |-> i] \in Handling
    BY DEF Handling, IncidentsOK
  <2>2. requests' \in 0..MaxRequests
    BY <1>3, ConsoleAssumption DEF Check
  <2> QED
    BY <1>3, <2>1, <2>2 DEF Check
<1> QED
  BY <1>1, <1>2, <1>3

LEMMA TypesStep ==
    ASSUME TypeOK, Held, EntriesHaveIncidents, [Next]_vars
    PROVE  TypeOK'
<1>1. IncidentsOK'
  BY RowsStep
<1>2. ConsoleOK'
  BY ConsoleTypes DEF TypeOK, ConsoleOK, Next, vars, consoleVars
<1>3. ConsumerOK'
  <2>1. CASE UNCHANGED consumerVars
    BY <2>1 DEF consumerVars, TypeOK, ConsumerOK
  <2>2. CASE Consumer
    <3>1. \A c \in Slots : HandlerStep(c) => ConsumerOK'
      BY HandlerTypes DEF Held, HandlersKnow
    <3> QED
      BY <2>2, <3>1, QueueTypes, FailureTypes DEF Consumer
  <2> QED
    BY <2>1, <2>2 DEF Next, vars
<1> QED
  BY <1>1, <1>2, <1>3 DEF TypeOK

-----------------------------------------------------------------------------
(* The tables *)

LEMMA NoEventIsNone == NoEvent \notin Events
  BY IncidentsAssumption

LEMMA TablesStep ==
    ASSUME TypeOK, HandlersKnow, Tables, [Next]_vars
    PROVE  DuplicatesAreSkipped' /\ EventsBelong'
<1> USE NoEventIsNone DEF Tables, EntriesHaveIncidents
<1>1. \A c \in Slots : HandlerKnows(c)
  BY DEF HandlersKnow
<1>2. CASE Quiet
  BY <1>2 DEF Quiet, DuplicatesAreSkipped, EventsBelong, Named
<1>3. ASSUME NEW c \in Slots, Store(c)
      PROVE  DuplicatesAreSkipped' /\ EventsBelong'
  BY <1>3 DEF Store, incidentVars, DuplicatesAreSkipped, EventsBelong, Named
\* An entry is written about an event that is in no timeline, or about none.
<1>4. ASSUME NEW i, NEW type, NEW e, e \in events \/ e = NoEvent, Tells(i, type, e),
             e # NoEvent => /\ incidents'[i].print = PrintOf[e]
                            /\ \A k \in DOMAIN timeline : timeline[k].event # e,
             \A j \in DOMAIN incidents : incidents'[j].print = incidents[j].print,
             UNCHANGED <<deliveries, events>>
      PROVE  DuplicatesAreSkipped' /\ EventsBelong'
  <2>1. \A k, l \in DOMAIN timeline' :
           timeline'[k].event = timeline'[l].event /\ timeline'[k].event # NoEvent => k = l
    BY <1>4 DEF Tells, DuplicatesAreSkipped
  <2>2. DuplicatesAreSkipped'
    BY <1>4, <2>1 DEF DuplicatesAreSkipped
  <2>3. \A f \in Events : f # e => Named(f)' = Named(f)
    BY <1>4 DEF Tells, Named
  <2>4. \A f \in Events : Named(f)' # {} => f \in events'
    BY <1>4, <2>3 DEF EventsBelong
  <2>5. \A k \in DOMAIN timeline' : timeline'[k].event # NoEvent =>
           incidents'[timeline'[k].incident].print = PrintOf[timeline'[k].event]
    BY <1>4 DEF Tells, EventsBelong
  <2>6. (\A k \in DOMAIN deliveries : deliveries[k].incident \in Named(deliveries[k].event))'
    <3> SUFFICES ASSUME NEW k \in DOMAIN deliveries
                 PROVE  \E l \in DOMAIN timeline' :
                           /\ timeline'[l].event = deliveries[k].event
                           /\ timeline'[l].incident = deliveries[k].incident
      BY <1>4 DEF Named
    <3>1. deliveries[k] \in Delivery
      BY DEF TypeOK, ConsumerOK
    <3>2. deliveries[k].event \in Events
      BY <3>1 DEF Delivery
    <3>3. PICK l \in DOMAIN timeline : /\ timeline[l].event = deliveries[k].event
                                        /\ timeline[l].incident = deliveries[k].incident
      BY DEF EventsBelong, Named
    <3> QED
      BY <1>4, <3>2, <3>3 DEF Tells
  <2>7. EventsBelong'
    BY <2>4, <2>5, <2>6 DEF EventsBelong, Named
  <2> QED
    BY <2>2, <2>7
<1>5. ASSUME NEW c \in Slots, Note(c)
      PROVE  DuplicatesAreSkipped' /\ EventsBelong'
  <2>1. /\ slots[c].event \in events
        /\ \A k \in DOMAIN timeline : timeline[k].event # slots[c].event
    BY <1>1, <1>5 DEF Note, HandlerKnows
  <2> QED
    BY <1>1, <1>4, <1>5, <2>1, NoteWrites
<1>6. ASSUME NEW c \in Slots, Open(c)
      PROVE  DuplicatesAreSkipped' /\ EventsBelong'
  <2>1. /\ slots[c].event \in events
        /\ \A k \in DOMAIN timeline : timeline[k].event # slots[c].event
    BY <1>1, <1>6 DEF Open, HandlerKnows
  <2> QED
    BY <1>1, <1>4, <1>6, <2>1, OpenWrites
<1>7. ASSUME NEW o \in Operators, Commit(o), UNCHANGED consumerVars
      PROVE  DuplicatesAreSkipped' /\ EventsBelong'
  <2>1. PICK i \in DOMAIN incidents, type \in EntryType :
           /\ Tells(i, type, NoEvent) /\ incidents'[i].print = incidents[i].print
           /\ \A j \in DOMAIN incidents \ {i} : incidents'[j] = incidents[j]
    BY <1>7, CommitTells
  <2> QED
    BY <1>4, <1>7, <2>1 DEF consumerVars
<1>8. ASSUME NEW c \in Slots, NEW ch \in Channels, Dispatch(c, ch)
      PROVE  DuplicatesAreSkipped' /\ EventsBelong'
  <2> DEFINE e == slots[c].event  i == slots[c].incident
  <2>1. /\ e \in Events /\ i \in Named(e)
        /\ \A k \in DOMAIN deliveries :
              deliveries[k].event = e => deliveries[k].channel # ch
    BY <1>1, <1>8 DEF Dispatch, HandlerKnows, Named
  <2>2. UNCHANGED <<incidents, timeline, events>> /\ \A f : Named(f)' = Named(f)
    BY <1>1, <1>8, DispatchWrites DEF Named
  <2>3. CASE UNCHANGED deliveries
    BY <2>2, <2>3 DEF DuplicatesAreSkipped, EventsBelong
  <2>4. CASE LET n == Len(deliveries) + 1
             IN  /\ n \notin DOMAIN deliveries /\ DOMAIN deliveries' = DOMAIN deliveries \cup {n}
                 /\ deliveries'[n].event = e /\ deliveries'[n].channel = ch
                 /\ deliveries'[n].incident = i
                 /\ \A k \in DOMAIN deliveries : deliveries'[k] = deliveries[k]
    <3>1. DuplicatesAreSkipped'
      BY <2>1, <2>2, <2>4 DEF DuplicatesAreSkipped
    <3>2. EventsBelong'
      BY <2>1, <2>2, <2>4 DEF EventsBelong
    <3> QED
      BY <3>1, <3>2
  <2> QED
    BY <1>1, <1>8, <2>3, <2>4, DispatchWrites
<1>9. ASSUME NEW c \in Slots, Deliver(c)
      PROVE  DuplicatesAreSkipped' /\ EventsBelong'
  <2>1. /\ UNCHANGED <<incidents, timeline, events>> /\ DOMAIN deliveries' = DOMAIN deliveries
        /\ \A k \in DOMAIN deliveries :
              /\ deliveries'[k].event = deliveries[k].event
              /\ deliveries'[k].channel = deliveries[k].channel
              /\ deliveries'[k].incident = deliveries[k].incident
    BY <1>1, <1>9, DeliverWrites
  <2>2. \A f : Named(f)' = Named(f)
    BY <2>1 DEF Named
  <2>3. DuplicatesAreSkipped'
    BY <2>1 DEF DuplicatesAreSkipped
  <2>4. EventsBelong'
    BY <2>1, <2>2 DEF EventsBelong
  <2> QED
    BY <2>3, <2>4
<1> QED
  BY <1>2, <1>3, <1>5, <1>6, <1>7, <1>8, <1>9, QuietSteps DEF Writers

LEMMA EntriesStep ==
    ASSUME TypeOK, HandlersKnow, EntriesHaveIncidents, [Next]_vars
    PROVE  EntriesHaveIncidents'
<1> USE DEF EntriesHaveIncidents
<1>1. \A c \in Slots : HandlerKnows(c)
  BY DEF HandlersKnow
<1>2. \A i \in DOMAIN incidents : i \in DOMAIN incidents'
  <2>1. CASE UNCHANGED incidents
    BY <2>1
  <2>2. ASSUME NEW c \in Slots, Open(c)
        PROVE  \A i \in DOMAIN incidents : i \in DOMAIN incidents'
    BY <1>1, <2>2, OpenWrites
  <2>3. ASSUME NEW o \in Operators, Commit(o)
        PROVE  \A i \in DOMAIN incidents : i \in DOMAIN incidents'
    BY <2>3, CommitTells
  <2>4. ASSUME NEW c \in Slots,
               Store(c) \/ Note(c) \/ Deliver(c) \/ \E ch \in Channels : Dispatch(c, ch)
        PROVE  UNCHANGED incidents
    BY <2>4 DEF Store, Note, Deliver, Dispatch, incidentVars
  <2> QED
    BY <2>1, <2>2, <2>3, <2>4, QuietSteps DEF Writers, Quiet
<1>3. \A k \in DOMAIN timeline' : timeline'[k].incident \in DOMAIN incidents'
  <2>1. CASE UNCHANGED timeline
    BY <1>2, <2>1
  <2>2. ASSUME NEW i \in DOMAIN incidents', NEW type, NEW e, Tells(i, type, e)
        PROVE  \A k \in DOMAIN timeline' : timeline'[k].incident \in DOMAIN incidents'
    BY <1>2, <2>2 DEF Tells
  <2>3. ASSUME NEW c \in Slots, Note(c)
        PROVE  \A k \in DOMAIN timeline' : timeline'[k].incident \in DOMAIN incidents'
    BY <1>1, <1>2, <2>2, <2>3, NoteWrites
  <2>4. ASSUME NEW c \in Slots, Open(c)
        PROVE  \A k \in DOMAIN timeline' : timeline'[k].incident \in DOMAIN incidents'
    BY <1>1, <2>2, <2>4, OpenWrites
  <2>5. ASSUME NEW o \in Operators, Commit(o)
        PROVE  \A k \in DOMAIN timeline' : timeline'[k].incident \in DOMAIN incidents'
    BY <1>2, <2>2, <2>5, CommitTells
  <2>6. ASSUME NEW c \in Slots, Store(c) \/ Deliver(c) \/ \E ch \in Channels : Dispatch(c, ch)
        PROVE  UNCHANGED timeline
    BY <2>6 DEF Store, Deliver, Dispatch, incidentVars
  <2> QED
    BY <2>1, <2>3, <2>4, <2>5, <2>6, QuietSteps DEF Writers, Quiet
<1>4. \A o \in Operators : handling'[o] # Nothing => handling'[o].incident \in DOMAIN incidents'
  <2>1. CASE UNCHANGED handling
    BY <1>2, <2>1
  <2>2. ASSUME NEW o \in Operators, Commit(o) \/ Abort(o)
        PROVE  handling' = [handling EXCEPT ![o] = Nothing]
    BY <2>2 DEF Commit, Abort
  <2>3. ASSUME NEW o \in Operators, NEW op \in Operations, NEW i \in DOMAIN incidents,
               Check(o, op, i)
        PROVE  handling' = [handling EXCEPT ![o] = [op |-> op, incident |-> i]]
    BY <2>3 DEF Check
  <2>4. handling \in [Operators -> Handling]
    BY DEF TypeOK, ConsoleOK
  <2> QED
    BY <1>2, <2>1, <2>2, <2>3, <2>4 DEF Next, Console, vars, consoleVars
<1> QED
  BY <1>3, <1>4

-----------------------------------------------------------------------------
(* Timelines *)

\* The entry k is the last to change the status of i, to what it is now.
LastChange(i, k) ==
    /\ timeline[k].incident = i /\ timeline[k].type # "event_recurred"
    /\ \A l \in DOMAIN timeline :
          timeline[l].incident = i /\ timeline[l].type # "event_recurred" => l <= k
    /\ incidents[i].status = StatusAfter[timeline[k].type]

LEMMA Explained ==
    TimelineExplainsStatus <=>
        \A i \in DOMAIN incidents :
            /\ \E k \in DOMAIN timeline : LastChange(i, k)
            /\ incidents[i].status = "resolved" => incidents[i].resolvedAt
  BY DEF TimelineExplainsStatus, LastChange

LEMMA TimelineStep ==
    ASSUME TypeOK, HandlersKnow, EntriesHaveIncidents, TimelineExplainsStatus, [Next]_vars
    PROVE  TimelineExplainsStatus'
<1>1. \A c \in Slots : HandlerKnows(c)
  BY DEF HandlersKnow
<1>2. ASSUME NEW i \in DOMAIN incidents
      PROVE  /\ \E k \in DOMAIN timeline : LastChange(i, k)
             /\ incidents[i].status = "resolved" => incidents[i].resolvedAt
  BY Explained
<1>3. timeline \in Seq(Entry) /\ DOMAIN timeline \subseteq Nat
  BY DEF TypeOK, IncidentsOK
<1>4. SUFFICES ASSUME NEW i \in DOMAIN incidents'
               PROVE  /\ (\E k \in DOMAIN timeline : LastChange(i, k))'
                      /\ incidents'[i].status = "resolved" => incidents'[i].resolvedAt
  BY DEF TimelineExplainsStatus, LastChange
<1>5. CASE UNCHANGED <<timeline, incidents>>
  BY <1>2, <1>5 DEF LastChange
\* The row of i is what it was, and the new entry is not a change of its status.
<1>6. ASSUME NEW j, NEW type, NEW e, Tells(j, type, e), j # i \/ type = "event_recurred",
             i \in DOMAIN incidents, incidents'[i] = incidents[i]
      PROVE  /\ (\E k \in DOMAIN timeline : LastChange(i, k))'
             /\ incidents'[i].status = "resolved" => incidents'[i].resolvedAt
  <2>1. PICK k \in DOMAIN timeline : LastChange(i, k)
    BY <1>2, <1>6
  <2>2. k \in DOMAIN timeline' /\ LastChange(i, k)'
    BY <1>6, <2>1 DEF LastChange, Tells
  <2> QED
    BY <1>2, <1>6, <2>2
\* The new entry is the change the row of i made.
<1>7. ASSUME NEW type \in EntryType \ {"event_recurred"}, NEW e, Tells(i, type, e),
             incidents'[i].status = StatusAfter[type]
      PROVE  (\E k \in DOMAIN timeline : LastChange(i, k))'
  <2>1. PICK n \in DOMAIN timeline' : /\ n = Len(timeline) + 1 /\ n \in Nat
                                      /\ timeline'[n].incident = i /\ timeline'[n].type = type
    BY <1>3, <1>7 DEF Tells
  <2>2. \A l \in DOMAIN timeline' : l <= n
    BY <1>3, <1>7, <2>1 DEF Tells
  <2>3. LastChange(i, n)'
    BY <1>7, <2>1, <2>2 DEF LastChange
  <2> QED
    BY <2>1, <2>3
<1>8. ASSUME NEW c \in Slots, Note(c)
      PROVE  /\ (\E k \in DOMAIN timeline : LastChange(i, k))'
             /\ incidents'[i].status = "resolved" => incidents'[i].resolvedAt
  BY <1>1, <1>6, <1>8, NoteWrites
<1>9. ASSUME NEW c \in Slots, Open(c)
      PROVE  /\ (\E k \in DOMAIN timeline : LastChange(i, k))'
             /\ incidents'[i].status = "resolved" => incidents'[i].resolvedAt
  <2> DEFINE n == Len(incidents) + 1
  <2>1. /\ DOMAIN incidents' = DOMAIN incidents \cup {n} /\ incidents'[n].status = "detected"
        /\ \A j \in DOMAIN incidents : incidents'[j] = incidents[j]
        /\ Tells(n, "created", slots[c].event) /\ n \notin DOMAIN incidents
    BY <1>1, <1>9, OpenWrites
  <2>2. CASE i = n
    <3>1. "created" \in EntryType \ {"event_recurred"} /\ StatusAfter["created"] = "detected"
      BY DEF EntryType, StatusAfter
    <3> QED
      BY <1>7, <2>1, <2>2, <3>1
  <2>3. CASE i # n
    BY <1>6, <2>1, <2>3
  <2> QED
    BY <2>2, <2>3
<1>10. ASSUME NEW o \in Operators, Commit(o)
       PROVE  /\ (\E k \in DOMAIN timeline : LastChange(i, k))'
              /\ incidents'[i].status = "resolved" => incidents'[i].resolvedAt
  <2>1. PICK j \in DOMAIN incidents, type \in EntryType \ {"created", "event_recurred"} :
           /\ DOMAIN incidents' = DOMAIN incidents
           /\ incidents'[j].status = StatusAfter[type]
           /\ incidents'[j].status = "resolved" => incidents'[j].resolvedAt
           /\ \A h \in DOMAIN incidents \ {j} : incidents'[h] = incidents[h]
           /\ Tells(j, type, NoEvent)
    BY <1>10, CommitTells
  <2>2. CASE i = j
    BY <1>7, <2>1, <2>2
  <2>3. CASE i # j
    BY <1>6, <2>1, <2>3
  <2> QED
    BY <2>2, <2>3
<1>11. ASSUME NEW c \in Slots, Store(c) \/ Deliver(c) \/ \E ch \in Channels : Dispatch(c, ch)
       PROVE  UNCHANGED <<timeline, incidents>>
  BY <1>11 DEF Store, Deliver, Dispatch, incidentVars
<1> QED
  BY <1>5, <1>8, <1>9, <1>10, <1>11, QuietSteps DEF Writers, Quiet

-----------------------------------------------------------------------------
(* Handlers *)

\* What a handler knows outlives the steps of others: their rows are about other events.
LEMMA StaysKnown ==
    ASSUME NEW d \in Slots, HandlerKnows(d), TablesGrow, slots'[d] = slots[d],
           slots[d].at # "idle" => jobs'[slots[d].event] = jobs[slots[d].event],
           slots[d].at # "idle" =>
              /\ \A k \in DOMAIN timeline' :
                    k \in DOMAIN timeline \/ timeline'[k].event # slots[d].event
              /\ \A k \in DOMAIN deliveries' :
                    k \in DOMAIN deliveries \/ deliveries'[k].event # slots[d].event
    PROVE  HandlerKnows(d)'
<1> DEFINE e == slots[d].event
<1>1. slots[d].at # "idle" => e \in Events /\ jobs'[e] = "active"
  BY DEF HandlerKnows
<1>2. slots[d].at \notin {"idle", "store"} => e \in events'
  BY DEF HandlerKnows, TablesGrow
<1>3. slots[d].at \notin {"idle", "store", "done"} => PrintOf[e] # NoPrint
  BY DEF HandlerKnows
<1>4. slots[d].at \in {"find", "link", "note", "open"} =>
         \A k \in DOMAIN timeline' : timeline'[k].event # e
  BY DEF HandlerKnows, TablesGrow
<1>5. slots[d].at \in {"link", "note"} =>
         /\ slots[d].incident \in DOMAIN incidents'
         /\ incidents'[slots[d].incident].print = PrintOf[e]
  BY DEF HandlerKnows, TablesGrow
<1>6. slots[d].at \in {"notify", "dispatch", "deliver"} =>
         \E k \in DOMAIN timeline' :
            timeline'[k].event = e /\ timeline'[k].incident = slots[d].incident
  BY DEF HandlerKnows, TablesGrow
<1>7. slots[d].at = "notify" => \A k \in DOMAIN deliveries' : deliveries'[k].event # e
  BY DEF HandlerKnows, TablesGrow
<1>8. slots[d].at \in {"dispatch", "deliver"} =>
         \A k \in DOMAIN deliveries' :
            deliveries'[k].event = e => deliveries'[k].channel \notin slots[d].todo
  BY DEF HandlerKnows, TablesGrow
<1>9. slots[d].at = "deliver" => slots[d].row \in DOMAIN deliveries'
  BY DEF HandlerKnows, TablesGrow
<1> QED
  BY <1>1, <1>2, <1>3, <1>4, <1>5, <1>6, <1>7, <1>8, <1>9 DEF HandlerKnows

LEMMA TellsAdds ==
    ASSUME NEW i, NEW type, NEW e, Tells(i, type, e)
    PROVE  \A k \in DOMAIN timeline' : k \in DOMAIN timeline \/ timeline'[k].event = e
  BY DEF Tells

\* What the handler that takes a step adds is about its event.
LEMMA AddsOwn ==
    ASSUME TypeOK, NEW c \in Slots, HandlerKnows(c), HandlerStep(c)
    PROVE  /\ \A k \in DOMAIN timeline' :
                 k \in DOMAIN timeline \/ timeline'[k].event = slots[c].event
           /\ \A k \in DOMAIN deliveries' :
                 k \in DOMAIN deliveries \/ deliveries'[k].event = slots[c].event
<1>1. CASE Note(c)
  BY <1>1, NoteWrites, TellsAdds
<1>2. CASE Open(c)
  BY <1>2, OpenWrites, TellsAdds
<1>3. ASSUME NEW ch \in Channels, Dispatch(c, ch)
      PROVE  /\ \A k \in DOMAIN timeline' :
                   k \in DOMAIN timeline \/ timeline'[k].event = slots[c].event
             /\ \A k \in DOMAIN deliveries' :
                   k \in DOMAIN deliveries \/ deliveries'[k].event = slots[c].event
  BY <1>3, DispatchWrites
<1>4. CASE Deliver(c)
  BY <1>4, DeliverWrites
<1>5. CASE \/ Store(c) \/ SkipDuplicate(c) \/ Find(c) \/ Link(c) \/ ListChannels(c)
           \/ Dispatched(c) \/ Complete(c)
  BY <1>5 DEF Store, SkipDuplicate, Find, Link, ListChannels, Dispatched, Complete, incidentVars
<1> QED
  BY <1>1, <1>2, <1>3, <1>4, <1>5 DEF HandlerStep

\* The others stay where they are and have other events, and their jobs stay active.
LEMMA OthersStay ==
    ASSUME TypeOK, Held, NEW c \in Slots, HandlerStep(c)
    PROVE  /\ \A d \in Slots \ {c} : slots'[d] = slots[d]
           /\ \A d \in Slots \ {c} :
                 slots[d].at # "idle" =>
                    /\ slots[d].event # slots[c].event
                    /\ jobs'[slots[d].event] = jobs[slots[d].event]
<1> USE DEF TypeOK
<1>1. \A d \in Slots \ {c} : slots'[d] = slots[d]
  <2>1. ASSUME NEW p \in Points, Goto(c, p)
        PROVE  \A d \in Slots \ {c} : slots'[d] = slots[d]
    BY <2>1, StepsMove DEF Moves, IncidentsOK
  <2>2. CASE Store(c) \/ SkipDuplicate(c) \/ Link(c) \/ Note(c) \/ Dispatched(c)
    BY <2>1, <2>2 DEF Store, SkipDuplicate, Link, Note, Dispatched, Points
  <2>3. CASE Find(c) \/ Open(c) \/ ListChannels(c) \/ Deliver(c)
    BY <2>3, StepsMove DEF Moves, IncidentsOK
  <2>4. CASE \E ch \in Channels : Dispatch(c, ch)
    BY <2>4, DispatchMoves DEF Moves
  <2>5. CASE Complete(c)
    BY <2>5, SlotFrees DEF Complete
  <2> QED
    BY <2>2, <2>3, <2>4, <2>5 DEF HandlerStep
<1>2. slots[c].at # "idle"
  BY DEF HandlerStep, Store, SkipDuplicate, Find, Link, Note, Open, ListChannels, Dispatch,
         Deliver, Dispatched, Complete
<1>3. \A d \in Slots \ {c} : slots[d].at # "idle" => slots[d].event # slots[c].event
  BY <1>2 DEF Held, HeldOnce
<1>4. jobs' = jobs \/ jobs' = [jobs EXCEPT ![slots[c].event] = "completed"]
  BY DEF HandlerStep, Store, SkipDuplicate, Find, Link, Note, Open, ListChannels, Dispatch,
         Deliver, Dispatched, Complete
<1>5. \A d \in Slots : slots[d].at # "idle" => slots[d].event \in Events
  BY DEF Held, HandlersKnow, HandlerKnows
<1> QED
  BY <1>1, <1>3, <1>4, <1>5 DEF ConsumerOK

LEMMA OwnStepKnows ==
    ASSUME TypeOK, Held, Tables, TablesGrow, NEW c \in Slots, HandlerStep(c)
    PROVE  HandlerKnows(c)'
<1> DEFINE e == slots[c].event
<1> USE DEF TypeOK
<1>1. HandlerKnows(c) /\ e \in Events /\ jobs[e] = "active" /\ IncidentsOK /\ ConsumerOK
  BY DEF Held, HandlersKnow, HandlerKnows, HandlerStep, Store, SkipDuplicate, Find, Link, Note,
         Open, ListChannels, Dispatch, Deliver, Dispatched, Complete
<1>2. \A p \in Points : Goto(c, p) => slots'[c].at = p /\ slots'[c].event = e
                                       /\ slots'[c].incident = slots[c].incident
  BY <1>1, StepsMove DEF IncidentsOK, Moves
<1>3. \A f \in Events : f \notin events => \A k \in DOMAIN timeline : timeline[k].event # f
  BY DEF Tables, EventsBelong, Named
<1>4. CASE Store(c)
  <2>1. /\ UNCHANGED <<incidents, timeline, deliveries, jobs>> /\ e \in events' /\ e \notin events
        /\ Goto(c, IF PrintOf[e] = NoPrint THEN "done" ELSE "find")
    BY <1>4 DEF Store, incidentVars
  <2>2. CASE PrintOf[e] = NoPrint
    BY <1>1, <1>2, <2>1, <2>2 DEF HandlerKnows, Points
  <2>3. CASE PrintOf[e] # NoPrint
    BY <1>1, <1>2, <1>3, <2>1, <2>3 DEF HandlerKnows, Points
  <2> QED
    BY <2>2, <2>3
<1>5. CASE SkipDuplicate(c)
  BY <1>1, <1>2, <1>5 DEF SkipDuplicate, HandlerKnows, Points
<1>6. CASE Find(c)
  <2>1. /\ UNCHANGED <<incidents, timeline, deliveries, events, jobs>> /\ slots[c].at = "find"
    BY <1>6 DEF Find, incidentVars
  <2>2. CASE slots'[c].at = "open" /\ slots'[c].event = e
    BY <1>1, <2>1, <2>2 DEF HandlerKnows
  <2>3. CASE /\ slots'[c].at = "link" /\ slots'[c].event = e
             /\ slots'[c].incident \in OpenFor(e)
    BY <1>1, <2>1, <2>3 DEF HandlerKnows, OpenFor
  <2> QED
    BY <1>6, <2>2, <2>3, StepsMove DEF IncidentsOK, Moves
<1>7. CASE Link(c)
  BY <1>1, <1>2, <1>7 DEF Link, HandlerKnows, Points
\* From here on the event is in the timeline of the incident.
<1>8. ASSUME NEW i, NEW type, Tells(i, type, e), e \in events', PrintOf[e] # NoPrint,
             \A k \in DOMAIN timeline : timeline[k].event # e, UNCHANGED <<jobs, deliveries>>,
             slots'[c].at = "notify", slots'[c].event = e, slots'[c].incident = i
      PROVE  HandlerKnows(c)'
  <2>1. \E k \in DOMAIN timeline' : timeline'[k].event = e /\ timeline'[k].incident = i
    BY <1>8 DEF Tells
  <2>2. \A k \in DOMAIN deliveries' : deliveries'[k].event # e
    BY <1>8 DEF Tables, EventsBelong, Named
  <2> QED
    BY <1>1, <1>8, <2>1, <2>2 DEF HandlerKnows
<1>9. CASE Note(c)
  <2>1. /\ slots[c].at = "note" /\ UNCHANGED <<jobs, deliveries, events>>
        /\ slots'[c].at = "notify" /\ slots'[c].event = e
        /\ slots'[c].incident = slots[c].incident
    BY <1>2, <1>9 DEF Note, Points
  <2>2. Tells(slots[c].incident, "event_recurred", e)
    BY <1>1, <1>9, NoteWrites
  <2> QED
    BY <1>1, <1>8, <2>1, <2>2 DEF HandlerKnows
<1>10. CASE Open(c)
  <2>1. /\ slots[c].at = "open" /\ UNCHANGED <<jobs, deliveries, events>>
        /\ slots'[c].at = "notify" /\ slots'[c].event = e
        /\ slots'[c].incident = Len(incidents) + 1
    BY <1>10, StepsMove DEF IncidentsOK, Open, Moves
  <2>2. Tells(Len(incidents) + 1, "created", e)
    BY <1>1, <1>10, OpenWrites
  <2> QED
    BY <1>1, <1>8, <2>1, <2>2 DEF HandlerKnows
<1>11. CASE ListChannels(c)
  <2>1. /\ slots[c].at = "notify" /\ UNCHANGED <<incidents, timeline, deliveries, events, jobs>>
        /\ slots'[c].at = "dispatch" /\ slots'[c].event = e
        /\ slots'[c].incident = slots[c].incident
    BY <1>11, StepsMove DEF IncidentsOK, ListChannels, Moves, incidentVars
  <2> QED
    BY <1>1, <2>1 DEF HandlerKnows
<1>12. ASSUME NEW ch \in Channels, Dispatch(c, ch)
       PROVE  HandlerKnows(c)'
  <2>1. /\ slots[c].at = "dispatch" /\ UNCHANGED <<incidents, timeline, events, jobs>>
    BY <1>12 DEF Dispatch, incidentVars
  <2>2. /\ slots'[c].event = e /\ slots'[c].incident = slots[c].incident
        /\ slots'[c].todo = slots[c].todo \ {ch}
    BY <1>12, DispatchMoves DEF Moves
  <2>3. CASE UNCHANGED deliveries /\ slots'[c].at = "dispatch"
    BY <1>1, <2>1, <2>2, <2>3 DEF HandlerKnows
  <2>4. CASE ~(UNCHANGED deliveries /\ slots'[c].at = "dispatch")
    <3>1. /\ deliveries' = Append(deliveries, [event |-> e, channel |-> ch,
                                              incident |-> slots[c].incident,
                                              status |-> "pending"])
          /\ slots'[c].at = "deliver" /\ slots'[c].row = Len(deliveries) + 1
      BY <1>12, <2>4, DispatchMoves DEF Moves
    <3>2. PICK n : /\ n = Len(deliveries) + 1 /\ DOMAIN deliveries' = DOMAIN deliveries \cup {n}
                   /\ deliveries'[n].channel = ch
                   /\ \A k \in DOMAIN deliveries : deliveries'[k] = deliveries[k]
      <4>1. slots[c].incident \in Nat
        BY DEF ConsumerOK, Handler
      <4> QED
        BY <1>1, <3>1, <4>1, RecordAdds
    <3>3. \A k \in DOMAIN deliveries' :
             deliveries'[k].event = e => deliveries'[k].channel \notin slots'[c].todo
      BY <1>1, <2>1, <2>2, <3>2 DEF HandlerKnows
    <3> QED
      BY <1>1, <2>1, <2>2, <3>1, <3>2, <3>3 DEF HandlerKnows
  <2> QED
    BY <2>3, <2>4
<1>13. CASE Deliver(c)
  <2>1. /\ slots[c].at = "deliver" /\ UNCHANGED <<incidents, timeline, events, jobs>>
        /\ slots'[c].at = "dispatch" /\ slots'[c].event = e
        /\ slots'[c].incident = slots[c].incident /\ slots'[c].todo = slots[c].todo
    BY <1>13, StepsMove DEF IncidentsOK, Deliver, Moves, incidentVars
  <2>2. \A k \in DOMAIN deliveries' :
           deliveries'[k].event = e => deliveries'[k].channel \notin slots'[c].todo
    BY <1>1, <1>13, <2>1, DeliverWrites DEF HandlerKnows
  <2> QED
    BY <1>1, <2>1, <2>2 DEF HandlerKnows
<1>14. CASE Dispatched(c)
  BY <1>1, <1>2, <1>14 DEF Dispatched, HandlerKnows, Points
<1>15. CASE Complete(c)
  BY <1>15, SlotFrees, RestTyped DEF Complete, HandlerKnows
<1> QED
  BY <1>4, <1>5, <1>6, <1>7, <1>9, <1>10, <1>11, <1>12, <1>13, <1>14, <1>15 DEF HandlerStep

LEMMA StepKeepsEvent ==
    ASSUME TypeOK, NEW c \in Slots, HandlerStep(c)
    PROVE  slots'[c].at = "idle" \/ slots'[c].event = slots[c].event
<1> USE DEF TypeOK
<1>1. \A p \in Points : Goto(c, p) => slots'[c].event = slots[c].event
  BY StepsMove DEF IncidentsOK, Moves
<1>2. CASE Store(c) \/ SkipDuplicate(c) \/ Link(c) \/ Note(c) \/ Dispatched(c)
  BY <1>1, <1>2 DEF Store, SkipDuplicate, Link, Note, Dispatched, Points
<1>3. CASE Find(c) \/ Open(c) \/ ListChannels(c) \/ Deliver(c)
  BY <1>3, StepsMove DEF IncidentsOK, Moves
<1>4. CASE \E ch \in Channels : Dispatch(c, ch)
  BY <1>4, DispatchMoves DEF Moves
<1>5. CASE Complete(c)
  BY <1>5, SlotFrees, RestTyped DEF Complete
<1> QED
  BY <1>2, <1>3, <1>4, <1>5 DEF HandlerStep

LEMMA HeldByHandler ==
    ASSUME TypeOK, Held, Tables, TablesGrow, NEW c \in Slots, HandlerStep(c)
    PROVE  Held'
<1>1. HandlersKnow'
  <2>1. ASSUME NEW d \in Slots \ {c}
        PROVE  HandlerKnows(d)'
    <3>1. HandlerKnows(d) /\ HandlerKnows(c)
      BY DEF Held, HandlersKnow
    <3>2. /\ slots'[d] = slots[d]
          /\ slots[d].at # "idle" => /\ slots[d].event # slots[c].event
                                     /\ jobs'[slots[d].event] = jobs[slots[d].event]
      BY OthersStay
    <3> QED
      BY <3>1, <3>2, AddsOwn, StaysKnown
  <2> QED
    BY <2>1, OwnStepKnows DEF HandlersKnow
<1>2. HeldOnce'
  <2>1. slots[c].at # "idle"
    BY DEF HandlerStep, Store, SkipDuplicate, Find, Link, Note, Open, ListChannels, Dispatch,
           Deliver, Dispatched, Complete
  <2> QED
    BY <2>1, OthersStay, StepKeepsEvent DEF Held, HeldOnce
<1>3. AttemptLeft'
  <2>1. /\ UNCHANGED tries
        /\ jobs' = jobs \/ jobs' = [jobs EXCEPT ![slots[c].event] = "completed"]
    BY DEF HandlerStep, Store, SkipDuplicate, Find, Link, Note, Open, ListChannels, Dispatch,
           Deliver, Dispatched, Complete
  <2> QED
    BY <2>1 DEF Held, AttemptLeft, TypeOK, ConsumerOK
<1> QED
  BY <1>1, <1>2, <1>3 DEF Held

LEMMA HeldByQueue ==
    ASSUME TypeOK, Held, TablesGrow, NEW e \in Events,
           Publish(e) \/ Evict(e) \/ \E c \in Slots : Take(c, e)
    PROVE  Held'
<1>1. UNCHANGED <<timeline, deliveries>>
  BY DEF Publish, Evict, Take, incidentVars
<1>2. \A d \in Slots : HandlerKnows(d) /\ (slots[d].at # "idle" => jobs[slots[d].event] = "active")
  BY DEF Held, HandlersKnow, HandlerKnows
<1>3. jobs[e] # "active" /\ \A f \in Events \ {e} : jobs'[f] = jobs[f] /\ tries'[f] = tries[f]
  BY DEF Publish, Evict, Take, TypeOK, ConsumerOK
\* So no handler has e.
<1>4. \A d \in Slots : slots[d].at # "idle" =>
         slots[d].event # e /\ jobs'[slots[d].event] = jobs[slots[d].event]
  <2>1. \A d \in Slots : slots[d].at # "idle" => slots[d].event \in Events
    BY <1>2 DEF HandlerKnows
  <2> QED
    BY <1>2, <1>3, <2>1
<1>5. AttemptLeft'
  <2>1. jobs'[e] \in {"waiting", "active"} => tries'[e] < MaxTries
    BY ConsumerAssumption DEF Publish, Evict, Take, TypeOK, ConsumerOK, Held, AttemptLeft
  <2> QED
    BY <1>3, <2>1 DEF Held, AttemptLeft
<1>6. CASE UNCHANGED slots
  <2>1. HandlersKnow'
    BY <1>1, <1>2, <1>4, <1>6, StaysKnown DEF HandlersKnow
  <2>2. HeldOnce'
    BY <1>6 DEF Held, HeldOnce
  <2> QED
    BY <1>5, <2>1, <2>2 DEF Held
<1>7. ASSUME NEW c \in Slots, Take(c, e)
      PROVE  Held'
  <2>1. /\ slots'[c].at = "store" /\ slots'[c].event = e
        /\ \A d \in Slots \ {c} : slots'[d] = slots[d]
    BY <1>7, TakeMoves DEF TypeOK
  <2>2. jobs'[e] = "active"
    BY <1>7 DEF Take, TypeOK, ConsumerOK
  <2>3. HandlerKnows(c)'
    BY <2>1, <2>2 DEF HandlerKnows
  <2>4. \A d \in Slots \ {c} : HandlerKnows(d)'
    BY <1>1, <1>2, <1>4, <2>1, StaysKnown
  <2>5. HeldOnce'
    BY <1>4, <2>1 DEF Held, HeldOnce
  <2> QED
    BY <1>5, <2>3, <2>4, <2>5 DEF Held, HandlersKnow
<1> QED
  BY <1>6, <1>7 DEF Publish, Evict

LEMMA HeldByFailure ==
    ASSUME TypeOK, Held, TablesGrow, WorkerCrash \/ \E c \in Slots : Throws(c)
    PROVE  Held'
<1>1. CASE WorkerCrash
  <2>1. \A c \in Slots : slots'[c].at = "idle"
    BY <1>1, RestTyped DEF WorkerCrash
  <2>2. \A e \in Events : /\ tries'[e] = tries[e]
                          /\ jobs'[e] \in {"waiting", "active"} => jobs[e] \in {"waiting", "active"}
    BY <1>1 DEF WorkerCrash, TypeOK, ConsumerOK
  <2> QED
    BY <2>1, <2>2 DEF Held, HandlersKnow, HandlerKnows, HeldOnce, AttemptLeft
<1>2. ASSUME NEW c \in Slots, Throws(c)
      PROVE  Held'
  <2> DEFINE e == slots[c].event
  <2>1. slots[c].at # "idle" /\ e \in Events
    BY <1>2 DEF Throws, Points, Held, HandlersKnow, HandlerKnows
  <2>2. slots'[c].at = "idle" /\ \A d \in Slots \ {c} : slots'[d] = slots[d]
    BY <1>2, SlotFrees, RestTyped DEF Throws, TypeOK
  <2>3. /\ \A f \in Events \ {e} : jobs'[f] = jobs[f] /\ tries'[f] = tries[f]
        /\ tries'[e] = tries[e] + 1
        /\ jobs'[e] = IF tries[e] + 1 < MaxTries THEN "waiting" ELSE "failed"
    BY <1>2, <2>1 DEF Throws, TypeOK, ConsumerOK
  <2>4. AttemptLeft'
    BY <2>3 DEF Held, AttemptLeft
  <2>5. HeldOnce'
    BY <2>2 DEF Held, HeldOnce
  <2>6. ASSUME NEW d \in Slots \ {c}
        PROVE  HandlerKnows(d)'
    <3>1. HandlerKnows(d) /\ (slots[d].at # "idle" => slots[d].event \in Events \ {e})
      BY <2>1 DEF Held, HandlersKnow, HandlerKnows, HeldOnce
    <3>2. UNCHANGED <<timeline, deliveries>>
      BY <1>2 DEF Throws, incidentVars
    <3> QED
      BY <2>2, <2>3, <3>1, <3>2, StaysKnown
  <2>7. HandlerKnows(c)'
    BY <2>2 DEF HandlerKnows
  <2> QED
    BY <2>4, <2>5, <2>6, <2>7 DEF Held, HandlersKnow
<1> QED
  BY <1>1, <1>2

LEMMA HeldStep ==
    ASSUME TypeOK, Held, Tables, [Next]_vars
    PROVE  Held'
<1>1. TablesGrow
  BY RowsStep DEF Tables
\* Operators write entries about no event.
<1>2. CASE UNCHANGED consumerVars /\ (Console \/ UNCHANGED incidentVars)
  <2>1. \A k \in DOMAIN timeline' : k \in DOMAIN timeline \/ timeline'[k].event = NoEvent
    <3>1. ASSUME NEW o \in Operators, Commit(o)
          PROVE  \A k \in DOMAIN timeline' : k \in DOMAIN timeline \/ timeline'[k].event = NoEvent
      BY <3>1, CommitTells, TellsAdds DEF Tables
    <3>2. ASSUME NEW o \in Operators,
                 Abort(o) \/ \E op \in Operations, i \in DOMAIN incidents : Check(o, op, i)
          PROVE  UNCHANGED incidentVars
      BY <3>2 DEF Abort, Check
    <3> QED
      BY <1>2, <3>1, <3>2 DEF Console, incidentVars
  <2>2. \A d \in Slots : HandlerKnows(d) /\ (slots[d].at # "idle" => slots[d].event # NoEvent)
    BY NoEventIsNone DEF Held, HandlersKnow, HandlerKnows
  <2>3. UNCHANGED <<slots, jobs, tries, deliveries>>
    BY <1>2 DEF consumerVars
  <2>4. HandlersKnow'
    BY <1>1, <2>1, <2>2, <2>3, StaysKnown DEF HandlersKnow
  <2> QED
    BY <2>3, <2>4 DEF Held, HeldOnce, AttemptLeft
<1>3. CASE Consumer
  BY <1>1, <1>3, HeldByHandler, HeldByQueue, HeldByFailure DEF Consumer
<1> QED
  BY <1>2, <1>3 DEF Next, vars

-----------------------------------------------------------------------------
(* Events that are dealt with *)

\* What HandledInv says of an event.
Handled(e) ==
    PrintOf[e] # NoPrint =>
        /\ e \in events => OnItsWay(e) \/ \E k \in DOMAIN timeline : timeline[k].event = e
        /\ (\E c \in Slots : slots[c].at = "done" /\ slots[c].event = e) =>
              \E k \in DOMAIN timeline : timeline[k].event = e
        /\ jobs[e] = "completed" => \E k \in DOMAIN timeline : timeline[k].event = e

LEMMA HandledAll == HandledInv <=> (faults = {} => \A e \in Events : Handled(e))
  BY DEF HandledInv, Handled, Named

\* Its handler goes on towards the timeline, or the event is in it.
LEMMA OwnHandled ==
    ASSUME TypeOK, Held, NEW c \in Slots, HandlerStep(c), PrintOf[slots[c].event] # NoPrint,
           Handled(slots[c].event), TablesGrow
    PROVE  \/ \E k \in DOMAIN timeline' : timeline'[k].event = slots[c].event
           \/ /\ slots'[c].at \in {"find", "link", "note", "open"}
              /\ slots'[c].event = slots[c].event /\ UNCHANGED jobs
<1> DEFINE e == slots[c].event
<1> USE DEF TypeOK
<1>1. ASSUME NEW k \in DOMAIN timeline, timeline[k].event = e
      PROVE  \E l \in DOMAIN timeline' : timeline'[l].event = e
  BY <1>1 DEF TablesGrow
<1>2. \A p \in Points : Goto(c, p) => slots'[c].at = p /\ slots'[c].event = e
  BY StepsMove DEF IncidentsOK, Moves
<1>3. HandlerKnows(c)
  BY DEF Held, HandlersKnow
<1>4. CASE Store(c)
  BY <1>2, <1>4 DEF Store, Points
<1>5. CASE SkipDuplicate(c)
  <2>1. e \in events /\ slots[c].at = "store"
    BY <1>5 DEF SkipDuplicate
  <2>2. \A d \in Slots : slots[d].event = e /\ slots[d].at # "idle" => d = c
    BY <2>1 DEF Held, HeldOnce
  <2>3. ~OnItsWay(e)
    BY <2>1, <2>2 DEF OnItsWay
  <2> QED
    BY <1>1, <2>1, <2>3 DEF Handled
<1>6. CASE Find(c)
  BY <1>6, StepsMove DEF Find, Moves, IncidentsOK
<1>7. CASE Link(c)
  BY <1>2, <1>7 DEF Link, Points
<1>8. CASE Note(c)
  <2>1. Tells(slots[c].incident, "event_recurred", e)
    BY <1>3, <1>8, NoteWrites
  <2> QED
    BY <2>1 DEF Tells
<1>9. CASE Open(c)
  <2>1. Tells(Len(incidents) + 1, "created", e)
    BY <1>3, <1>9, OpenWrites
  <2> QED
    BY <2>1 DEF Tells
<1>10. CASE ListChannels(c) \/ (\E ch \in Channels : Dispatch(c, ch)) \/ Deliver(c)
            \/ Dispatched(c)
  <2>1. slots[c].at \in {"notify", "dispatch", "deliver"}
    BY <1>10 DEF ListChannels, Dispatch, Deliver, Dispatched
  <2> QED
    BY <1>1, <1>3, <2>1 DEF HandlerKnows
<1>11. CASE Complete(c)
  BY <1>1, <1>11 DEF Complete, Handled
<1> QED
  BY <1>4, <1>5, <1>6, <1>7, <1>8, <1>9, <1>10, <1>11 DEF HandlerStep

LEMMA HandledStep ==
    ASSUME TypeOK, Held, Tables, HandledInv, [Next]_vars
    PROVE  HandledInv'
<1>1. TablesGrow
  BY RowsStep DEF Tables
<1>2. SUFFICES ASSUME faults' = {}, NEW e \in Events, PrintOf[e] # NoPrint
               PROVE  Handled(e)'
  BY DEF HandledInv, Handled, Named
<1>3. faults = {}
  <2>1. faults \subseteq faults'
    BY DEF Next, Consumer, HandlerStep, Publish, Evict, Take, Store, SkipDuplicate, Find, Link,
           Note, Open, ListChannels, Dispatch, Deliver, Dispatched, Complete, Throws, WorkerCrash,
           Fault, vars, consumerVars
  <2> QED
    BY <1>2, <2>1
<1>4. Handled(e)
  BY <1>3, HandledAll
<1>5. (\E k \in DOMAIN timeline : timeline[k].event = e)
         => \E k \in DOMAIN timeline' : timeline'[k].event = e
  BY <1>1 DEF TablesGrow
<1>6. CASE UNCHANGED <<slots, events>> /\ (jobs'[e] = "completed" => jobs[e] = "completed")
  BY <1>2, <1>4, <1>5, <1>6 DEF Handled, OnItsWay
<1>7. ASSUME NEW f \in Events, Publish(f) \/ Evict(f)
      PROVE  UNCHANGED <<slots, events>> /\ (jobs'[e] = "completed" => jobs[e] = "completed")
  BY <1>7 DEF Publish, Evict, TypeOK, ConsumerOK
<1>8. ASSUME NEW c \in Slots, NEW f \in Events, Take(c, f)
      PROVE  Handled(e)'
  <2>1. /\ slots[c].at = "idle" /\ slots'[c].at = "store"
        /\ \A d \in Slots \ {c} : slots'[d] = slots[d]
    BY <1>8, TakeMoves, RestTyped DEF Take, TypeOK
  <2>2. UNCHANGED events /\ (jobs'[e] = "completed" => jobs[e] = "completed")
    BY <1>8 DEF Take, TypeOK, ConsumerOK
  <2> QED
    BY <1>4, <1>5, <2>1, <2>2 DEF Handled, OnItsWay
<1>9. ASSUME NEW c \in Slots, HandlerStep(c)
      PROVE  Handled(e)'
  <2>1. /\ slots[c].at # "idle"
        /\ jobs' = jobs \/ jobs' = [jobs EXCEPT ![slots[c].event] = "completed"]
        /\ events' \subseteq events \cup {slots[c].event}
    BY <1>9 DEF HandlerStep, Store, SkipDuplicate, Find, Link, Note, Open, ListChannels, Dispatch,
                Deliver, Dispatched, Complete
  <2>2. /\ \A d \in Slots \ {c} : slots'[d] = slots[d]
        /\ \A d \in Slots \ {c} : slots[d].at # "idle" => slots[d].event # slots[c].event
        /\ slots'[c].at = "idle" \/ slots'[c].event = slots[c].event
    BY <1>9, OthersStay, StepKeepsEvent
  <2>3. CASE e # slots[c].event
    <3>1. jobs'[e] = jobs[e] /\ (e \in events' => e \in events)
      BY <2>1, <2>3 DEF TypeOK, ConsumerOK
    <3>2. OnItsWay(e) => OnItsWay(e)'
      BY <2>2, <2>3 DEF OnItsWay
    <3>3. (\E d \in Slots : slots'[d].at = "done" /\ slots'[d].event = e)
             => \E d \in Slots : slots[d].at = "done" /\ slots[d].event = e
      BY <2>2, <2>3
    <3> QED
      BY <1>4, <1>5, <3>1, <3>2, <3>3 DEF Handled
  <2>4. CASE e = slots[c].event
    <3>1. CASE \E k \in DOMAIN timeline' : timeline'[k].event = e
      BY <3>1 DEF Handled
    <3>2. CASE /\ slots'[c].at \in {"find", "link", "note", "open"}
               /\ slots'[c].event = slots[c].event /\ UNCHANGED jobs
      <4>1. jobs[e] = "active"
        BY <2>1, <2>4 DEF Held, HandlersKnow, HandlerKnows
      <4>2. OnItsWay(e)'
        BY <2>4, <3>2 DEF OnItsWay
      <4>3. ~\E d \in Slots : slots'[d].at = "done" /\ slots'[d].event = e
        BY <2>2, <2>4, <3>2
      <4> QED
        BY <3>2, <4>1, <4>2, <4>3 DEF Handled
    <3> QED
      BY <1>1, <1>2, <1>4, <1>9, <2>4, <3>1, <3>2, OwnHandled
  <2> QED
    BY <2>3, <2>4
\* The rest is a fault, or nothing the consumer does.
<1>10. ~WorkerCrash /\ \A c \in Slots : ~Throws(c)
  BY <1>2 DEF WorkerCrash, Throws, Fault
<1>11. CASE UNCHANGED consumerVars
  BY <1>6, <1>11 DEF consumerVars
<1> QED
  BY <1>6, <1>7, <1>8, <1>9, <1>10, <1>11 DEF Next, Consumer, vars

-----------------------------------------------------------------------------
(* Theorems *)

LEMMA Initially == Init => IInv
<1> SUFFICES ASSUME Init
             PROVE  IInv
  OBVIOUS
<1> USE RestTyped DEF Init, InitIncidents, InitConsole, InitConsumer
<1>1. TypeOK
  BY ConsoleAssumption, ConsumerAssumption
     DEF TypeOK, IncidentsOK, ConsoleOK, ConsumerOK, JobState, PossibleFaults
<1>2. Held
  BY DEF Held, HandlersKnow, HandlerKnows, HeldOnce, AttemptLeft
<1>3. Tables
  BY DEF Tables, EntriesHaveIncidents, DuplicatesAreSkipped, EventsBelong, Named
<1>4. TimelineExplainsStatus
  BY DEF TimelineExplainsStatus
<1>5. HandledInv
  BY DEF HandledInv
<1> QED
  BY <1>1, <1>2, <1>3, <1>4, <1>5 DEF IInv

\* The invariant is inductive: a handler, the queue, a fault and an operator keep it.
THEOREM Invariant == Spec => []IInv
<1>1. IInv /\ [Next]_vars => IInv'
  <2> SUFFICES ASSUME IInv, [Next]_vars
               PROVE  IInv'
    OBVIOUS
  <2>1. TypeOK /\ Held /\ HandlersKnow /\ Tables /\ EntriesHaveIncidents
        /\ TimelineExplainsStatus /\ HandledInv
    BY DEF IInv, Held, Tables
  <2>2. TypeOK' /\ Held'
    BY <2>1, TypesStep, HeldStep
  <2>3. Tables'
    BY <2>1, EntriesStep, TablesStep DEF Tables
  <2>4. TimelineExplainsStatus' /\ HandledInv'
    BY <2>1, TimelineStep, HandledStep
  <2> QED
    BY <2>2, <2>3, <2>4 DEF IInv
<1> QED
  BY <1>1, Initially, PTL DEF Spec

\* Every variable of the pipeline has a value of its type: the attempts of a job
\* are never more than MaxTries, and no row names an event or an incident that
\* there is not.
THEOREM TypeCorrect == Spec => []TypeOK
<1>1. IInv => TypeOK
  BY DEF IInv
<1> QED
  BY <1>1, Invariant, PTL

\* consumeQueue publishes, retries and runs again what it likes: an event is in at
\* most one timeline, once, and has one delivery per channel.
THEOREM DuplicatesSkipped == Spec => []DuplicatesAreSkipped
<1>1. IInv => DuplicatesAreSkipped
  BY DEF IInv, Tables
<1> QED
  BY <1>1, Invariant, PTL

\* IncidentService links an event to an incident of its fingerprint, after the
\* dedup table has it and before any notification of it.
THEOREM EventsBelongTogether == Spec => []EventsBelong
<1>1. IInv => EventsBelong
  BY DEF IInv, Tables
<1> QED
  BY <1>1, Invariant, PTL

\* However acknowledge, resolve and reopen of incidents.controller.ts interleave
\* with each other and with recurrences, the timeline explains the status.
THEOREM StatusExplained == Spec => []TimelineExplainsStatus
<1>1. IInv => TimelineExplainsStatus
  BY DEF IInv
<1> QED
  BY <1>1, Invariant, PTL

\* handleEventEnvelope loses an event only to a throw or a crash.
THEOREM CleanMeansHandled == Spec => []CompletedIsHandledWhenClean
<1>1. IInv => CompletedIsHandledWhenClean
  BY DEF IInv, HandledInv, CompletedIsHandledWhenClean, CompletedIsHandled
<1> QED
  BY <1>1, Invariant, PTL
=============================================================================
