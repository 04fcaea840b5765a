----------------------------- MODULE Incidents -----------------------------
(***************************************************************************)
(* The incident tables of one tenant (incidents, incident_events,          *)
(* incident_timeline) and the transactions that write them: the worker's   *)
(* IncidentService (apps/worker/src/incident.service.ts) and the API's     *)
(* console (apps/api/src/incidents/incidents.controller.ts).               *)
(*                                                                         *)
(* Incidents are numbered in the order they are opened, and the timeline   *)
(* is one log in the order of the commits.                                 *)
(***************************************************************************)
EXTENDS Naturals, Sequences, FiniteSets

CONSTANTS
    Events,     \* event_ids
    NoEvent,    \* an entry that no event caused
    Prints,     \* fingerprints
    NoPrint,    \* an envelope without fingerprint
    PrintOf     \* the fingerprint each event carries

ASSUME IncidentsAssumption ==
    /\ NoEvent \notin Events /\ NoPrint \notin Prints
    /\ PrintOf \in [Events -> Prints \cup {NoPrint}]

VARIABLES
    incidents,   \* rows of incidents
    links,       \* rows of incident_events
    timeline     \* rows of incident_timeline

incidentVars == <<incidents, links, timeline>>

Status == {"detected", "acknowledged", "resolved"}
Incident == [print : Prints, status : Status, resolvedAt : BOOLEAN]
EntryType == {"created", "event_recurred", "acknowledged", "resolved", "reopened"}
Entry == [incident : Nat, type : EntryType, event : Events \cup {NoEvent}]

InitIncidents == incidents = <<>> /\ links = {} /\ timeline = <<>>

Write(i, type, e) == timeline' = Append(timeline, [incident |-> i, type |-> type, event |-> e])

\* Mutant of OpenFor: the fingerprint is not compared.
OpenForAny(e) == {i \in DOMAIN incidents : incidents[i].status # "resolved"}

\* The incidents that findFirst may return for the fingerprint of e.
OpenFor(e) ==
    {i \in DOMAIN incidents : incidents[i].print = PrintOf[e] /\ incidents[i].status # "resolved"}

\* The transaction that opens an incident: the row, its first event, its entry.
OpenIncident(e) ==
    /\ incidents' = Append(incidents, [print |-> PrintOf[e], status |-> "detected",
                                       resolvedAt |-> FALSE])
    /\ links' = links \cup {<<Len(incidents) + 1, e>>}
    /\ Write(Len(incidents) + 1, "created", e)

\* Mutant of SetStatus: the entry is left out.
SetStatusOnly(i, status, resolvedAt, type) ==
    /\ incidents' = [incidents EXCEPT ![i].status = status, ![i].resolvedAt = resolvedAt]
    /\ UNCHANGED <<links, timeline>>

\* An operator's transaction: the new status, resolvedAt, and its entry.
SetStatus(i, status, resolvedAt, type) ==
    /\ incidents' = [incidents EXCEPT ![i].status = status, ![i].resolvedAt = resolvedAt]
    /\ Write(i, type, NoEvent)
    /\ UNCHANGED links

IncidentsOK ==
    /\ incidents \in Seq(Incident)
    /\ links \subseteq Nat \X Events
    /\ timeline \in Seq(Entry)
=============================================================================
