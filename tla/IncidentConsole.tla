--------------------------- MODULE IncidentConsole ---------------------------
(***************************************************************************)
(* Operators who acknowledge, resolve and reopen incidents through the API *)
(* (apps/api/src/incidents/incidents.controller.ts).  A handler reads the  *)
(* incident, decides, and only then runs its transaction: what it decided  *)
(* on may have changed, by another operator's request, meanwhile.          *)
(***************************************************************************)
EXTENDS Incidents

CONSTANTS
    Operators,     \* requests that may be handled at once
    MaxRequests    \* bound: requests that pass their check

ASSUME ConsoleAssumption == MaxRequests \in Nat

VARIABLES
    handling,   \* what each handler is about to write
    requests    \* how many requests passed their check

consoleVars == <<handling, requests>>

Operations == {"acknowledge", "resolve", "reopen"}
Nothing == [op |-> "none", incident |-> 0]
Handling == [op : Operations \cup {"none"}, incident : Nat]

InitConsole == handling = [o \in Operators |-> Nothing] /\ requests = 0

\* The statuses each handler goes on with; any other is answered 409.
Allowed(op) ==
    CASE op = "acknowledge" -> {"detected"}
      [] op = "resolve" -> Status \ {"resolved"}
      [] op = "reopen" -> Status

\* findFirst and the check of the status it read.
Check(o, op, i) ==
    /\ handling[o] = Nothing /\ requests < MaxRequests
    /\ incidents[i].status \in Allowed(op)
    /\ handling' = [handling EXCEPT ![o] = [op |-> op, incident |-> i]]
    /\ requests' = requests + 1
    /\ UNCHANGED incidentVars

\* Mutant of Reopen: a status the column does not have.
ReopenAsReopened(i) == SetStatus(i, "reopened", FALSE, "reopened")

\* The three transactions, on the row as it is now.
Acknowledge(i) == SetStatus(i, "acknowledged", incidents[i].resolvedAt, "acknowledged")
Resolve(i) == SetStatus(i, "resolved", TRUE, "resolved")
Reopen(i) == SetStatus(i, "acknowledged", FALSE, "reopened")

Commit(o) ==
    LET i == handling[o].incident
    IN  /\ handling[o] # Nothing
        /\ \/ handling[o].op = "acknowledge" /\ Acknowledge(i)
           \/ handling[o].op = "resolve" /\ Resolve(i)
           \/ handling[o].op = "reopen" /\ Reopen(i)
        /\ handling' = [handling EXCEPT ![o] = Nothing]
        /\ UNCHANGED requests

\* The transaction fails (500): nothing is written.
Abort(o) ==
    /\ handling[o] # Nothing
    /\ handling' = [handling EXCEPT ![o] = Nothing]
    /\ UNCHANGED <<incidentVars, requests>>

Console ==
    \E o \in Operators :
        \/ Commit(o)
        \/ Abort(o)
        \/ \E op \in Operations, i \in DOMAIN incidents : Check(o, op, i)

ConsoleOK == handling \in [Operators -> Handling] /\ requests \in 0..MaxRequests
=============================================================================
