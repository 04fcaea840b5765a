------------------------------ MODULE Tickets ------------------------------
(***************************************************************************)
(* Support tickets of one tenant (support/tickets.controller.ts).  Every   *)
(* handler reads the ticket, then writes: another request may write in     *)
(* between.  A transaction is one step, but for create: its bump holds the *)
(* row of support_sequences until the transaction ends.                    *)
(***************************************************************************)
EXTENDS Integers, Sequences, FiniteSets, SequencesExt

CONSTANTS
    Calls,             \* requests served at once
    MaxTickets,        \* bound: tickets created
    MaxLog,            \* bound: transitions written
    MaxTicketFaults    \* bound: transactions and audits that throw

ASSUME TicketsAssumption ==
    IsFiniteSet(Calls) /\ {MaxTickets, MaxLog, MaxTicketFaults} \subseteq Nat

VARIABLES
    sequence,        \* support_sequences.value, as committed
    tickets,         \* rows of support_tickets, in the order of their commits
    calls,           \* where each request is
    ticketFaults     \* history: what threw

ticketVars == <<sequence, tickets, calls, ticketFaults>>

TRANSITIONS ==
    [open |-> {"in_progress", "resolved", "closed"}, in_progress |-> {"resolved", "closed", "open"},
     resolved |-> {"closed", "open"}, closed |-> {"open"}]
STATUSES == DOMAIN TRANSITIONS

NoCall == [at |-> "idle", ticket |-> 0, from |-> "open", to |-> "open"]

InitTickets ==
    /\ sequence = 0 /\ tickets = <<>> /\ ticketFaults = 0
    /\ calls = [c \in Calls |-> NoCall]

TicketFault == ticketFaults < MaxTicketFaults /\ ticketFaults' = ticketFaults + 1
Transitions == FoldLeft(LAMBDA n, t : n + Len(t.log), 0, tickets)

-----------------------------------------------------------------------------
(* create *)

\* Mutant of Bump: the value is read and written without the row's lock.
BumpUnlocked(c) ==
    /\ calls[c].at = "idle" /\ sequence < MaxTickets
    /\ calls' = [calls EXCEPT ![c] = [NoCall EXCEPT !.at = "insert", !.ticket = sequence + 1]]
    /\ UNCHANGED <<sequence, tickets, ticketFaults>>

\* INSERT ... ON CONFLICT DO UPDATE: waits for a bump that is not committed.
Bump(c) ==
    /\ calls[c].at = "idle" /\ sequence < MaxTickets
    /\ \A d \in Calls : calls[d].at # "insert"
    /\ calls' = [calls EXCEPT ![c] = [NoCall EXCEPT !.at = "insert", !.ticket = sequence + 1]]
    /\ UNCHANGED <<sequence, tickets, ticketFaults>>

\* The row with its number, and the commit of both.
InsertTicket(c) ==
    /\ calls[c].at = "insert"
    /\ sequence' = calls[c].ticket
    /\ tickets' = Append(tickets, [number |-> calls[c].ticket, status |-> "open",
                                   resolved |-> FALSE, log |-> <<>>])
    /\ calls' = [calls EXCEPT ![c].at = "audit"]
    /\ UNCHANGED ticketFaults

CreateThrows(c) ==
    /\ calls[c].at = "insert" /\ TicketFault
    /\ calls' = [calls EXCEPT ![c] = NoCall]
    /\ UNCHANGED <<sequence, tickets>>

-----------------------------------------------------------------------------
(* transition, patch, assign, comment *)

\* findFirst; a transition the table does not have is answered with 409.
ReadTicket(c, i, to) ==
    /\ calls[c].at = "idle" /\ to \in TRANSITIONS[tickets[i].status]
    /\ calls' = [calls EXCEPT ![c] = [at |-> "transition", ticket |-> i,
                                      from |-> tickets[i].status, to |-> to]]
    /\ UNCHANGED <<sequence, tickets, ticketFaults>>

\* patch, assign (whose assignee must be a member) and comment start alike.
ReadForEdit(c, i) ==
    /\ calls[c].at = "idle"
    /\ calls' = [calls EXCEPT ![c] = [NoCall EXCEPT !.at = "edit", !.ticket = i,
                              !.from = tickets[i].status, !.to = tickets[i].status]]
    /\ UNCHANGED <<sequence, tickets, ticketFaults>>

\* Mutant of Edit: the whole row is saved as it was read.
EditWhole(c) ==
    /\ calls[c].at = "edit"
    /\ tickets' = [tickets EXCEPT ![calls[c].ticket].status = calls[c].from]
    /\ calls' = [calls EXCEPT ![c].at = "audit"]
    /\ UNCHANGED <<sequence, ticketFaults>>

\* Only the fields of the request are written, or a comment is added: no column
\* of this model.
Edit(c) ==
    /\ calls[c].at = "edit"
    /\ calls' = [calls EXCEPT ![c].at = "audit"]
    /\ UNCHANGED <<sequence, tickets, ticketFaults>>

\* resolvedAt after a transition to this status.
ResolvedAt(before, to) == to = "resolved" \/ (before /\ to # "open")

\* The transaction: the row and a comment that tells it.  It does not look at the
\* status again.
Transition(c) ==
    LET call == calls[c]  i == call.ticket
    IN  /\ call.at = "transition" /\ Transitions < MaxLog
        /\ tickets' = [tickets EXCEPT
              ![i].status = call.to,
              ![i].resolved = ResolvedAt(@, call.to),
              ![i].log = Append(@, [from |-> call.from, to |-> call.to])]
        /\ calls' = [calls EXCEPT ![c].at = "audit"]
        /\ UNCHANGED <<sequence, ticketFaults>>

WriteThrows(c) ==
    /\ calls[c].at \in {"transition", "edit"} /\ TicketFault
    /\ calls' = [calls EXCEPT ![c] = NoCall]
    /\ UNCHANGED <<sequence, tickets>>

\* audit.record: when it throws, the answer is an error and nobody is told;
\* otherwise a create and a transition publish their frame, best effort.
AuditTicket(c) ==
    /\ calls[c].at = "audit" /\ (UNCHANGED ticketFaults \/ TicketFault)
    /\ calls' = [calls EXCEPT ![c] = NoCall]
    /\ UNCHANGED <<sequence, tickets>>

-----------------------------------------------------------------------------

NextTickets == \E c \in Calls :
    \/ Bump(c) \/ InsertTicket(c) \/ CreateThrows(c)
    \/ Edit(c) \/ Transition(c) \/ WriteThrows(c) \/ AuditTicket(c)
    \/ \E i \in DOMAIN tickets : ReadForEdit(c, i) \/ (\E to \in STATUSES : ReadTicket(c, i, to))

SpecTickets == InitTickets /\ [][NextTickets]_ticketVars

-----------------------------------------------------------------------------
(* Properties *)

Told == [from : STATUSES, to : STATUSES]
Ticket == [number : Nat, status : STATUSES, resolved : BOOLEAN, log : Seq(Told)]
Call == [at : {"idle", "insert", "transition", "edit", "audit"},
         ticket : Nat, from : STATUSES, to : STATUSES]

TicketsOK ==
    /\ {sequence, ticketFaults} \subseteq Nat
    /\ tickets \in Seq(Ticket) /\ calls \in [Calls -> Call]

\* Ticket numbers have no gap and no duplicate, whatever creates ran at once and
\* whichever of them failed: a failed one gives its number back.
NumbersHaveNoGap ==
    \A i \in DOMAIN tickets : tickets[i].number = i

\* The comments tell the ticket's story: the last transition among them is its
\* status, and each is one the table allows from a status the ticket once had,
\* whatever else was edited meanwhile.  It need not be the status right before:
\* two requests that read the same status both write.
TicketStory ==
    \A i \in DOMAIN tickets :
        LET t == tickets[i]
        IN  /\ t.status = (IF t.log = <<>> THEN "open" ELSE Last(t.log).to)
            /\ \A k \in DOMAIN t.log :
                /\ t.log[k].to \in TRANSITIONS[t.log[k].from]
                /\ t.log[k].from \in {"open"} \cup {t.log[j].to : j \in 1..k-1}
            /\ t.status = "open" => ~t.resolved
            /\ t.status = "resolved" => t.resolved
=============================================================================
