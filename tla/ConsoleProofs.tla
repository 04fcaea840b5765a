--------------------------- MODULE ConsoleProofs ---------------------------
(***************************************************************************)
(* Theorems about Tickets, Sessions, ConsolePages and MetricSeries, which  *)
(* share nothing, for all values of their constants.                       *)
(*                                                                         *)
(* Tickets, for every number of requests, of tickets and of transactions   *)
(* that throw: its types, that numbers have no gap, and that the comments  *)
(* tell each ticket's story.                                               *)
(*                                                                         *)
(* Sessions, for every set of permissions, number of calls and handlers,   *)
(* lifetime of a token and change of membership and role: its types, and   *)
(* that a permission that was taken away serves requests for less than one *)
(* access TTL more.                                                        *)
(*                                                                         *)
(* ConsolePages, for every page, number of requests and change of the      *)
(* data: its types, and that an incident's page and a host's never show an *)
(* older state than they have shown.                                       *)
(*                                                                         *)
(* MetricSeries, for every window and number of buckets: its types, and    *)
(* how many points it is answered with.                                    *)
(*                                                                         *)
(* MCConsole runs one of these, RateLimiter or RefusalStats at a time.     *)
(***************************************************************************)
EXTENDS MCConsole, RateLimitProofs, FiniteSetTheorems, TLAPS

-----------------------------------------------------------------------------
(* Tickets: the invariant *)


\* The number a create holds is the next, and the lock lets one hold it.
NumbersInv ==
    /\ sequence = Len(tickets)
    /\ \A c \in Calls : calls[c].at = "insert" => calls[c].ticket = sequence + 1
    /\ \A c, d \in Calls : calls[c].at = "insert" /\ calls[d].at = "insert" => c = d

\* A transition that was admitted is one of the table, from a status its ticket has
\* had.
AdmittedInv ==
    \A c \in Calls : calls[c].at = "transition" =>
        /\ calls[c].ticket \in DOMAIN tickets
        /\ calls[c].to \in TRANSITIONS[calls[c].from]
        /\ \/ calls[c].from = "open"
           \/ \E j \in DOMAIN tickets[calls[c].ticket].log :
                 tickets[calls[c].ticket].log[j].to = calls[c].from

TicketsInv == TicketsOK /\ NumbersInv /\ NumbersHaveNoGap /\ AdmittedInv /\ TicketStory

-----------------------------------------------------------------------------
(* Tickets: what the steps write *)

LEMMA StatusesTyped ==
    /\ "open" \in STATUSES
    /\ \A s \in STATUSES : TRANSITIONS[s] \subseteq STATUSES
    /\ NoCall \in Call
  BY DEF STATUSES, TRANSITIONS, NoCall, Call

\* A handler moves on, or is over.
LEMMA CallTyped ==
    ASSUME TicketsOK, NEW c \in Calls,
           NEW x \in {"idle", "insert", "transition", "edit", "audit"},
           NEW n \in Nat, NEW from \in STATUSES, NEW to \in STATUSES
    PROVE  /\ [at |-> x, ticket |-> n, from |-> from, to |-> to] \in Call
           /\ [calls[c] EXCEPT !.at = x] \in Call
           /\ [NoCall EXCEPT !.at = x, !.ticket = n] \in Call
           /\ [NoCall EXCEPT !.at = x, !.ticket = n, !.from = from, !.to = to] \in Call
  BY StatusesTyped DEF TicketsOK, Call, NoCall

\* The row InsertTicket adds.
New(n) == [number |-> n, status |-> "open", resolved |-> FALSE, log |-> <<>>]

LEMMA Inserted ==
    ASSUME TicketsOK, NEW n \in Nat, tickets' = Append(tickets, New(n))
    PROVE  /\ tickets' \in Seq(Ticket) /\ Len(tickets') = Len(tickets) + 1
           /\ \A i \in DOMAIN tickets : i \in DOMAIN tickets' /\ tickets'[i] = tickets[i]
           /\ DOMAIN tickets' = DOMAIN tickets \cup {Len(tickets) + 1}
           /\ tickets'[Len(tickets) + 1] = New(n)
<1>1. New(n) \in Ticket
  BY StatusesTyped DEF New, Ticket
<1> QED
  BY <1>1 DEF TicketsOK

\* What a transition makes of the row t.
Moved(t, from, to) ==
    [t EXCEPT !.status = to, !.resolved = ResolvedAt(@, to),
              !.log = Append(@, [from |-> from, to |-> to])]

LEMMA MovedTyped ==
    ASSUME NEW t \in Ticket, NEW from \in STATUSES, NEW to \in STATUSES
    PROVE  /\ Moved(t, from, to) \in Ticket
           /\ Moved(t, from, to).number = t.number /\ Moved(t, from, to).status = to
           /\ Moved(t, from, to).resolved = ResolvedAt(t.resolved, to)
           /\ Moved(t, from, to).log = Append(t.log, [from |-> from, to |-> to])
<1>1. [from |-> from, to |-> to] \in Told
  BY DEF Told
<1>2. Append(t.log, [from |-> from, to |-> to]) \in Seq(Told)
  BY <1>1 DEF Ticket
<1>3. ResolvedAt(t.resolved, to) \in BOOLEAN
  BY DEF ResolvedAt, Ticket
<1> QED
  BY <1>2, <1>3 DEF Moved, Ticket

\* A transition changes one row.
LEMMA Written ==
    ASSUME TicketsOK, NEW c \in Calls, Transition(c), calls[c].ticket \in DOMAIN tickets
    PROVE  /\ tickets' \in Seq(Ticket) /\ DOMAIN tickets' = DOMAIN tickets
           /\ Len(tickets') = Len(tickets)
           /\ tickets'[calls[c].ticket]
                = Moved(tickets[calls[c].ticket], calls[c].from, calls[c].to)
           /\ \A i \in DOMAIN tickets : i # calls[c].ticket => tickets'[i] = tickets[i]
<1> DEFINE i == calls[c].ticket
<1>1. calls[c].from \in STATUSES /\ calls[c].to \in STATUSES
  BY DEF TicketsOK, Call
<1>2. tickets' = [tickets EXCEPT ![i] = Moved(tickets[i], calls[c].from, calls[c].to)]
  BY DEF Transition, Moved, TicketsOK
<1>3. tickets[i] \in Ticket
  BY DEF TicketsOK
<1>4. Moved(tickets[i], calls[c].from, calls[c].to) \in Ticket
  BY <1>1, <1>3, MovedTyped
<1> QED
  BY <1>2, <1>4 DEF TicketsOK

LEMMA TicketTypesStep ==
    ASSUME TicketsInv, [NextTickets]_ticketVars
    PROVE  TicketsOK'
<1>1. \A c \in Calls : calls[c].ticket \in Nat
  BY DEF TicketsInv, TicketsOK, Call
<1>2. ASSUME NEW c \in Calls, Bump(c)
      PROVE  TicketsOK'
  <2>1. sequence + 1 \in Nat
    BY DEF TicketsInv, TicketsOK
  <2>2. [NoCall EXCEPT !.at = "insert", !.ticket = sequence + 1] \in Call
    BY <2>1, StatusesTyped, CallTyped DEF TicketsInv
  <2> QED
    BY <1>2, <2>2 DEF Bump, TicketsInv, TicketsOK
<1>3. ASSUME NEW c \in Calls, InsertTicket(c)
      PROVE  TicketsOK'
  <2>1. [calls[c] EXCEPT !.at = "audit"] \in Call
    BY StatusesTyped, CallTyped DEF TicketsInv
  <2>2. tickets' \in Seq(Ticket)
    BY <1>1, <1>3, Inserted DEF InsertTicket, New, TicketsInv
  <2> QED
    BY <1>1, <1>3, <2>1, <2>2 DEF InsertTicket, TicketsInv, TicketsOK
<1>4. ASSUME NEW c \in Calls, CreateThrows(c) \/ WriteThrows(c) \/ AuditTicket(c)
      PROVE  TicketsOK'
  <2>1. ticketFaults' \in Nat /\ UNCHANGED <<sequence, tickets>>
    BY <1>4 DEF CreateThrows, WriteThrows, AuditTicket, TicketFault, TicketsInv, TicketsOK
  <2>2. calls' = [calls EXCEPT ![c] = NoCall]
    BY <1>4 DEF CreateThrows, WriteThrows, AuditTicket
  <2> QED
    BY <2>1, <2>2, StatusesTyped DEF TicketsInv, TicketsOK
<1>5. ASSUME NEW c \in Calls, NEW i \in DOMAIN tickets, NEW to \in STATUSES,
             ReadTicket(c, i, to) \/ ReadForEdit(c, i)
      PROVE  TicketsOK'
  <2>1. tickets[i].status \in STATUSES /\ i \in Nat
    <3>1. tickets[i] \in Ticket /\ i \in Nat
      BY DEF TicketsInv, TicketsOK
    <3> QED
      BY <3>1 DEF Ticket
  <2>2. CASE ReadTicket(c, i, to)
    <3>1. [at |-> "transition", ticket |-> i, from |-> tickets[i].status, to |-> to] \in Call
      BY <2>1, CallTyped DEF TicketsInv
    <3> QED
      BY <2>2, <3>1 DEF ReadTicket, TicketsInv, TicketsOK
  <2>3. CASE ReadForEdit(c, i)
    <3>1. [NoCall EXCEPT !.at = "edit", !.ticket = i, !.from = tickets[i].status,
                         !.to = tickets[i].status] \in Call
      BY <2>1, CallTyped DEF TicketsInv
    <3> QED
      BY <2>3, <3>1 DEF ReadForEdit, TicketsInv, TicketsOK
  <2> QED
    BY <1>5, <2>2, <2>3
<1>6. ASSUME NEW c \in Calls, Edit(c) \/ Transition(c)
      PROVE  TicketsOK'
  <2>1. [calls[c] EXCEPT !.at = "audit"] \in Call
    BY StatusesTyped, CallTyped DEF TicketsInv
  <2>2. tickets' \in Seq(Ticket)
    BY <1>6, Written DEF Edit, Transition, TicketsInv, AdmittedInv, TicketsOK
  <2> QED
    BY <1>6, <2>1, <2>2 DEF Edit, Transition, TicketsInv, TicketsOK
<1>7. CASE UNCHANGED ticketVars
  BY <1>7 DEF ticketVars, TicketsInv, TicketsOK
<1> QED
  BY <1>2, <1>3, <1>4, <1>5, <1>6, <1>7, StatusesTyped DEF NextTickets

-----------------------------------------------------------------------------
(* Tickets: numbers *)

\* Only a commit adds a row or moves the sequence, and both move together.
LEMMA NumbersStep ==
    ASSUME TicketsInv, [NextTickets]_ticketVars
    PROVE  NumbersInv' /\ NumbersHaveNoGap'
<1> USE DEF TicketsInv, NumbersInv, NumbersHaveNoGap
<1>1. sequence \in Nat /\ tickets \in Seq(Ticket) /\ calls \in [Calls -> Call]
  BY DEF TicketsOK
<1>2. ASSUME NEW c \in Calls, Bump(c)
      PROVE  NumbersInv' /\ NumbersHaveNoGap'
  <2>1. \A d \in Calls : /\ calls'[d].at = "insert" => d = c
                         /\ calls'[d].at = "insert" => calls'[d].ticket = sequence + 1
    BY <1>1, <1>2 DEF Bump, NoCall
  <2> QED
    BY <1>2, <2>1 DEF Bump
<1>3. ASSUME NEW c \in Calls, InsertTicket(c)
      PROVE  NumbersInv' /\ NumbersHaveNoGap'
  <2>1. calls[c].ticket = sequence + 1 /\ sequence + 1 \in Nat
    BY <1>1, <1>3 DEF InsertTicket
  <2>2. tickets' = Append(tickets, New(sequence + 1)) /\ sequence' = sequence + 1
    BY <1>3, <2>1 DEF InsertTicket, New
  <2>3. \A d \in Calls : calls'[d].at # "insert"
    BY <1>1, <1>3 DEF InsertTicket, Call
  <2>4. /\ Len(tickets') = Len(tickets) + 1
        /\ \A i \in DOMAIN tickets : tickets'[i] = tickets[i]
        /\ DOMAIN tickets' = DOMAIN tickets \cup {Len(tickets) + 1}
        /\ tickets'[Len(tickets) + 1] = New(sequence + 1)
    BY <2>1, <2>2, Inserted
  <2>5. New(sequence + 1).number = Len(tickets) + 1
    BY DEF New
  <2> QED
    BY <2>2, <2>3, <2>4, <2>5
<1>4. ASSUME NEW c \in Calls, CreateThrows(c) \/ WriteThrows(c) \/ AuditTicket(c)
      PROVE  NumbersInv' /\ NumbersHaveNoGap'
  <2>1. calls' = [calls EXCEPT ![c] = NoCall] /\ UNCHANGED <<sequence, tickets>>
    BY <1>4 DEF CreateThrows, WriteThrows, AuditTicket
  <2>2. \A d \in Calls : calls'[d].at = "insert" => calls'[d] = calls[d]
    BY <1>1, <2>1 DEF NoCall
  <2> QED
    BY <2>1, <2>2
<1>5. ASSUME NEW c \in Calls, NEW i \in DOMAIN tickets, NEW to \in STATUSES,
             ReadTicket(c, i, to) \/ ReadForEdit(c, i)
      PROVE  NumbersInv' /\ NumbersHaveNoGap'
  <2>1. UNCHANGED <<sequence, tickets>>
    BY <1>5 DEF ReadTicket, ReadForEdit
  <2>2. \E call \in Call : call.at # "insert" /\ calls' = [calls EXCEPT ![c] = call]
    <3>1. tickets[i].status \in STATUSES /\ i \in Nat
      <4>1. tickets[i] \in Ticket
        BY <1>1
      <4> QED
        BY <1>1, <4>1 DEF Ticket
    <3>2. CASE ReadTicket(c, i, to)
      <4>1. [at |-> "transition", ticket |-> i, from |-> tickets[i].status, to |-> to] \in Call
        BY <3>1, CallTyped
      <4> QED
        BY <3>2, <4>1 DEF ReadTicket
    <3>3. CASE ReadForEdit(c, i)
      <4> DEFINE call == [NoCall EXCEPT !.at = "edit", !.ticket = i,
                          !.from = tickets[i].status, !.to = tickets[i].status]
      <4>1. call \in Call
        BY <3>1, CallTyped
      <4>2. call.at = "edit"
        BY DEF NoCall
      <4> QED
        BY <3>3, <4>1, <4>2 DEF ReadForEdit
    <3> QED
      BY <1>5, <3>2, <3>3
  <2>3. \A d \in Calls : calls'[d].at = "insert" => calls'[d] = calls[d]
    BY <1>1, <2>2
  <2> QED
    BY <2>1, <2>3
<1>6. ASSUME NEW c \in Calls, Edit(c)
      PROVE  NumbersInv' /\ NumbersHaveNoGap'
  <2>1. \A d \in Calls : calls'[d].at = "insert" => calls'[d] = calls[d]
    BY <1>1, <1>6 DEF Edit, Call
  <2> QED
    BY <1>6, <2>1 DEF Edit
<1>7. ASSUME NEW c \in Calls, Transition(c)
      PROVE  NumbersInv' /\ NumbersHaveNoGap'
  <2>1. \A d \in Calls : calls'[d].at = "insert" => calls'[d] = calls[d]
    BY <1>1, <1>7 DEF Transition, Call
  <2>2. calls[c].ticket \in DOMAIN tickets
    BY <1>7 DEF Transition, AdmittedInv
  <2>3. tickets[calls[c].ticket] \in Ticket /\ calls[c].from \in STATUSES /\ calls[c].to \in STATUSES
    BY <1>1, <2>2 DEF Call
  <2>4. \A i \in DOMAIN tickets : tickets'[i].number = tickets[i].number
    <3>1. tickets'[calls[c].ticket].number = tickets[calls[c].ticket].number
      <4>1. tickets'[calls[c].ticket]
              = Moved(tickets[calls[c].ticket], calls[c].from, calls[c].to)
        BY <1>7, <2>2, Written
      <4>2. \A t \in Ticket, from, to \in STATUSES : Moved(t, from, to).number = t.number
        BY MovedTyped
      <4> QED
        BY <4>1, <4>2, <2>3
    <3>2. \A i \in DOMAIN tickets : i # calls[c].ticket => tickets'[i] = tickets[i]
      BY <1>7, <2>2, Written
    <3> QED
      BY <3>1, <3>2
  <2>5. Len(tickets') = Len(tickets) /\ DOMAIN tickets' = DOMAIN tickets
    BY <1>7, <2>2, Written
  <2>6. sequence' = sequence
    BY <1>7 DEF Transition
  <2> QED
    BY <2>1, <2>4, <2>5, <2>6
<1>8. CASE UNCHANGED ticketVars
  BY <1>8 DEF ticketVars
<1>9. "open" \in STATUSES
  BY StatusesTyped
<1> QED
  BY <1>2, <1>3, <1>4, <1>5, <1>6, <1>7, <1>8, <1>9 DEF NextTickets

-----------------------------------------------------------------------------
(* Tickets: stories *)

\* The story of one row, as TicketStory has it.
Tells(t) ==
    /\ t.status = (IF t.log = <<>> THEN "open" ELSE Last(t.log).to)
    /\ \A k \in DOMAIN t.log :
        /\ t.log[k].to \in TRANSITIONS[t.log[k].from]
        /\ t.log[k].from \in {"open"} \cup {t.log[j].to : j \in 1..k-1}
    /\ t.status = "open" => ~t.resolved
    /\ t.status = "resolved" => t.resolved

LEMMA StoriesTold == TicketStory <=> \A i \in DOMAIN tickets : Tells(tickets[i])
  BY DEF TicketStory, Tells

\* A transition of the table, from a status the row has had, continues its story.
LEMMA MovedTells ==
    ASSUME NEW t \in Ticket, Tells(t), NEW from \in STATUSES, NEW to \in STATUSES,
           to \in TRANSITIONS[from],
           from = "open" \/ \E j \in DOMAIN t.log : t.log[j].to = from
    PROVE  Tells(Moved(t, from, to))
<1> DEFINE u == Moved(t, from, to)
           n == Len(t.log) + 1
           told == [from |-> from, to |-> to]
<1>1. u.log = Append(t.log, told) /\ u.status = to /\ u.resolved = ResolvedAt(t.resolved, to)
  BY MovedTyped
<1>2. t.log \in Seq(Told) /\ told \in Told /\ t.resolved \in BOOLEAN
  BY DEF Ticket, Told
<1> HIDE DEF u
<1>3. /\ Len(u.log) = n /\ n \in Nat \ {0} /\ u.log[n] = told
      /\ DOMAIN u.log = DOMAIN t.log \cup {n}
      /\ \A k \in DOMAIN t.log : u.log[k] = t.log[k] /\ k \in Nat /\ k < n
  BY <1>1, <1>2
<1>4. u.log # <<>> /\ Last(u.log).to = to
  BY <1>3 DEF Last
<1>5. \A k \in DOMAIN t.log :
         /\ u.log[k].to \in TRANSITIONS[u.log[k].from]
         /\ u.log[k].from \in {"open"} \cup {u.log[j].to : j \in 1..k-1}
  <2> TAKE k \in DOMAIN t.log
  <2>1. \A j \in 1..k-1 : u.log[j] = t.log[j]
    BY <1>2, <1>3
  <2>2. /\ t.log[k].to \in TRANSITIONS[t.log[k].from]
        /\ t.log[k].from \in {"open"} \cup {t.log[j].to : j \in 1..k-1}
    BY DEF Tells
  <2>3. u.log[k] = t.log[k]
    BY <1>3
  <2> QED
    BY <2>1, <2>2, <2>3
<1>6. /\ u.log[n].to \in TRANSITIONS[u.log[n].from]
      /\ u.log[n].from \in {"open"} \cup {u.log[j].to : j \in 1..n-1}
  <2>1. \A j \in DOMAIN t.log : j \in 1..n-1 /\ u.log[j] = t.log[j]
    BY <1>2, <1>3
  <2> QED
    BY <1>3, <2>1
<1>7. (to = "open" => ~u.resolved) /\ (to = "resolved" => u.resolved)
  BY <1>1, <1>2 DEF ResolvedAt
<1> QED
  BY <1>1, <1>3, <1>4, <1>5, <1>6, <1>7 DEF Tells, u

\* Rows and what their comments told stay.
LogsGrow ==
    \A i \in DOMAIN tickets :
        /\ i \in DOMAIN tickets'
        /\ \A j \in DOMAIN tickets[i].log :
              j \in DOMAIN tickets'[i].log /\ tickets'[i].log[j] = tickets[i].log[j]

LEMMA RowsStep ==
    ASSUME TicketsInv, [NextTickets]_ticketVars
    PROVE  LogsGrow /\ TicketStory'
<1> USE DEF LogsGrow
<1>1. /\ sequence \in Nat /\ tickets \in Seq(Ticket) /\ calls \in [Calls -> Call]
      /\ \A i \in DOMAIN tickets : Tells(tickets[i])
  BY StoriesTold DEF TicketsInv, TicketsOK
<1>2. CASE UNCHANGED tickets
  BY <1>2, <1>1 DEF TicketsInv, TicketStory
<1>3. ASSUME NEW c \in Calls, InsertTicket(c)
      PROVE  LogsGrow /\ TicketStory'
  <2>1. calls[c].ticket \in Nat /\ tickets' = Append(tickets, New(calls[c].ticket))
    BY <1>1, <1>3 DEF InsertTicket, New, Call
  <2>2. /\ \A i \in DOMAIN tickets : i \in DOMAIN tickets' /\ tickets'[i] = tickets[i]
        /\ DOMAIN tickets' = DOMAIN tickets \cup {Len(tickets) + 1}
        /\ tickets'[Len(tickets) + 1] = New(calls[c].ticket)
    BY <2>1, Inserted DEF TicketsInv
  <2>3. Tells(New(calls[c].ticket))
    BY DEF Tells, New
  <2>4. \A i \in DOMAIN tickets' : Tells(tickets'[i])
    BY <1>1, <2>2, <2>3
  <2>5. TicketStory'
    BY <2>4 DEF TicketStory, Tells
  <2> QED
    BY <2>2, <2>5
<1>4. ASSUME NEW c \in Calls, Transition(c)
      PROVE  LogsGrow /\ TicketStory'
  <2> DEFINE i == calls[c].ticket
             t == tickets[i]
             u == Moved(t, calls[c].from, calls[c].to)
  <2>1. /\ i \in DOMAIN tickets /\ calls[c].to \in TRANSITIONS[calls[c].from]
        /\ calls[c].from = "open" \/ \E j \in DOMAIN t.log : t.log[j].to = calls[c].from
    BY <1>4 DEF Transition, TicketsInv, AdmittedInv
  <2>2. t \in Ticket /\ calls[c].from \in STATUSES /\ calls[c].to \in STATUSES
    BY <1>1, <2>1 DEF Call
  <2>3. /\ DOMAIN tickets' = DOMAIN tickets /\ tickets'[i] = u
        /\ \A d \in DOMAIN tickets : d # i => tickets'[d] = tickets[d]
    BY <1>4, <2>1, Written DEF TicketsInv
  <2>4. Tells(u)
    <3>1. Tells(t)
      BY <1>1, <2>1
    <3> QED
      BY <2>1, <2>2, <3>1, MovedTells
  <2>5. \A j \in DOMAIN t.log : j \in DOMAIN u.log /\ u.log[j] = t.log[j]
    <3>1. u.log = Append(t.log, [from |-> calls[c].from, to |-> calls[c].to])
      BY <2>2, MovedTyped
    <3>2. t.log \in Seq(Told) /\ [from |-> calls[c].from, to |-> calls[c].to] \in Told
      BY <2>2 DEF Ticket, Told
    <3> HIDE DEF u, t
    <3> QED
      BY <3>1, <3>2
  <2> HIDE DEF u
  <2>6. \A d \in DOMAIN tickets' : Tells(tickets'[d])
    BY <1>1, <2>3, <2>4
  <2>7. TicketStory'
    BY <2>6 DEF TicketStory, Tells
  <2>8. LogsGrow
    BY <2>3, <2>5
  <2> QED
    BY <2>7, <2>8
<1>5. UNCHANGED tickets \/ \E c \in Calls : InsertTicket(c) \/ Transition(c)
  BY DEF NextTickets, ticketVars, Bump, CreateThrows, Edit, WriteThrows, AuditTicket,
         ReadForEdit, ReadTicket
<1> QED
  BY <1>2, <1>3, <1>4, <1>5

\* What was admitted stays explained by the row it was read from.
LEMMA AdmittedStep ==
    ASSUME TicketsInv, [NextTickets]_ticketVars
    PROVE  AdmittedInv'
<1>1. /\ tickets \in Seq(Ticket) /\ calls \in [Calls -> Call] /\ LogsGrow
      /\ \A i \in DOMAIN tickets : Tells(tickets[i])
  BY RowsStep, StoriesTold DEF TicketsInv, TicketsOK
<1> DEFINE Explained(i, from) ==
               from = "open" \/ \E j \in DOMAIN tickets[i].log : tickets[i].log[j].to = from
           Later(i, from) ==
               from = "open" \/ \E j \in DOMAIN tickets'[i].log : tickets'[i].log[j].to = from
<1>2. ASSUME NEW i \in DOMAIN tickets, NEW from \in STATUSES, Explained(i, from)
      PROVE  i \in DOMAIN tickets' /\ Later(i, from)
  BY <1>1, <1>2 DEF LogsGrow
<1>3. ASSUME NEW i \in DOMAIN tickets
      PROVE  tickets[i].status \in STATUSES /\ Explained(i, tickets[i].status)
  <2> DEFINE t == tickets[i]
  <2>1. t \in Ticket /\ Tells(t)
    BY <1>1
  <2>2. t.status \in STATUSES /\ t.log \in Seq(Told)
    BY <2>1 DEF Ticket
  <2>3. CASE t.log = <<>>
    BY <2>1, <2>2, <2>3 DEF Tells
  <2>4. CASE t.log # <<>>
    <3>1. Len(t.log) \in DOMAIN t.log
      BY <2>2, <2>4
    <3>2. t.status = t.log[Len(t.log)].to
      BY <2>1, <2>4 DEF Tells, Last
    <3> QED
      BY <2>2, <3>1, <3>2
  <2> QED
    BY <2>3, <2>4
<1>4. ASSUME NEW c \in Calls, calls'[c].at = "transition"
      PROVE  \/ calls'[c] = calls[c]
             \/ \E i \in DOMAIN tickets, to \in STATUSES :
                   /\ to \in TRANSITIONS[tickets[i].status]
                   /\ calls'[c] = [at |-> "transition", ticket |-> i,
                                   from |-> tickets[i].status, to |-> to]
  <2>1. UNCHANGED ticketVars => calls'[c] = calls[c]
    BY DEF ticketVars
  <2>2. ASSUME NEW d \in Calls, Bump(d) \/ CreateThrows(d) \/ WriteThrows(d) \/ AuditTicket(d)
        PROVE  calls'[c] = calls[c]
    <3>1. calls' = [calls EXCEPT ![d] = NoCall]
          \/ calls' = [calls EXCEPT ![d] = [NoCall EXCEPT !.at = "insert", !.ticket = sequence + 1]]
      BY <2>2 DEF Bump, CreateThrows, WriteThrows, AuditTicket
    <3>2. NoCall.at = "idle" /\ [NoCall EXCEPT !.at = "insert", !.ticket = sequence + 1].at = "insert"
      BY DEF NoCall
    <3> QED
      BY <1>1, <1>4, <3>1, <3>2
  <2>3. ASSUME NEW d \in Calls, InsertTicket(d) \/ Edit(d) \/ Transition(d)
        PROVE  calls'[c] = calls[c]
    <3>1. calls' = [calls EXCEPT ![d].at = "audit"]
      BY <2>3 DEF InsertTicket, Edit, Transition
    <3> QED
      BY <1>1, <1>4, <3>1 DEF Call
  <2>4. ASSUME NEW d \in Calls, NEW i \in DOMAIN tickets, ReadForEdit(d, i)
        PROVE  calls'[c] = calls[c]
    BY <1>1, <1>4, <2>4 DEF ReadForEdit, NoCall
  <2>5. ASSUME NEW d \in Calls, NEW i \in DOMAIN tickets, NEW to \in STATUSES, ReadTicket(d, i, to)
        PROVE  \/ calls'[c] = calls[c]
               \/ /\ to \in TRANSITIONS[tickets[i].status]
                  /\ calls'[c] = [at |-> "transition", ticket |-> i,
                                  from |-> tickets[i].status, to |-> to]
    BY <1>1, <2>5 DEF ReadTicket
  <2>6. ASSUME NextTickets, calls'[c] # calls[c]
        PROVE  \E d \in Calls, i \in DOMAIN tickets, to \in STATUSES : ReadTicket(d, i, to)
    <3>1. PICK d \in Calls :
             \/ Bump(d) \/ InsertTicket(d) \/ CreateThrows(d)
             \/ Edit(d) \/ Transition(d) \/ WriteThrows(d) \/ AuditTicket(d)
             \/ \E i \in DOMAIN tickets :
                   ReadForEdit(d, i) \/ \E to \in STATUSES : ReadTicket(d, i, to)
      BY <2>6 DEF NextTickets
    <3>2. ~(Bump(d) \/ CreateThrows(d) \/ WriteThrows(d) \/ AuditTicket(d))
      BY <2>2, <2>6
    <3>3. ~(InsertTicket(d) \/ Edit(d) \/ Transition(d))
      BY <2>3, <2>6
    <3>4. \A i \in DOMAIN tickets : ~ReadForEdit(d, i)
      BY <2>4, <2>6
    <3>5. PICK i \in DOMAIN tickets : \E to \in STATUSES : ReadTicket(d, i, to)
      BY <3>1, <3>2, <3>3, <3>4
    <3> QED
      BY <3>5
  <2>7. CASE calls'[c] # calls[c]
    <3>1. PICK d \in Calls, i \in DOMAIN tickets, to \in STATUSES : ReadTicket(d, i, to)
      BY <2>1, <2>6, <2>7
    <3> QED
      BY <2>5, <3>1
  <2> QED
    BY <2>7
<1>5. ASSUME NEW c \in Calls, calls'[c].at = "transition"
      PROVE  /\ calls'[c].ticket \in DOMAIN tickets
             /\ calls'[c].to \in TRANSITIONS[calls'[c].from]
             /\ calls'[c].from \in STATUSES
             /\ Explained(calls'[c].ticket, calls'[c].from)
  <2>1. CASE calls'[c] = calls[c]
    <3>1. calls[c].at = "transition" /\ calls[c].from \in STATUSES
      BY <1>1, <1>5, <2>1 DEF Call
    <3>2. /\ calls[c].ticket \in DOMAIN tickets
          /\ calls[c].to \in TRANSITIONS[calls[c].from]
          /\ Explained(calls[c].ticket, calls[c].from)
      BY <3>1 DEF TicketsInv, AdmittedInv
    <3> QED
      BY <2>1, <3>1, <3>2
  <2>2. ASSUME NEW i \in DOMAIN tickets, NEW to \in STATUSES,
               to \in TRANSITIONS[tickets[i].status],
               calls'[c] = [at |-> "transition", ticket |-> i,
                            from |-> tickets[i].status, to |-> to]
        PROVE  /\ calls'[c].ticket = i /\ calls'[c].to = to
               /\ calls'[c].from = tickets[i].status
    BY <2>2
  <2>3. ASSUME NEW i \in DOMAIN tickets, NEW to \in STATUSES,
               to \in TRANSITIONS[tickets[i].status],
               calls'[c] = [at |-> "transition", ticket |-> i,
                            from |-> tickets[i].status, to |-> to]
        PROVE  /\ calls'[c].ticket \in DOMAIN tickets
               /\ calls'[c].to \in TRANSITIONS[calls'[c].from]
               /\ calls'[c].from \in STATUSES
               /\ Explained(calls'[c].ticket, calls'[c].from)
    BY <1>3, <2>2, <2>3
  <2> HIDE DEF Explained
  <2> QED
    BY <1>4, <1>5, <2>1, <2>3
<1> HIDE DEF Explained
<1> QED
  BY <1>2, <1>5 DEF AdmittedInv

-----------------------------------------------------------------------------
(* Tickets: the theorems *)

LEMMA TicketsInit ==
    InitTickets => TicketsInv
<1> SUFFICES ASSUME InitTickets
             PROVE  TicketsInv
  OBVIOUS
<1>1. TicketsOK
  BY StatusesTyped DEF InitTickets, TicketsOK
<1>2. \A c \in Calls : calls[c].at = "idle"
  BY DEF InitTickets, NoCall
<1> QED
  BY <1>1, <1>2 DEF InitTickets, TicketsInv, NumbersInv, NumbersHaveNoGap, AdmittedInv, TicketStory

LEMMA TicketsStep ==
    TicketsInv /\ [NextTickets]_ticketVars => TicketsInv'
  BY TicketTypesStep, NumbersStep, RowsStep, AdmittedStep DEF TicketsInv

\* The requests, the numbers and the tickets keep their types.
THEOREM TicketsTypeCorrect ==
    SpecTickets => []TicketsOK
<1>1. TicketsInv => TicketsOK
  BY DEF TicketsInv
<1> QED
  BY TicketsInit, TicketsStep, <1>1, PTL DEF SpecTickets

\* However many creates run at once and whichever of them throw, the tickets are
\* numbered 1, 2, 3 ...: the lock of the bump is held to the end of the transaction.
THEOREM NumbersAreWhole ==
    SpecTickets => []NumbersHaveNoGap
<1>1. TicketsInv => NumbersHaveNoGap
  BY DEF TicketsInv
<1> QED
  BY TicketsInit, TicketsStep, <1>1, PTL DEF SpecTickets

\* However the requests that read and write a ticket interleave, its comments tell
\* how it came to its status, by transitions of the table.
THEOREM StoriesAreTold ==
    SpecTickets => []TicketStory
<1>1. TicketsInv => TicketStory
  BY DEF TicketsInv
<1> QED
  BY TicketsInit, TicketsStep, <1>1, PTL DEF SpecTickets

-----------------------------------------------------------------------------
(* Sessions: the invariant *)


TokenRec == [perms : SUBSET Perms, exp : Nat]
GrantRec == [at : {"idle", "membership", "role", "sign"}, perms : SUBSET Perms,
             for : SUBSET Fetches, had : BOOLEAN]
FetchRec == [at : {"idle", "sent", "refresh", "wait", "again"}, perm : SUBSET Perms,
             token : TokenRec]
TabRec == [access : TokenRec, cookie : Nat]

\* A token is no longer valid once none of its permissions was held for a whole TTL.
FreshAt(token, held) == \A p \in token.perms : token.exp <= held[p] + AccessTTL

\* A handler that reads the role, or signs it, has found the user a member.
Found(k) == k.at \in {"role", "sign"} => k.had
\* A call needs at most one permission.
NeedsOne(k) == k.perm = {} \/ \E p \in Perms : k.perm = {p}

GrantsFound == \A g \in Grants : Found(grants[g])
TokensFresh ==
    /\ FreshAt(tab.access, lastHeld)
    /\ \A f \in Fetches : FreshAt(fetches[f].token, lastHeld)
OneEach == \A f \in Fetches : NeedsOne(fetches[f])

\* Who has a permission, or has a handler about to sign it, has it now.
HeldNow == \A p \in Perms : lastHeld[p] <= now /\ (Held(p) => lastHeld[p] = now)

SInv == SessionsOK /\ GrantsFound /\ TokensFresh /\ OneEach /\ HeldNow /\ GoneWithinOneTTL

-----------------------------------------------------------------------------
(* Sessions: types *)

LEMMA SessionConstants == AccessTTL \in Nat \ {0} /\ RefreshTTL \in Nat \ {0}
  BY SessionsAssumption

LEMMA SessionsTyped ==
    ASSUME SessionsOK
    PROVE  /\ now \in Nat /\ overdue \in Nat /\ member \in BOOLEAN /\ registered \in BOOLEAN
           /\ role \in SUBSET Perms /\ grants \in [Grants -> GrantRec] /\ tab \in TabRec
           /\ fetches \in [Fetches -> FetchRec] /\ lastHeld \in [Perms -> Nat]
           /\ tab.access \in TokenRec
           /\ \A g \in Grants : grants[g] \in GrantRec /\ grants[g].perms \in SUBSET Perms
           /\ \A f \in Fetches : fetches[f] \in FetchRec /\ fetches[f].token \in TokenRec
<1>1. /\ now \in Nat /\ overdue \in Nat /\ member \in BOOLEAN /\ registered \in BOOLEAN
      /\ role \in SUBSET Perms /\ lastHeld \in [Perms -> Nat]
  BY DEF SessionsOK
<1>2. grants \in [Grants -> GrantRec] /\ tab \in TabRec /\ fetches \in [Fetches -> FetchRec]
  BY DEF SessionsOK, GrantRec, TabRec, FetchRec, TokenRec
<1>3. tab.access \in TokenRec
  BY <1>2 DEF TabRec
<1>4. \A g \in Grants : grants[g] \in GrantRec /\ grants[g].perms \in SUBSET Perms
  BY <1>2 DEF GrantRec
<1>5. \A f \in Fetches : fetches[f] \in FetchRec /\ fetches[f].token \in TokenRec
  BY <1>2 DEF FetchRec
<1> QED
  BY <1>1, <1>2, <1>3, <1>4, <1>5

LEMMA EmptyTyped ==
    /\ NoToken \in TokenRec /\ NoSession \in TabRec /\ NoGrant \in GrantRec /\ NoFetch \in FetchRec
    /\ NoToken.perms = {} /\ NoSession.access = NoToken /\ NoFetch.token = NoToken
    /\ NoFetch.perm = {} /\ NoGrant.at = "idle"
  BY DEF NoToken, NoSession, NoGrant, NoFetch, Never, TokenRec, TabRec, GrantRec, FetchRec

\* What lastHeld says of a permission never decreases.
LEMMA HeldStep ==
    ASSUME SInv, NextSessions
    PROVE  /\ now' \in Nat /\ now <= now' /\ lastHeld' \in [Perms -> Nat]
           /\ \A p \in Perms : lastHeld[p] <= lastHeld'[p]
           /\ HeldNow'
<1>1. now \in Nat /\ lastHeld \in [Perms -> Nat]
  BY SessionsTyped DEF SInv
<1>2. now' = now \/ now' = now + 1
  BY DEF NextSessions, SessionSteps, TimePasses, MembershipChanges, Signup, Logout, Reload,
         LeaveForLogin, RoleChanges, StartLogin, ReadMembership, ReadRole, TakeSession,
         StartRefresh, CannotRefresh, Serve, Refuse, Fetch
<1>3. now' \in Nat /\ now <= now'
  BY <1>1, <1>2
<1> DEFINE H(p) == \/ member' /\ p \in role'
                   \/ \E g \in Grants :
                         /\ grants'[g].had
                         /\ \/ grants'[g].at = "role" /\ p \in role'
                            \/ grants'[g].at = "sign" /\ p \in grants'[g].perms
<1>4. lastHeld' = [p \in Perms |-> IF H(p) THEN now' ELSE lastHeld[p]]
  BY DEF NextSessions, Held
<1>5. HeldNow' <=> \A p \in Perms : lastHeld'[p] <= now' /\ (H(p) => lastHeld'[p] = now')
  BY DEF HeldNow, Held
<1> HIDE DEF H
<1>6. \A p \in Perms : lastHeld[p] <= now
  BY DEF SInv, HeldNow
<1>7. \A p \in Perms : /\ lastHeld'[p] \in Nat /\ lastHeld[p] <= lastHeld'[p]
                       /\ lastHeld'[p] <= now' /\ (H(p) => lastHeld'[p] = now')
  BY <1>1, <1>3, <1>4, <1>6
<1>8. lastHeld' \in [Perms -> Nat]
  BY <1>4, <1>7
<1> QED
  BY <1>3, <1>5, <1>7, <1>8

\* So a token that was fresh is.
LEMMA StaysFresh ==
    ASSUME SInv, NextSessions, NEW token \in TokenRec, FreshAt(token, lastHeld)
    PROVE  FreshAt(token, lastHeld')
<1> SUFFICES ASSUME NEW p \in token.perms
             PROVE  token.exp <= lastHeld'[p] + AccessTTL
  BY DEF FreshAt
<1>1. p \in Perms /\ token.exp \in Nat
  BY DEF TokenRec
<1>2. lastHeld[p] \in Nat /\ lastHeld'[p] \in Nat /\ lastHeld[p] <= lastHeld'[p]
  BY <1>1, HeldStep, SessionsTyped DEF SInv
<1>3. token.exp <= lastHeld[p] + AccessTTL
  BY DEF FreshAt
<1> QED
  BY <1>1, <1>2, <1>3, SessionConstants

-----------------------------------------------------------------------------
(* The handlers of login and refresh *)

GrantGood(k) == k \in GrantRec /\ Found(k)

LEMMA GrantsStep ==
    ASSUME SInv, SessionSteps
    PROVE  grants' \in [Grants -> GrantRec] /\ GrantsFound'
<1>1. grants \in [Grants -> GrantRec] /\ \A g \in Grants : GrantGood(grants[g])
  BY SessionsTyped DEF SInv, GrantsFound, GrantGood
<1>2. GrantGood(NoGrant)
  BY EmptyTyped DEF GrantGood, Found
<1> SUFFICES grants' \in [Grants -> GrantRec] /\ \A g \in Grants : GrantGood(grants'[g])
  BY DEF GrantsFound, GrantGood
<1>3. ASSUME NEW g \in Grants, NEW k, GrantGood(k), grants' = [grants EXCEPT ![g] = k]
      PROVE  grants' \in [Grants -> GrantRec] /\ \A h \in Grants : GrantGood(grants'[h])
  BY <1>1, <1>3 DEF GrantGood
<1>4. ASSUME NEW g \in Grants, StartLogin(g)
      PROVE  grants' \in [Grants -> GrantRec] /\ \A h \in Grants : GrantGood(grants'[h])
  <2>1. grants' = [grants EXCEPT ![g] = [grants[g] EXCEPT !.at = "membership"]]
    BY <1>4 DEF StartLogin
  <2>2. GrantGood([grants[g] EXCEPT !.at = "membership"])
    BY <1>1 DEF GrantGood, Found, GrantRec
  <2> QED
    BY <1>3, <2>1, <2>2
<1>5. ASSUME NEW g \in Grants, NEW for \in SUBSET Fetches, StartRefresh(g, for)
      PROVE  grants' \in [Grants -> GrantRec] /\ \A h \in Grants : GrantGood(grants'[h])
  <2>1. grants' = [grants EXCEPT ![g] = [NoGrant EXCEPT !.at = "membership", !.for = for]]
    BY <1>5 DEF StartRefresh
  <2>2. GrantGood([NoGrant EXCEPT !.at = "membership", !.for = for])
    BY DEF GrantGood, Found, GrantRec, NoGrant
  <2> QED
    BY <1>3, <2>1, <2>2
<1>6. ASSUME NEW g \in Grants, ReadMembership(g)
      PROVE  grants' \in [Grants -> GrantRec] /\ \A h \in Grants : GrantGood(grants'[h])
  <2>1. CASE member
    <3>1. grants' = [grants EXCEPT ![g] = [grants[g] EXCEPT !.at = "role", !.had = member]]
      BY <1>6, <2>1 DEF ReadMembership
    <3>2. member \in BOOLEAN /\ member
      BY <2>1, SessionsTyped DEF SInv
    <3>3. [grants[g] EXCEPT !.at = "role", !.had = member] \in GrantRec
      BY <1>1, <3>2 DEF GrantGood, GrantRec
    <3>4. [grants[g] EXCEPT !.at = "role", !.had = member].had = member
      BY <1>1 DEF GrantGood, GrantRec
    <3>5. GrantGood([grants[g] EXCEPT !.at = "role", !.had = member])
      BY <3>2, <3>3, <3>4 DEF GrantGood, Found
    <3> QED
      BY <1>3, <3>1, <3>5
  <2>2. CASE ~member
    BY <1>2, <1>3, <1>6, <2>2 DEF ReadMembership, Refused
  <2> QED
    BY <2>1, <2>2
<1>7. ASSUME NEW g \in Grants, ReadRole(g)
      PROVE  grants' \in [Grants -> GrantRec] /\ \A h \in Grants : GrantGood(grants'[h])
  <2>1. /\ grants' = [grants EXCEPT ![g] = [grants[g] EXCEPT !.at = "sign", !.perms = role]]
        /\ grants[g].at = "role" /\ role \in SUBSET Perms
    BY <1>7, SessionsTyped DEF ReadRole, SInv
  <2>2. GrantGood([grants[g] EXCEPT !.at = "sign", !.perms = role])
    BY <1>1, <2>1 DEF GrantGood, Found, GrantRec
  <2> QED
    BY <1>3, <2>1, <2>2
<1>8. ASSUME NEW g \in Grants, TakeSession(g)
      PROVE  grants' \in [Grants -> GrantRec] /\ \A h \in Grants : GrantGood(grants'[h])
  BY <1>2, <1>3, <1>8 DEF TakeSession
<1>9. CASE Reload
  <2>1. grants' = [g \in Grants |-> [grants[g] EXCEPT !.for = {}]]
    BY <1>9 DEF Reload
  <2>2. \A g \in Grants : GrantGood([grants[g] EXCEPT !.for = {}])
    BY <1>1 DEF GrantGood, Found, GrantRec
  <2> QED
    BY <2>1, <2>2 DEF GrantGood
<1>10. CASE UNCHANGED grants
  BY <1>1, <1>10
<1>11. CASE \/ TimePasses \/ MembershipChanges \/ Signup \/ Logout \/ LeaveForLogin
            \/ \E perms \in SUBSET Perms : RoleChanges(perms)
            \/ \E f \in Fetches : \/ CannotRefresh(f) \/ Serve(f) \/ Refuse(f)
                                  \/ \E p \in Perms : Fetch(f, p)
  BY <1>10, <1>11 DEF TimePasses, MembershipChanges, Signup, Logout, LeaveForLogin, RoleChanges,
                      CannotRefresh, Serve, Refuse, Fetch
<1> QED
  BY <1>4, <1>5, <1>6, <1>7, <1>8, <1>9, <1>11 DEF SessionSteps

-----------------------------------------------------------------------------
(* Sessions: tokens *)

\* What is signed was held until now.
LEMMA SignedFresh ==
    ASSUME SInv, NextSessions, NEW g \in Grants, TakeSession(g)
    PROVE  /\ tab' \in TabRec /\ tab'.access \in TokenRec
           /\ FreshAt(tab'.access, lastHeld')
<1>1. /\ tab' = [access |-> [perms |-> grants[g].perms, exp |-> now + AccessTTL],
                 cookie |-> now + RefreshTTL]
      /\ grants[g].at = "sign"
  BY DEF TakeSession, issueSession
<1>2. now \in Nat /\ grants[g].perms \in SUBSET Perms /\ lastHeld \in [Perms -> Nat]
  BY SessionsTyped DEF SInv
<1>3. /\ tab' \in TabRec /\ tab'.access \in TokenRec
      /\ tab'.access.perms = grants[g].perms /\ tab'.access.exp = now + AccessTTL
  BY <1>1, <1>2, SessionConstants DEF TabRec, TokenRec
<1>4. ASSUME NEW p \in grants[g].perms
      PROVE  lastHeld[p] = now
  <2>1. grants[g].had /\ p \in Perms
    BY <1>1, <1>2, <1>4 DEF SInv, GrantsFound, Found
  <2>2. Held(p)
    BY <1>1, <1>4, <2>1 DEF Held
  <2> QED
    BY <2>1, <2>2 DEF SInv, HeldNow
<1>5. FreshAt(tab'.access, lastHeld)
  BY <1>2, <1>3, <1>4, SessionConstants DEF FreshAt
<1> QED
  BY <1>3, <1>5, StaysFresh

LEMMA TabStep ==
    ASSUME SInv, NextSessions
    PROVE  tab' \in TabRec /\ FreshAt(tab'.access, lastHeld')
<1>1. tab \in TabRec /\ tab.access \in TokenRec /\ FreshAt(tab.access, lastHeld)
  BY SessionsTyped DEF SInv, TokensFresh
<1>2. NoToken \in TokenRec /\ NoSession \in TabRec /\ FreshAt(NoToken, lastHeld')
  BY EmptyTyped DEF FreshAt
<1>3. CASE UNCHANGED tab
  BY <1>1, <1>3, StaysFresh
<1>4. CASE Logout
  BY <1>2, <1>4, EmptyTyped DEF Logout
<1>5. CASE Reload \/ LeaveForLogin
  <2>1. tab' = [tab EXCEPT !.access = NoToken]
    BY <1>5 DEF Reload, LeaveForLogin
  <2>2. tab' \in TabRec /\ tab'.access = NoToken
    BY <1>1, <1>2, <2>1 DEF TabRec
  <2> QED
    BY <1>2, <2>2
<1>6. ASSUME NEW g \in Grants, TakeSession(g)
      PROVE  tab' \in TabRec /\ FreshAt(tab'.access, lastHeld')
  BY <1>6, SignedFresh
<1>7. CASE \/ TimePasses \/ MembershipChanges \/ Signup
           \/ \E perms \in SUBSET Perms : RoleChanges(perms)
           \/ \E g \in Grants : \/ StartLogin(g) \/ ReadMembership(g) \/ ReadRole(g)
                                \/ StartRefresh(g, {}) \/ \E f \in Fetches : StartRefresh(g, {f})
           \/ \E f \in Fetches : \/ CannotRefresh(f) \/ Serve(f) \/ Refuse(f)
                                 \/ \E p \in Perms : Fetch(f, p)
  BY <1>3, <1>7 DEF TimePasses, MembershipChanges, Signup, RoleChanges, StartLogin, ReadMembership,
                    ReadRole, StartRefresh, CannotRefresh, Serve, Refuse, Fetch
<1> QED
  BY <1>4, <1>5, <1>6, <1>7 DEF NextSessions, SessionSteps

-----------------------------------------------------------------------------
(* The calls of api() *)

FetchGood(k, held) == k \in FetchRec /\ FreshAt(k.token, held) /\ NeedsOne(k)

\* A call goes on with the same token, or is over.
LEMMA FetchMoves ==
    ASSUME SInv, NextSessions, NEW f \in Fetches
    PROVE  /\ FetchGood(fetches[f], lastHeld') /\ FetchGood(NoFetch, lastHeld')
           /\ \A x \in {"wait", "refresh"} :
                 FetchGood([fetches[f] EXCEPT !.at = x], lastHeld')
<1>1. /\ fetches[f] \in FetchRec /\ fetches[f].token \in TokenRec
      /\ FreshAt(fetches[f].token, lastHeld) /\ NeedsOne(fetches[f])
  BY SessionsTyped DEF SInv, TokensFresh, OneEach
<1>2. FreshAt(fetches[f].token, lastHeld')
  BY <1>1, StaysFresh
<1>3. FetchGood(NoFetch, lastHeld')
  BY EmptyTyped DEF FetchGood, FreshAt, NeedsOne
<1>4. ASSUME NEW x \in {"wait", "refresh"}
      PROVE  FetchGood([fetches[f] EXCEPT !.at = x], lastHeld')
  <2>1. /\ [fetches[f] EXCEPT !.at = x] \in FetchRec
        /\ [fetches[f] EXCEPT !.at = x].token = fetches[f].token
        /\ [fetches[f] EXCEPT !.at = x].perm = fetches[f].perm
    BY <1>1 DEF FetchRec
  <2> QED
    BY <1>1, <1>2, <2>1 DEF FetchGood, NeedsOne
<1> QED
  BY <1>1, <1>2, <1>3, <1>4 DEF FetchGood

LEMMA FetchesStep ==
    ASSUME SInv, NextSessions
    PROVE  /\ fetches' \in [Fetches -> FetchRec]
           /\ \A f \in Fetches : FreshAt(fetches'[f].token, lastHeld') /\ NeedsOne(fetches'[f])
<1> DEFINE Good == /\ fetches' \in [Fetches -> FetchRec]
                   /\ \A f \in Fetches : FetchGood(fetches'[f], lastHeld')
<1> SUFFICES Good
  BY DEF FetchGood
<1>1. fetches \in [Fetches -> FetchRec]
  BY SessionsTyped DEF SInv
<1>2. ASSUME NEW g \in Grants, Refused(g)
      PROVE  Good
  BY <1>2, FetchMoves DEF Refused, FetchGood
<1>3. CASE Reload
  BY <1>3, FetchMoves DEF Reload, FetchGood
<1>4. ASSUME NEW g \in Grants, NEW for, StartRefresh(g, for)
      PROVE  Good
  BY <1>4, FetchMoves DEF StartRefresh, FetchGood
<1>5. ASSUME NEW f \in Fetches, NEW k, FetchGood(k, lastHeld'), fetches' = [fetches EXCEPT ![f] = k]
      PROVE  Good
  BY <1>1, <1>5, FetchMoves DEF FetchGood
<1>6. ASSUME NEW f \in Fetches, CannotRefresh(f) \/ Serve(f) \/ Refuse(f)
      PROVE  Good
  <2>1. \/ fetches' = [fetches EXCEPT ![f] = NoFetch]
        \/ fetches' = [fetches EXCEPT ![f] = [fetches[f] EXCEPT !.at = "refresh"]]
    BY <1>6 DEF CannotRefresh, Serve, Refuse
  <2> QED
    BY <1>5, <2>1, FetchMoves
<1>7. ASSUME NEW f \in Fetches, NEW p \in Perms, Fetch(f, p)
      PROVE  Good
  <2> DEFINE k == [at |-> "sent", perm |-> {p}, token |-> tab.access]
  <2>1. fetches' = [fetches EXCEPT ![f] = k]
    BY <1>7 DEF Fetch
  <2>2. tab.access \in TokenRec /\ FreshAt(tab.access, lastHeld')
    BY SessionsTyped, StaysFresh DEF SInv, TokensFresh
  <2>3. k \in FetchRec /\ k.token = tab.access /\ k.perm = {p}
    BY <2>2 DEF FetchRec
  <2>4. FetchGood(k, lastHeld')
    BY <2>2, <2>3 DEF FetchGood, NeedsOne
  <2> QED
    BY <1>5, <2>1, <2>4
<1>8. ASSUME NEW g \in Grants, TakeSession(g)
      PROVE  Good
  <2>1. tab'.access \in TokenRec /\ FreshAt(tab'.access, lastHeld')
    BY <1>8, SignedFresh
  <2>2. fetches' = [f \in Fetches |-> IF f \in grants[g].for
                       THEN [fetches[f] EXCEPT !.at = "again", !.token = tab'.access]
                       ELSE fetches[f]]
    BY <1>8 DEF TakeSession
  <2>3. ASSUME NEW f \in Fetches
        PROVE  FetchGood([fetches[f] EXCEPT !.at = "again", !.token = tab'.access], lastHeld')
    <3>1. fetches[f] \in FetchRec /\ NeedsOne(fetches[f])
      BY <1>1 DEF SInv, OneEach
    <3>2. /\ [fetches[f] EXCEPT !.at = "again", !.token = tab'.access] \in FetchRec
          /\ [fetches[f] EXCEPT !.at = "again", !.token = tab'.access].token = tab'.access
          /\ [fetches[f] EXCEPT !.at = "again", !.token = tab'.access].perm = fetches[f].perm
      BY <2>1, <3>1 DEF FetchRec
    <3> QED
      BY <2>1, <3>1, <3>2 DEF FetchGood, NeedsOne
  <2>4. ASSUME NEW f \in Fetches
        PROVE  FetchGood(fetches'[f], lastHeld')
    <3>1. CASE f \in grants[g].for
      BY <2>2, <2>3, <3>1
    <3>2. CASE f \notin grants[g].for
      BY <2>2, <3>2, FetchMoves
    <3> QED
      BY <3>1, <3>2
  <2>5. fetches' \in [Fetches -> FetchRec]
    <3>1. \A f \in Fetches : fetches'[f] \in FetchRec
      BY <2>4 DEF FetchGood
    <3> QED
      BY <2>2, <3>1
  <2> QED
    BY <2>4, <2>5
<1>9. CASE UNCHANGED fetches
  BY <1>1, <1>9, FetchMoves
<1>10. ASSUME NEW g \in Grants, ReadMembership(g)
       PROVE  Good
  BY <1>2, <1>9, <1>10 DEF ReadMembership
<1>11. CASE \/ TimePasses \/ MembershipChanges \/ Signup \/ Logout \/ LeaveForLogin
            \/ \E perms \in SUBSET Perms : RoleChanges(perms)
            \/ \E g \in Grants : StartLogin(g) \/ ReadRole(g)
  BY <1>9, <1>11 DEF TimePasses, MembershipChanges, Signup, Logout, LeaveForLogin, RoleChanges,
                     StartLogin, ReadRole
<1> HIDE DEF Good
<1> QED
  BY <1>3, <1>4, <1>6, <1>7, <1>8, <1>10, <1>11 DEF NextSessions, SessionSteps

-----------------------------------------------------------------------------
(* How late a request is served *)

\* Serve keeps the longer of the two delays, and this one is less than a TTL.
LEMMA ServeStep ==
    ASSUME SInv, NEW f \in Fetches, Serve(f)
    PROVE  overdue' \in Nat /\ overdue' < AccessTTL
<1>1. /\ now \in Nat /\ overdue \in Nat /\ overdue < AccessTTL /\ lastHeld \in [Perms -> Nat]
      /\ fetches[f].token \in TokenRec /\ NeedsOne(fetches[f])
      /\ FreshAt(fetches[f].token, lastHeld)
  BY SessionsTyped DEF SInv, GoneWithinOneTTL, OneEach, TokensFresh
<1>2. /\ now < fetches[f].token.exp /\ fetches[f].perm \subseteq fetches[f].token.perms
      /\ overdue' = CHOOSE n \in {overdue} \cup {now - lastHeld[p] : p \in fetches[f].perm} :
                       \A p \in fetches[f].perm : n >= overdue /\ n >= now - lastHeld[p]
  BY DEF Serve, Valid
<1>3. ASSUME NEW p \in fetches[f].perm
      PROVE  now - lastHeld[p] \in Nat /\ now - lastHeld[p] < AccessTTL
  <2>1. p \in Perms /\ fetches[f].token.exp \in Nat
    BY <1>1, <1>2, <1>3 DEF TokenRec
  <2>2. fetches[f].token.exp <= lastHeld[p] + AccessTTL
    BY <1>1, <1>2, <1>3 DEF FreshAt
  <2>3. lastHeld[p] <= now /\ lastHeld[p] \in Nat
    BY <1>1, <2>1 DEF SInv, HeldNow
  <2> QED
    BY <1>1, <1>2, <2>1, <2>2, <2>3, SessionConstants
<1> DEFINE S == {overdue} \cup {now - lastHeld[p] : p \in fetches[f].perm}
           Longest(n) == \A p \in fetches[f].perm : n >= overdue /\ n >= now - lastHeld[p]
<1>4. \E n \in S : Longest(n)
  <2>1. CASE fetches[f].perm = {}
    BY <2>1
  <2>2. ASSUME NEW p, fetches[f].perm = {p}
        PROVE  \E n \in S : Longest(n)
    <3>1. now - lastHeld[p] \in Nat
      BY <1>3, <2>2
    <3>2. CASE overdue >= now - lastHeld[p]
      <4>1. Longest(overdue)
        BY <1>1, <2>2, <3>2
      <4> QED
        BY <4>1
    <3>3. CASE overdue < now - lastHeld[p]
      <4>1. Longest(now - lastHeld[p])
        BY <1>1, <2>2, <3>1, <3>3
      <4>2. now - lastHeld[p] \in S
        BY <2>2
      <4> QED
        BY <4>1, <4>2
    <3> QED
      BY <1>1, <3>1, <3>2, <3>3
  <2> QED
    BY <1>1, <2>1, <2>2 DEF NeedsOne
<1>5. overdue' = CHOOSE n \in S : Longest(n)
  BY <1>2
<1> HIDE DEF Longest
<1>6. overdue' \in S
  BY <1>4, <1>5
<1> QED
  BY <1>1, <1>3, <1>6

LEMMA OverdueStep ==
    ASSUME SInv, NextSessions
    PROVE  overdue' \in Nat /\ overdue' < AccessTTL
<1>1. CASE UNCHANGED overdue
  BY <1>1, SessionsTyped DEF SInv, GoneWithinOneTTL
<1>2. CASE \E f \in Fetches : Serve(f)
  BY <1>2, ServeStep
<1>3. CASE ~\E f \in Fetches : Serve(f)
  <2>1. UNCHANGED overdue
    BY <1>3 DEF NextSessions, SessionSteps, TimePasses, MembershipChanges, Signup, Logout, Reload,
           LeaveForLogin, RoleChanges, StartLogin, ReadMembership, ReadRole, TakeSession,
           StartRefresh, CannotRefresh, Refuse, Fetch
  <2> QED
    BY <1>1, <2>1
<1> QED
  BY <1>2, <1>3

LEMMA UserStep ==
    ASSUME SInv, NextSessions
    PROVE  registered' \in BOOLEAN /\ member' \in BOOLEAN /\ role' \in SUBSET Perms
<1>1. registered \in BOOLEAN /\ member \in BOOLEAN /\ role \in SUBSET Perms
  BY SessionsTyped DEF SInv
<1> QED
  BY <1>1 DEF NextSessions, SessionSteps, TimePasses, MembershipChanges, Signup, Logout, Reload,
              LeaveForLogin, RoleChanges, StartLogin, ReadMembership, ReadRole, TakeSession,
              StartRefresh, CannotRefresh, Serve, Refuse, Fetch

-----------------------------------------------------------------------------
(* Sessions: the theorems *)

LEMMA SessionsInitially ==
    ASSUME InitSessions
    PROVE  SInv
<1>1. /\ now = 1 /\ registered \in BOOLEAN /\ member = registered
      /\ role = (IF registered THEN Perms ELSE {})
      /\ grants = [g \in Grants |-> NoGrant] /\ tab = NoSession
      /\ fetches = [f \in Fetches |-> NoFetch] /\ lastHeld = [p \in Perms |-> 1] /\ overdue = 0
  BY DEF InitSessions
<1>2. SessionsOK
  BY <1>1, EmptyTyped DEF SessionsOK, GrantRec, TabRec, FetchRec, TokenRec
<1>3. GrantsFound /\ TokensFresh /\ OneEach
  BY <1>1, EmptyTyped DEF GrantsFound, Found, TokensFresh, FreshAt, OneEach, NeedsOne
<1>4. HeldNow /\ GoneWithinOneTTL
  BY <1>1, SessionConstants DEF HeldNow, GoneWithinOneTTL
<1> QED
  BY <1>2, <1>3, <1>4 DEF SInv

\* The invariant is inductive.
THEOREM SessionsInvariant == SpecSessions => []SInv
<1>1. SInv /\ [NextSessions]_sessionVars => SInv'
  <2> SUFFICES ASSUME SInv, [NextSessions]_sessionVars
               PROVE  SInv'
    OBVIOUS
  <2>1. CASE UNCHANGED sessionVars
    BY <2>1 DEF sessionVars, SInv, SessionsOK, GrantsFound, Found, TokensFresh, FreshAt, OneEach,
                NeedsOne, HeldNow, Held, GoneWithinOneTTL
  <2>2. CASE NextSessions
    <3>1. /\ now' \in Nat /\ lastHeld' \in [Perms -> Nat] /\ HeldNow'
      BY <2>2, HeldStep
    <3>2. grants' \in [Grants -> GrantRec] /\ GrantsFound'
      BY <2>2, GrantsStep DEF NextSessions
    <3>3. tab' \in TabRec /\ fetches' \in [Fetches -> FetchRec] /\ TokensFresh' /\ OneEach'
      BY <2>2, TabStep, FetchesStep DEF TokensFresh, OneEach, FreshAt, NeedsOne
    <3>4. overdue' \in Nat /\ GoneWithinOneTTL'
      BY <2>2, OverdueStep DEF GoneWithinOneTTL
    <3>5. SessionsOK'
      BY <2>2, <3>1, <3>2, <3>3, <3>4, UserStep
         DEF SessionsOK, GrantRec, TabRec, FetchRec, TokenRec
    <3> QED
      BY <3>1, <3>2, <3>3, <3>4, <3>5 DEF SInv
  <2> QED
    BY <2>1, <2>2
<1> QED
  BY <1>1, SessionsInitially, PTL DEF SpecSessions

\* The variables of Sessions keep their types.
THEOREM SessionsTypeCorrect == SpecSessions => []SessionsOK
<1>1. SInv => SessionsOK
  BY DEF SInv
<1> QED
  BY <1>1, SessionsInvariant, PTL

\* issueSession, refresh and the guards, for every lifetime of an access token: a
\* permission taken away serves requests for less than that much longer, whichever
\* handlers had read the membership or the role before.
THEOREM GoneInTime == SpecSessions => []GoneWithinOneTTL
<1>1. SInv => GoneWithinOneTTL
  BY DEF SInv
<1> QED
  BY <1>1, SessionsInvariant, PTL

-----------------------------------------------------------------------------
(* Pages: the invariant *)

PageRec == [shown : Nat, loading : BOOLEAN, busy : BOOLEAN, posting : BOOLEAN,
            timer : BOOLEAN, failed : BOOLEAN]
LoadRec == [at : {"free", "sent", "served"}, version : Nat,
            for : {"load", "comment", "timeline"}]
PostRec == [at : {"free", "sent", "served"}, version : Nat, for : {"act", "form"}, ok : BOOLEAN]

\* The pages that neither poll nor listen, nor have a form.
Alone == kind \in {"incident", "host"}

Getting(l) == loads[l].at # "free"
Posting(p) == posts[p].at # "free"

\* No frame comes, so no reload is due.
NothingHeard == frames = FALSE /\ page.timer = FALSE
\* A skeleton, or a disabled button, stands for whatever is under way.
Guarded ==
    /\ \A l \in Loads : Getting(l) => \/ loads[l].for = "load" /\ page.loading = TRUE
                                      \/ loads[l].for = "timeline" /\ page.busy = TRUE
    /\ \A p \in Posts : Posting(p) => posts[p].for = "act" /\ page.busy = TRUE
    /\ page.busy = TRUE => kind = "incident" /\ page.loading = FALSE /\ page.failed = FALSE
\* At most one request is.
OneRequest ==
    /\ \A k, l \in Loads : Getting(k) /\ Getting(l) => k = l
    /\ \A p, q \in Posts : Posting(p) /\ Posting(q) => p = q
    /\ \A l \in Loads, p \in Posts : ~(Getting(l) /\ Posting(p))
\* What it brings is no older than what is shown.
NewerComes ==
    /\ page.shown <= version
    /\ \A l \in Loads : loads[l].at = "served" =>
           page.shown <= loads[l].version /\ loads[l].version <= version
    /\ \A p \in Posts : posts[p].at = "served" /\ posts[p].ok = TRUE =>
           page.shown <= posts[p].version /\ posts[p].version <= version

PagesInv == PagesOK /\ (Alone => NothingHeard /\ Guarded /\ OneRequest /\ NewerComes)

-----------------------------------------------------------------------------
(* Pages: types *)

LEMMA PagesTyped ==
    PagesOK <=> /\ kind \in Kinds /\ version \in Nat /\ frames \in BOOLEAN /\ pageFaults \in Nat
                /\ page \in PageRec /\ loads \in [Loads -> LoadRec]
                /\ posts \in [Posts -> PostRec]
  BY DEF PagesOK, PageRec, LoadRec, PostRec

LEMMA NoneTyped ==
    /\ NoLoad \in LoadRec /\ NoLoad.at = "free" /\ NoLoad.for = "load"
    /\ NoPost \in PostRec /\ NoPost.at = "free" /\ NoPost.for = "act" /\ NoPost.ok = TRUE
  BY DEF NoLoad, NoPost, NotYet, LoadRec, PostRec

\* What becomes of one request leaves the others.
LEMMA LoadSet ==
    ASSUME loads \in [Loads -> LoadRec], NEW l \in Loads, NEW k \in LoadRec,
           loads' = [loads EXCEPT ![l] = k]
    PROVE  /\ loads' \in [Loads -> LoadRec] /\ loads'[l] = k
           /\ \A j \in Loads : j # l => loads'[j] = loads[j]
  OBVIOUS

LEMMA PostSet ==
    ASSUME posts \in [Posts -> PostRec], NEW p \in Posts, NEW k \in PostRec,
           posts' = [posts EXCEPT ![p] = k]
    PROVE  /\ posts' \in [Posts -> PostRec] /\ posts'[p] = k
           /\ \A q \in Posts : q # p => posts'[q] = posts[q]
  OBVIOUS

LEMMA LoadMoves ==
    ASSUME PagesOK, NEW l \in Loads, Load(l)
    PROVE  /\ loads' \in [Loads -> LoadRec]
           /\ loads[l].at = "free" /\ loads'[l].at = "sent" /\ loads'[l].for = "load"
           /\ \A j \in Loads : j # l => loads'[j] = loads[j]
<1>1. loads \in [Loads -> LoadRec] /\ loads[l] = NoLoad
  BY PagesTyped DEF Load
<1> DEFINE k == [NoLoad EXCEPT !.at = "sent"]
<1>2. k \in LoadRec /\ k.at = "sent" /\ k.for = "load"
  BY DEF NoLoad, NotYet, LoadRec
<1>3. loads' = [loads EXCEPT ![l] = k]
  BY <1>1 DEF Load
<1> HIDE DEF k
<1> QED
  BY <1>1, <1>2, <1>3, LoadSet, NoneTyped

LEMMA LoadingPage ==
    ASSUME PagesOK
    PROVE  /\ Loading \in PageRec /\ Loading.shown = page.shown /\ Loading.busy = page.busy
           /\ Loading.loading = Hides /\ Loading.timer = page.timer
           /\ Loading.posting = page.posting /\ (kind # "dashboard" => Loading.failed = FALSE)
<1>1. page \in PageRec
  BY PagesTyped
<1>2. Hides \in BOOLEAN /\ (page.failed /\ kind = "dashboard") \in BOOLEAN
  BY DEF Hides
<1> QED
  BY <1>1, <1>2 DEF Loading, PageRec

\* load: the button of an error, the timer of a frame, the interval.
LEMMA LoadsTyped ==
    ASSUME PagesOK, NEW l \in Loads, Retry(l) \/ TimerFires(l) \/ Poll(l)
    PROVE  /\ loads' \in [Loads -> LoadRec] /\ page' \in PageRec
           /\ UNCHANGED <<kind, version, posts, frames, pageFaults>>
<1>1. /\ Load(l) /\ UNCHANGED <<kind, version, posts, frames, pageFaults>>
      /\ page' = Loading \/ page' = [Loading EXCEPT !.timer = FALSE]
  BY DEF Retry, TimerFires, Poll
<1>2. page' \in PageRec
  BY <1>1, LoadingPage DEF PageRec
<1> QED
  BY <1>1, <1>2, LoadMoves

LEMMA ServeLoadMoves ==
    ASSUME PagesOK, NEW l \in Loads, ServeLoad(l)
    PROVE  /\ loads' \in [Loads -> LoadRec] /\ loads[l].at = "sent"
           /\ loads'[l].at = "served" /\ loads'[l].for = loads[l].for
           /\ loads'[l].version = version
           /\ \A j \in Loads : j # l => loads'[j] = loads[j]
           /\ UNCHANGED <<kind, version, page, posts, frames, pageFaults>>
<1>1. /\ loads \in [Loads -> LoadRec] /\ version \in Nat /\ loads[l].at = "sent"
      /\ loads' = [loads EXCEPT ![l].at = "served", ![l].version = version]
      /\ UNCHANGED <<kind, version, page, posts, frames, pageFaults>>
  BY PagesTyped DEF ServeLoad
<1> DEFINE k == [loads[l] EXCEPT !.at = "served", !.version = version]
<1>2. k \in LoadRec /\ k.at = "served" /\ k.version = version /\ k.for = loads[l].for
  BY <1>1 DEF LoadRec
<1>3. loads' = [loads EXCEPT ![l] = k]
  BY <1>1
<1> HIDE DEF k
<1> QED
  BY <1>1, <1>2, <1>3, LoadSet

LEMMA LoadEnds ==
    ASSUME PagesOK, NEW l \in Loads, loads' = [loads EXCEPT ![l] = NoLoad]
    PROVE  /\ loads' \in [Loads -> LoadRec] /\ loads'[l].at = "free"
           /\ \A j \in Loads : j # l => loads'[j] = loads[j]
  BY PagesTyped, LoadSet, NoneTyped

LEMMA ShowLoadMoves ==
    ASSUME PagesOK, NEW l \in Loads, ShowLoad(l)
    PROVE  /\ loads[l].at = "served" /\ loads[l].for # "timeline"
           /\ loads' = [loads EXCEPT ![l] = NoLoad] /\ page' \in PageRec
           /\ page'.shown = loads[l].version /\ page'.busy = page.busy
           /\ page'.timer = page.timer
           /\ (loads[l].for = "load" => page'.loading = FALSE)
           /\ (page.loading = FALSE => page'.loading = FALSE)
           /\ (page.failed = FALSE => page'.failed = FALSE)
           /\ UNCHANGED <<kind, version, posts, frames, pageFaults>>
<1>1. page \in PageRec /\ loads[l] \in LoadRec
  BY PagesTyped
<1>2. /\ loads[l].at = "served" /\ loads[l].for # "timeline"
      /\ loads' = [loads EXCEPT ![l] = NoLoad]
      /\ UNCHANGED <<kind, version, posts, frames, pageFaults>>
      /\ page' = [page EXCEPT !.shown = loads[l].version,
                              !.failed = @ /\ kind # "dashboard",
                              !.loading = @ /\ loads[l].for # "load",
                              !.posting = @ /\ loads[l].for # "comment"]
  BY DEF ShowLoad
<1>3. loads[l].version \in Nat
  BY <1>1 DEF LoadRec
<1>4. /\ page' \in PageRec
      /\ page'.shown = loads[l].version /\ page'.busy = page.busy
      /\ page'.timer = page.timer
      /\ page'.loading = (page.loading /\ loads[l].for # "load")
      /\ page'.failed = (page.failed /\ kind # "dashboard")
  BY <1>1, <1>2, <1>3 DEF PageRec
<1> QED
  BY <1>2, <1>4

LEMMA LoadFailsMoves ==
    ASSUME PagesOK, NEW l \in Loads, LoadFails(l)
    PROVE  /\ loads[l].at # "free"
           /\ loads' = [loads EXCEPT ![l] = NoLoad] /\ page' \in PageRec
           /\ page'.shown = page.shown /\ page'.timer = page.timer
           /\ (loads[l].for = "load" => page'.loading = FALSE /\ page'.busy = page.busy)
           /\ (loads[l].for = "timeline" => page'.busy = FALSE)
           /\ pageFaults' \in Nat
           /\ UNCHANGED <<kind, version, posts, frames>>
<1>1. page \in PageRec /\ loads[l] \in LoadRec /\ pageFaults \in Nat
  BY PagesTyped
<1>2. /\ loads[l].at # "free" /\ loads' = [loads EXCEPT ![l] = NoLoad]
      /\ UNCHANGED <<kind, version, posts, frames>> /\ pageFaults' = pageFaults + 1
      /\ page' = [page EXCEPT !.failed = @ \/ loads[l].for = "load",
                              !.loading = @ /\ loads[l].for # "load",
                              !.posting = @ /\ loads[l].for # "comment",
                              !.busy = @ /\ loads[l].for # "timeline"]
  BY DEF LoadFails, PageFault
<1> DEFINE failed == page.failed \/ loads[l].for = "load"
           loading == page.loading /\ loads[l].for # "load"
           posting == page.posting /\ loads[l].for # "comment"
           busy == page.busy /\ loads[l].for # "timeline"
<1>a. failed \in BOOLEAN /\ loading \in BOOLEAN /\ posting \in BOOLEAN /\ busy \in BOOLEAN
  BY <1>1 DEF PageRec
<1>b. page' = [page EXCEPT !.failed = failed, !.loading = loading, !.posting = posting,
                           !.busy = busy]
  BY <1>2
<1>3. /\ page' \in PageRec /\ page'.shown = page.shown
      /\ page'.timer = page.timer
      /\ page'.busy = (page.busy /\ loads[l].for # "timeline")
      /\ page'.loading = (page.loading /\ loads[l].for # "load")
  <2>1. page'.busy = busy /\ page'.loading = loading
    BY <1>1, <1>b, Zenon DEF PageRec
  <2> HIDE DEF failed, loading, posting, busy
  <2>2. page' \in PageRec /\ page'.shown = page.shown /\ page'.timer = page.timer
    BY <1>1, <1>a, <1>b DEF PageRec
  <2> QED
    BY <2>1, <2>2 DEF busy, loading
<1>4. loads[l].for = "load" => page'.loading = FALSE /\ page'.busy = page.busy
  BY <1>1, <1>3 DEF PageRec
<1>5. loads[l].for = "timeline" => page'.busy = FALSE
  BY <1>3
<1>6. pageFaults' \in Nat
  BY <1>1, <1>2
<1> QED
  BY <1>2, <1>3, <1>4, <1>5, <1>6

LEMMA ShowTimelineMoves ==
    ASSUME PagesOK, NEW l \in Loads, ShowTimeline(l)
    PROVE  /\ loads[l].at = "served" /\ loads[l].for = "timeline"
           /\ loads' = [loads EXCEPT ![l] = NoLoad] /\ page' \in PageRec
           /\ page'.shown = page.shown /\ page'.timer = page.timer
           /\ page'.loading = page.loading /\ page'.busy = FALSE
           /\ UNCHANGED <<kind, version, posts, frames, pageFaults>>
<1>1. page \in PageRec
  BY PagesTyped
<1>2. /\ loads[l].at = "served" /\ loads[l].for = "timeline"
      /\ loads' = [loads EXCEPT ![l] = NoLoad] /\ page' = [page EXCEPT !.busy = FALSE]
      /\ UNCHANGED <<kind, version, posts, frames, pageFaults>>
  BY DEF ShowTimeline
<1>3. /\ page' \in PageRec /\ page'.shown = page.shown /\ page'.timer = page.timer
      /\ page'.loading = page.loading /\ page'.busy = FALSE
  BY <1>1, <1>2 DEF PageRec
<1> QED
  BY <1>2, <1>3

-----------------------------------------------------------------------------
(* Pages: the actions of the user *)

LEMMA ActMoves ==
    ASSUME PagesOK, NEW p \in Posts, Act(p)
    PROVE  /\ posts' \in [Posts -> PostRec] /\ page' \in PageRec
           /\ kind \notin {"dashboard", "hosts", "host"}
           /\ page.loading = FALSE /\ page.busy = FALSE
           /\ (kind = "incident" => page.failed = FALSE)
           /\ posts[p].at = "free" /\ posts'[p].at = "sent" /\ posts'[p].for = "act"
           /\ \A q \in Posts : q # p => posts'[q] = posts[q]
           /\ page'.shown = page.shown /\ page'.loading = page.loading
           /\ page'.busy = TRUE /\ page'.timer = page.timer /\ page'.failed = page.failed
           /\ UNCHANGED <<kind, version, loads, frames, pageFaults>>
<1>1. page \in PageRec /\ posts \in [Posts -> PostRec]
  BY PagesTyped
<1>2. /\ kind \notin {"dashboard", "hosts", "host"} /\ Buttons /\ posts[p] = NoPost
      /\ posts' = [posts EXCEPT ![p].at = "sent"] /\ page' = [page EXCEPT !.busy = TRUE]
      /\ UNCHANGED <<kind, version, loads, frames, pageFaults>>
  BY DEF Act
<1> DEFINE k == [NoPost EXCEPT !.at = "sent"]
<1>3. k \in PostRec /\ k.at = "sent" /\ k.for = "act"
  BY DEF NoPost, NotYet, PostRec
<1>4. posts' = [posts EXCEPT ![p] = k]
  BY <1>1, <1>2
<1>5. /\ posts' \in [Posts -> PostRec] /\ posts'[p] = k
      /\ \A q \in Posts : q # p => posts'[q] = posts[q]
  <2> HIDE DEF k
  <2> QED
    BY <1>1, <1>3, <1>4, PostSet
<1>6. /\ page' \in PageRec /\ page'.shown = page.shown /\ page'.loading = page.loading
      /\ page'.busy = TRUE /\ page'.timer = page.timer /\ page'.failed = page.failed
  BY <1>1, <1>2 DEF PageRec
<1>7. page.loading = FALSE /\ page.busy = FALSE
  BY <1>1, <1>2 DEF Buttons, Usable, PageRec
<1>8. kind = "incident" => page.failed = FALSE
  BY <1>1, <1>2 DEF Buttons, Usable, ErrorHides, PageRec
<1> QED
  BY <1>2, <1>3, <1>5, <1>6, <1>7, <1>8, NoneTyped

LEMMA SubmitMoves ==
    ASSUME PagesOK, NEW p \in Posts, Submit(p)
    PROVE  /\ posts' \in [Posts -> PostRec] /\ page' \in PageRec /\ ~Alone
           /\ UNCHANGED <<kind, version, loads, frames, pageFaults>>
<1>1. page \in PageRec /\ posts \in [Posts -> PostRec]
  BY PagesTyped
<1> DEFINE k == [NoPost EXCEPT !.at = "sent", !.for = "form"]
<1>2. k \in PostRec
  BY DEF NoPost, NotYet, PostRec
<1>3. /\ Form /\ posts' = [posts EXCEPT ![p] = k] /\ page' = [page EXCEPT !.posting = kind # "hosts"]
      /\ UNCHANGED <<kind, version, loads, frames, pageFaults>>
  BY DEF Submit
<1>4. posts' \in [Posts -> PostRec]
  <2> HIDE DEF k
  <2> QED
    BY <1>1, <1>2, <1>3, PostSet
<1>5. page' \in PageRec
  BY <1>1, <1>3 DEF PageRec
<1> QED
  BY <1>3, <1>4, <1>5 DEF Form, Alone

LEMMA ServePostMoves ==
    ASSUME PagesOK, NEW p \in Posts, ServePost(p)
    PROVE  /\ posts' \in [Posts -> PostRec] /\ posts[p].at = "sent"
           /\ posts'[p].at = "served" /\ posts'[p].for = posts[p].for
           /\ (posts'[p].ok = TRUE => posts'[p].version = version')
           /\ \A q \in Posts : q # p => posts'[q] = posts[q]
           /\ version' \in Nat /\ version <= version'
           /\ frames' \in BOOLEAN /\ (Alone /\ frames = FALSE => frames' = FALSE)
           /\ UNCHANGED <<kind, page, loads, pageFaults>>
<1>1. posts \in [Posts -> PostRec] /\ version \in Nat /\ frames \in BOOLEAN
  BY PagesTyped
<1>2. posts[p] \in PostRec /\ posts[p].at = "sent" /\ UNCHANGED <<kind, page, loads, pageFaults>>
  BY <1>1 DEF ServePost
<1>3. CASE Changed /\ posts' = [posts EXCEPT ![p].at = "served", ![p].version = version']
  <2>1. /\ version' \in Nat /\ version <= version' /\ frames' \in BOOLEAN
        /\ Alone => frames' = FALSE
    <3>1. version' = version + 1 /\ frames' = Listens
      BY <1>3 DEF Changed
    <3>2. Listens \in BOOLEAN /\ (Alone => Listens = FALSE)
      BY DEF Listens, Alone
    <3> QED
      BY <1>1, <3>1, <3>2
  <2> DEFINE k == [posts[p] EXCEPT !.at = "served", !.version = version']
  <2>2. /\ k \in PostRec /\ k.at = "served" /\ k.version = version' /\ k.for = posts[p].for
    BY <1>2, <2>1 DEF PostRec
  <2>3. posts' = [posts EXCEPT ![p] = k]
    BY <1>3
  <2> HIDE DEF k
  <2>4. /\ posts' \in [Posts -> PostRec] /\ posts'[p] = k
        /\ \A q \in Posts : q # p => posts'[q] = posts[q]
    BY <1>1, <2>2, <2>3, PostSet
  <2> QED
    BY <1>2, <2>1, <2>2, <2>4
<1>4. CASE /\ posts' = [posts EXCEPT ![p].at = "served", ![p].ok = FALSE]
           /\ UNCHANGED <<version, frames>>
  <2> DEFINE k == [posts[p] EXCEPT !.at = "served", !.ok = FALSE]
  <2>2. /\ k \in PostRec /\ k.at = "served" /\ k.ok = FALSE /\ k.for = posts[p].for
    BY <1>2 DEF PostRec
  <2>3. posts' = [posts EXCEPT ![p] = k]
    BY <1>4
  <2> HIDE DEF k
  <2>4. /\ posts' \in [Posts -> PostRec] /\ posts'[p] = k
        /\ \A q \in Posts : q # p => posts'[q] = posts[q]
    BY <1>1, <2>2, <2>3, PostSet
  <2> QED
    BY <1>1, <1>2, <1>4, <2>2, <2>4
<1> QED
  BY <1>3, <1>4 DEF ServePost

LEMMA PostEnds ==
    ASSUME PagesOK, NEW p \in Posts, posts' = [posts EXCEPT ![p] = NoPost]
    PROVE  /\ posts' \in [Posts -> PostRec] /\ posts'[p].at = "free"
           /\ \A q \in Posts : q # p => posts'[q] = posts[q]
  BY PagesTyped, PostSet, NoneTyped

LEMMA ShowPostMoves ==
    ASSUME PagesOK, NEW p \in Posts, NEW l \in Loads, ShowPost(p, l)
    PROVE  /\ posts[p].at = "served" /\ posts[p].ok = TRUE /\ loads[l].at = "free"
           /\ posts' = [posts EXCEPT ![p] = NoPost]
           /\ loads' \in [Loads -> LoadRec] /\ loads'[l].at = "sent"
           /\ loads'[l].for = "timeline" /\ \A j \in Loads : j # l => loads'[j] = loads[j]
           /\ page' \in PageRec /\ page'.shown = posts[p].version /\ page'.busy = page.busy
           /\ page'.loading = page.loading /\ page'.timer = page.timer
           /\ page'.failed = page.failed
           /\ UNCHANGED <<kind, version, frames, pageFaults>>
<1>1. page \in PageRec /\ posts[p] \in PostRec /\ loads \in [Loads -> LoadRec]
  BY PagesTyped
<1> DEFINE k == [NoLoad EXCEPT !.at = "sent", !.for = "timeline"]
<1>2. k \in LoadRec /\ k.at = "sent" /\ k.for = "timeline"
  BY DEF NoLoad, NotYet, LoadRec
<1>3. /\ posts[p].at = "served" /\ posts[p].ok /\ loads[l] = NoLoad
      /\ page' = [page EXCEPT !.shown = posts[p].version]
      /\ loads' = [loads EXCEPT ![l] = k]
      /\ posts' = [posts EXCEPT ![p] = NoPost]
      /\ UNCHANGED <<kind, version, frames, pageFaults>>
  BY DEF ShowPost
<1>4. posts[p].ok = TRUE /\ posts[p].version \in Nat
  BY <1>1, <1>3 DEF PostRec
<1>5. /\ page' \in PageRec /\ page'.shown = posts[p].version /\ page'.busy = page.busy
      /\ page'.loading = page.loading /\ page'.timer = page.timer /\ page'.failed = page.failed
  BY <1>1, <1>3, <1>4 DEF PageRec
<1>6. /\ loads' \in [Loads -> LoadRec] /\ loads'[l] = k
      /\ \A j \in Loads : j # l => loads'[j] = loads[j]
  <2> HIDE DEF k
  <2> QED
    BY <1>1, <1>2, <1>3, LoadSet
<1> QED
  BY <1>2, <1>3, <1>4, <1>5, <1>6, NoneTyped

LEMMA ReleasedPage ==
    ASSUME PagesOK, NEW pg \in PageRec, NEW p \in Posts
    PROVE  /\ Released(pg, p) \in PageRec /\ Released(pg, p).shown = pg.shown
           /\ Released(pg, p).loading = pg.loading /\ Released(pg, p).timer = pg.timer
           /\ Released(pg, p).failed = pg.failed
           /\ (posts[p].for = "act" => Released(pg, p).busy = FALSE)
  BY DEF Released, PageRec

LEMMA ReloadAfterMoves ==
    ASSUME PagesOK, NEW p \in Posts, NEW l \in Loads, ReloadAfter(p, l)
    PROVE  /\ posts[p].at = "served" /\ Load(l) /\ page' = Released(Loading, p)
           /\ posts' = [posts EXCEPT ![p] = NoPost]
           /\ UNCHANGED <<kind, version, frames, pageFaults>>
  BY DEF ReloadAfter, Over

LEMMA ReadAfterCommentMoves ==
    ASSUME PagesOK, NEW p \in Posts, NEW l \in Loads, ReadAfterComment(p, l)
    PROVE  /\ ~Alone /\ loads' \in [Loads -> LoadRec]
           /\ posts' = [posts EXCEPT ![p] = NoPost]
           /\ UNCHANGED <<kind, version, frames, page, pageFaults>>
<1> DEFINE k == [NoLoad EXCEPT !.at = "sent", !.for = "comment"]
<1>1. k \in LoadRec
  BY DEF NoLoad, NotYet, LoadRec
<1>2. /\ kind = "ticket" /\ loads' = [loads EXCEPT ![l] = k]
      /\ posts' = [posts EXCEPT ![p] = NoPost]
      /\ UNCHANGED <<kind, version, frames, page, pageFaults>>
  BY DEF ReadAfterComment, Over
<1>3. loads' \in [Loads -> LoadRec]
  <2> HIDE DEF k
  <2> QED
    BY <1>1, <1>2, LoadSet, PagesTyped
<1> QED
  BY <1>2, <1>3 DEF Alone

LEMMA TellMoves ==
    ASSUME PagesOK, NEW p \in Posts, Tell(p)
    PROVE  /\ posts' = [posts EXCEPT ![p] = NoPost] /\ page' \in PageRec
           /\ page'.shown = page.shown /\ page'.timer = page.timer
           /\ page'.loading = page.loading
           /\ (posts[p].for = "act" => page'.busy = FALSE)
           /\ UNCHANGED <<kind, version, frames, loads>>
<1>1. page \in PageRec
  BY PagesTyped
<1>2. /\ Over(p) /\ UNCHANGED loads
      /\ page' = [Released(page, p) EXCEPT !.failed = @ \/ kind = "hosts"
                                             \/ (kind = "tickets" /\ posts[p].for = "act")]
  BY DEF Tell
<1>3. Released(page, p) \in PageRec
  BY <1>1, ReleasedPage
<1>4. /\ page' \in PageRec /\ page'.shown = Released(page, p).shown
      /\ page'.timer = Released(page, p).timer /\ page'.busy = Released(page, p).busy
      /\ page'.loading = Released(page, p).loading
  BY <1>2, <1>3 DEF PageRec
<1> QED
  BY <1>1, <1>2, <1>4, ReleasedPage DEF Over

-----------------------------------------------------------------------------
(* Pages: every step keeps the invariant *)

OneAtATime == NothingHeard /\ Guarded /\ OneRequest /\ NewerComes

LEMMA PagesParts ==
    ASSUME PagesInv
    PROVE  /\ PagesOK /\ kind \in Kinds /\ version \in Nat /\ frames \in BOOLEAN
           /\ pageFaults \in Nat /\ page \in PageRec /\ loads \in [Loads -> LoadRec]
           /\ posts \in [Posts -> PostRec] /\ page.shown \in Nat
           /\ (Alone => OneAtATime)
<1>1. page \in PageRec
  BY PagesTyped DEF PagesInv
<1>2. page.shown \in Nat
  BY <1>1 DEF PageRec
<1> QED
  BY <1>2, PagesTyped DEF PagesInv, OneAtATime

\* The types, in all pages.
LEMMA PagesTypesStep ==
    ASSUME PagesInv, NextPages
    PROVE  PagesOK'
<1> USE PagesParts
<1>1. CASE OthersChange \/ LoseFrame \/ HearFrame
  <2>1. Listens \in BOOLEAN
    BY DEF Listens
  <2>2. /\ version' \in Nat /\ frames' \in BOOLEAN /\ pageFaults' \in Nat
        /\ UNCHANGED <<kind, loads, posts>>
    <3>1. CASE OthersChange
      <4>1. /\ version' = version + 1 /\ frames' = Listens
            /\ UNCHANGED <<kind, loads, posts, pageFaults>>
        BY <3>1 DEF OthersChange, Changed
      <4> QED
        BY <2>1, <4>1
    <3>2. CASE LoseFrame \/ HearFrame
      <4>1. frames' = FALSE /\ UNCHANGED <<kind, version, loads, posts>>
        BY <3>2, Zenon DEF LoseFrame, HearFrame
      <4>2. pageFaults' = pageFaults \/ pageFaults' = pageFaults + 1
        BY <3>2, Zenon DEF LoseFrame, HearFrame, PageFault
      <4>3. version' \in Nat /\ pageFaults' \in Nat
        BY <4>1, <4>2
      <4> QED
        BY <4>1, <4>3
    <3> QED
      BY <1>1, <3>1, <3>2
  <2>3. page' \in PageRec
    BY <1>1 DEF OthersChange, LoseFrame, HearFrame, PageRec
  <2> QED
    BY <2>2, <2>3, PagesTyped DEF PagesOK, PageRec, LoadRec, PostRec
<1>2. CASE \E l \in Loads : \/ Retry(l) \/ TimerFires(l) \/ Poll(l) \/ ServeLoad(l)
                            \/ ShowLoad(l) \/ ShowTimeline(l) \/ LoadFails(l)
  <2>1. PICK l \in Loads : \/ Retry(l) \/ TimerFires(l) \/ Poll(l) \/ ServeLoad(l)
                           \/ ShowLoad(l) \/ ShowTimeline(l) \/ LoadFails(l)
    BY <1>2
  <2>2. loads' \in [Loads -> LoadRec] /\ page' \in PageRec
    BY <2>1, LoadsTyped, ServeLoadMoves, ShowLoadMoves, ShowTimelineMoves, LoadFailsMoves,
       LoadEnds
  <2>3. pageFaults' \in Nat /\ UNCHANGED <<kind, version, posts, frames>>
    BY <2>1, LoadsTyped, ServeLoadMoves, ShowLoadMoves, ShowTimelineMoves, LoadFailsMoves
  <2> QED
    BY <2>2, <2>3 DEF PagesOK, PageRec, LoadRec, PostRec
<1>3. CASE \E p \in Posts : Act(p) \/ Submit(p) \/ ServePost(p)
  <2>1. PICK p \in Posts : Act(p) \/ Submit(p) \/ ServePost(p)
    BY <1>3
  <2>2. /\ posts' \in [Posts -> PostRec] /\ page' \in PageRec /\ version' \in Nat
        /\ frames' \in BOOLEAN /\ UNCHANGED <<kind, loads, pageFaults>>
    BY <2>1, ActMoves, SubmitMoves, ServePostMoves
  <2> QED
    BY <2>2 DEF PagesOK, PageRec, LoadRec, PostRec
<1>4. CASE \E p \in Posts : RefusalTold(p) \/ PostFails(p)
  <2>1. PICK p \in Posts : RefusalTold(p) \/ PostFails(p)
    BY <1>4
  <2>2. Tell(p) /\ pageFaults' \in Nat
    BY <2>1 DEF RefusalTold, PostFails, PageFault
  <2>3. /\ posts' \in [Posts -> PostRec] /\ page' \in PageRec
        /\ UNCHANGED <<kind, version, frames, loads>>
    BY <2>2, TellMoves, PostEnds
  <2> QED
    BY <2>2, <2>3 DEF PagesOK, PageRec, LoadRec, PostRec
<1>5. CASE \E p \in Posts, l \in Loads :
              ShowPost(p, l) \/ ReloadAfter(p, l) \/ ReadAfterComment(p, l)
  <2>1. PICK p \in Posts, l \in Loads :
              ShowPost(p, l) \/ ReloadAfter(p, l) \/ ReadAfterComment(p, l)
    BY <1>5
  <2>2. posts' = [posts EXCEPT ![p] = NoPost] /\ UNCHANGED <<kind, version, frames, pageFaults>>
    BY <2>1, ShowPostMoves, ReloadAfterMoves, ReadAfterCommentMoves
  <2>3. posts' \in [Posts -> PostRec]
    BY <2>2, PostEnds
  <2>4. loads' \in [Loads -> LoadRec] /\ page' \in PageRec
    <3>1. CASE ShowPost(p, l)
      BY <3>1, ShowPostMoves
    <3>2. CASE ReloadAfter(p, l)
      <4>1. Load(l) /\ page' = Released(Loading, p)
        BY <3>2, ReloadAfterMoves
      <4>2. loads' \in [Loads -> LoadRec] /\ Loading \in PageRec
        BY <4>1, LoadMoves, LoadingPage
      <4>3. Released(Loading, p) \in PageRec
        BY <4>2, ReleasedPage
      <4> QED
        BY <4>1, <4>2, <4>3
    <3>3. CASE ReadAfterComment(p, l)
      BY <3>3, ReadAfterCommentMoves
    <3> QED
      BY <2>1, <3>1, <3>2, <3>3
  <2> QED
    BY <2>2, <2>3, <2>4 DEF PagesOK, PageRec, LoadRec, PostRec
<1> QED
  BY <1>1, <1>2, <1>3, <1>4, <1>5 DEF NextPages

\* The change of the data and the frames.
LEMMA OthersAlone ==
    ASSUME PagesInv, Alone, OthersChange \/ LoseFrame \/ HearFrame
    PROVE  OneAtATime' /\ page' = page
<1>1. OneAtATime /\ version \in Nat
  BY PagesParts
<1>2. OthersChange
  BY <1>1 DEF OneAtATime, NothingHeard, LoseFrame, HearFrame
<1>3. Listens = FALSE
  BY DEF Listens, Alone
<1>4. version <= version' /\ frames' = FALSE /\ UNCHANGED <<kind, page, loads, posts>>
  BY <1>1, <1>2, <1>3 DEF OthersChange, Changed
<1>5. version' \in Nat
  BY <1>1, <1>2 DEF OthersChange, Changed
<1>6. NothingHeard' /\ Guarded' /\ OneRequest'
  BY <1>1, <1>4 DEF OneAtATime, NothingHeard, Guarded, OneRequest, Getting, Posting
<1>7. NewerComes'
  <2>1. page.shown \in Nat /\ loads \in [Loads -> LoadRec] /\ posts \in [Posts -> PostRec]
    BY PagesParts
  <2> QED
    BY <1>1, <1>4, <1>5, <2>1 DEF OneAtATime, NewerComes, LoadRec, PostRec
<1> QED
  BY <1>4, <1>6, <1>7 DEF OneAtATime

\* A load of a page that shows an error: nothing else is under way.
LEMMA RetryAlone ==
    ASSUME PagesInv, Alone, NEW l \in Loads, Retry(l) \/ TimerFires(l) \/ Poll(l)
    PROVE  OneAtATime' /\ page'.shown = page.shown
<1>1. OneAtATime /\ PagesOK /\ page \in PageRec
  BY PagesParts
<1>2. Retry(l)
  BY <1>1 DEF OneAtATime, NothingHeard, TimerFires, Poll, Listens, Alone
<1>3. /\ page.failed = TRUE /\ page.loading = FALSE /\ kind # "dashboard" /\ Load(l)
      /\ page' = Loading /\ UNCHANGED <<kind, version, posts, frames>>
  BY <1>1, <1>2 DEF Retry, PageRec
<1>4. /\ page'.shown = page.shown /\ page'.busy = page.busy /\ page'.loading = TRUE
      /\ page'.timer = page.timer
  BY <1>1, <1>3, LoadingPage DEF Hides, Alone
<1>5. page.busy # TRUE
  BY <1>1, <1>3 DEF OneAtATime, Guarded
<1>6. \A k \in Loads : ~Getting(k)
  BY <1>1, <1>3, <1>5 DEF OneAtATime, Guarded
<1>7. \A p \in Posts : ~Posting(p)
  BY <1>1, <1>5 DEF OneAtATime, Guarded
<1>8. /\ loads'[l].at = "sent" /\ loads'[l].for = "load"
      /\ \A j \in Loads : j # l => loads'[j] = loads[j]
  BY <1>1, <1>3, LoadMoves
<1>9. NothingHeard' /\ Guarded'
  BY <1>1, <1>3, <1>4, <1>5, <1>6, <1>7, <1>8
     DEF OneAtATime, NothingHeard, Guarded, Getting, Posting
<1>10. OneRequest'
  BY <1>3, <1>6, <1>7, <1>8 DEF OneRequest, Getting, Posting
<1>11. NewerComes'
  BY <1>1, <1>3, <1>4, <1>6, <1>7, <1>8 DEF OneAtATime, NewerComes, Getting, Posting
<1> QED
  BY <1>4, <1>9, <1>10, <1>11 DEF OneAtATime

LEMMA ServeLoadAlone ==
    ASSUME PagesInv, Alone, NEW l \in Loads, ServeLoad(l)
    PROVE  OneAtATime' /\ page' = page
<1>1. OneAtATime /\ PagesOK /\ version \in Nat
  BY PagesParts
<1>2. /\ loads[l].at = "sent" /\ loads'[l].at = "served" /\ loads'[l].for = loads[l].for
      /\ loads'[l].version = version /\ \A j \in Loads : j # l => loads'[j] = loads[j]
      /\ UNCHANGED <<kind, version, page, posts, frames>>
  BY <1>1, ServeLoadMoves
<1>3. NothingHeard' /\ Guarded'
  BY <1>1, <1>2 DEF OneAtATime, NothingHeard, Guarded, Getting, Posting
<1>4. OneRequest'
  BY <1>1, <1>2 DEF OneAtATime, OneRequest, Getting, Posting
<1>5. NewerComes'
  BY <1>1, <1>2 DEF OneAtATime, NewerComes
<1> QED
  BY <1>2, <1>3, <1>4, <1>5 DEF OneAtATime

\* A load that ends leaves nothing under way.
LEMMA LoadEndsAlone ==
    ASSUME PagesInv, Alone, NEW l \in Loads, Getting(l), loads' = [loads EXCEPT ![l] = NoLoad],
           UNCHANGED posts
    PROVE  OneRequest' /\ (\A j \in Loads : ~Getting(j)') /\ (\A p \in Posts : ~Posting(p)')
<1>1. OneRequest /\ PagesOK
  BY PagesParts DEF OneAtATime
<1>2. loads'[l].at = "free" /\ \A j \in Loads : j # l => loads'[j] = loads[j]
  BY <1>1, LoadEnds
<1>3. (\A j \in Loads : ~Getting(j)') /\ (\A p \in Posts : ~Posting(p)')
  BY <1>1, <1>2 DEF OneRequest, Getting, Posting
<1> QED
  BY <1>3 DEF OneRequest

\* What was asked for first is shown: there was one request.
LEMMA ShowLoadAlone ==
    ASSUME PagesInv, Alone, NEW l \in Loads, ShowLoad(l)
    PROVE  OneAtATime' /\ page'.shown >= page.shown
<1>1. OneAtATime /\ PagesOK /\ page.shown \in Nat /\ loads[l] \in LoadRec /\ version \in Nat
  BY PagesParts
<1>2. /\ loads[l].at = "served" /\ loads[l].for # "timeline"
      /\ loads' = [loads EXCEPT ![l] = NoLoad]
      /\ page'.shown = loads[l].version /\ page'.busy = page.busy /\ page'.timer = page.timer
      /\ (page.loading = FALSE => page'.loading = FALSE)
      /\ (page.failed = FALSE => page'.failed = FALSE)
      /\ UNCHANGED <<kind, version, posts, frames>>
  BY <1>1, ShowLoadMoves
<1>3. OneRequest' /\ (\A j \in Loads : ~Getting(j)') /\ (\A p \in Posts : ~Posting(p)')
  BY <1>2, LoadEndsAlone DEF Getting
<1>4. page.shown <= loads[l].version /\ loads[l].version <= version
  BY <1>1, <1>2 DEF OneAtATime, NewerComes
<1>5. NothingHeard' /\ Guarded'
  BY <1>1, <1>2, <1>3 DEF OneAtATime, NothingHeard, Guarded
<1>6. NewerComes'
  BY <1>1, <1>2, <1>3, <1>4 DEF NewerComes, Getting, Posting
<1>7. loads[l].version \in Nat
  BY <1>1 DEF LoadRec
<1> QED
  BY <1>1, <1>2, <1>3, <1>4, <1>5, <1>6, <1>7 DEF OneAtATime

LEMMA LoadOverAlone ==
    ASSUME PagesInv, Alone, NEW l \in Loads, LoadFails(l) \/ ShowTimeline(l)
    PROVE  OneAtATime' /\ page'.shown = page.shown
<1>1. OneAtATime /\ PagesOK
  BY PagesParts
<1>2. /\ Getting(l) /\ loads' = [loads EXCEPT ![l] = NoLoad]
      /\ page'.shown = page.shown /\ page'.timer = page.timer
      /\ UNCHANGED <<kind, version, posts, frames>>
  BY <1>1, LoadFailsMoves, ShowTimelineMoves DEF Getting
<1>3. OneRequest' /\ (\A j \in Loads : ~Getting(j)') /\ (\A p \in Posts : ~Posting(p)')
  BY <1>2, LoadEndsAlone
<1>4. page'.busy # TRUE
  <2>1. CASE LoadFails(l) /\ loads[l].for = "load"
    BY <1>1, <1>2, <2>1, LoadFailsMoves DEF OneAtATime, Guarded
  <2>2. CASE LoadFails(l) /\ loads[l].for # "load"
    BY <1>1, <1>2, <2>2, LoadFailsMoves DEF OneAtATime, Guarded
  <2>3. CASE ShowTimeline(l)
    BY <1>1, <2>3, ShowTimelineMoves
  <2> QED
    BY <2>1, <2>2, <2>3
<1>5. NothingHeard' /\ Guarded'
  BY <1>1, <1>2, <1>3, <1>4 DEF OneAtATime, NothingHeard, Guarded
<1>6. NewerComes'
  BY <1>1, <1>2, <1>3 DEF OneAtATime, NewerComes, Getting, Posting
<1> QED
  BY <1>2, <1>3, <1>5, <1>6 DEF OneAtATime

\* The buttons are there only when nothing is under way.
LEMMA ActAlone ==
    ASSUME PagesInv, Alone, NEW p \in Posts, Act(p)
    PROVE  OneAtATime' /\ page'.shown = page.shown
<1>1. OneAtATime /\ PagesOK
  BY PagesParts
<1>2. /\ kind \notin {"dashboard", "hosts", "host"} /\ page.loading = FALSE /\ page.busy = FALSE
      /\ (kind = "incident" => page.failed = FALSE)
      /\ posts'[p].at = "sent" /\ posts'[p].for = "act"
      /\ \A q \in Posts : q # p => posts'[q] = posts[q]
      /\ page'.shown = page.shown /\ page'.loading = page.loading
      /\ page'.busy = TRUE /\ page'.timer = page.timer /\ page'.failed = page.failed
      /\ UNCHANGED <<kind, version, loads, frames>>
  BY <1>1, ActMoves
<1>3. kind = "incident"
  BY <1>2 DEF Alone
<1>4. (\A l \in Loads : ~Getting(l)) /\ (\A q \in Posts : ~Posting(q))
  BY <1>1, <1>2 DEF OneAtATime, Guarded
<1>5. NothingHeard' /\ Guarded'
  BY <1>1, <1>2, <1>3, <1>4 DEF OneAtATime, NothingHeard, Guarded, Getting, Posting
<1>6. OneRequest'
  BY <1>2, <1>4 DEF OneRequest, Getting, Posting
<1>7. NewerComes'
  BY <1>1, <1>2, <1>4 DEF OneAtATime, NewerComes, Getting, Posting
<1> QED
  BY <1>2, <1>5, <1>6, <1>7 DEF OneAtATime

LEMMA ServePostAlone ==
    ASSUME PagesInv, Alone, NEW p \in Posts, ServePost(p)
    PROVE  OneAtATime' /\ page' = page
<1>1. OneAtATime /\ PagesOK /\ version \in Nat /\ page.shown \in Nat
  BY PagesParts
<1>2. /\ posts[p].at = "sent" /\ posts'[p].at = "served" /\ posts'[p].for = posts[p].for
      /\ (posts'[p].ok = TRUE => posts'[p].version = version')
      /\ \A q \in Posts : q # p => posts'[q] = posts[q]
      /\ version' \in Nat /\ version <= version'
      /\ (frames = FALSE => frames' = FALSE)
      /\ UNCHANGED <<kind, page, loads>>
  BY <1>1, ServePostMoves
<1>3. NothingHeard' /\ Guarded'
  BY <1>1, <1>2 DEF OneAtATime, NothingHeard, Guarded, Getting, Posting
<1>4. OneRequest'
  BY <1>1, <1>2 DEF OneAtATime, OneRequest, Getting, Posting
<1>5. page'.shown <= version'
  BY <1>1, <1>2 DEF OneAtATime, NewerComes
<1>6. /\ \A l \in Loads : loads[l].at # "served"
      /\ \A q \in Posts : q # p => posts[q].at # "served"
  BY <1>1, <1>2 DEF OneAtATime, OneRequest, Getting, Posting
<1>7. NewerComes'
  BY <1>1, <1>2, <1>5, <1>6 DEF NewerComes
<1> QED
  BY <1>2, <1>3, <1>4, <1>7 DEF OneAtATime

\* An answer that ends leaves no other under way.
LEMMA PostEndsAlone ==
    ASSUME PagesInv, Alone, NEW p \in Posts, Posting(p), posts' = [posts EXCEPT ![p] = NoPost]
    PROVE  (\A q \in Posts : ~Posting(q)') /\ (\A j \in Loads : ~Getting(j))
<1>1. OneRequest /\ PagesOK
  BY PagesParts DEF OneAtATime
<1>2. posts'[p].at = "free" /\ \A q \in Posts : q # p => posts'[q] = posts[q]
  BY <1>1, PostEnds
<1> QED
  BY <1>1, <1>2 DEF OneRequest, Getting, Posting

\* The row of the answer is shown: it is younger than what was.
LEMMA ShowPostAlone ==
    ASSUME PagesInv, Alone, NEW p \in Posts, NEW l \in Loads, ShowPost(p, l)
    PROVE  OneAtATime' /\ page'.shown >= page.shown
<1>1. /\ OneAtATime /\ PagesOK /\ page.shown \in Nat /\ posts[p] \in PostRec
      /\ version \in Nat
  BY PagesParts
<1>2. /\ posts[p].at = "served" /\ posts[p].ok = TRUE
      /\ posts' = [posts EXCEPT ![p] = NoPost] /\ loads'[l].at = "sent"
      /\ loads'[l].for = "timeline" /\ \A j \in Loads : j # l => loads'[j] = loads[j]
      /\ page'.shown = posts[p].version /\ page'.busy = page.busy
      /\ page'.loading = page.loading /\ page'.timer = page.timer
      /\ page'.failed = page.failed /\ UNCHANGED <<kind, version, frames>>
  BY <1>1, ShowPostMoves
<1>3. Posting(p) /\ page.busy = TRUE
  BY <1>1, <1>2 DEF OneAtATime, Guarded, Posting
<1>4. (\A q \in Posts : ~Posting(q)') /\ (\A j \in Loads : ~Getting(j))
  BY <1>2, <1>3, PostEndsAlone
<1>5. page.shown <= posts[p].version /\ posts[p].version <= version
  BY <1>1, <1>2 DEF OneAtATime, NewerComes
<1>6. NothingHeard' /\ Guarded'
  BY <1>1, <1>2, <1>3, <1>4 DEF OneAtATime, NothingHeard, Guarded, Getting
<1>7. OneRequest'
  BY <1>2, <1>4 DEF OneRequest, Getting
<1>8. NewerComes'
  BY <1>2, <1>4, <1>5 DEF NewerComes, Getting, Posting
<1>9. posts[p].version \in Nat
  BY <1>1 DEF PostRec
<1> QED
  BY <1>1, <1>2, <1>5, <1>6, <1>7, <1>8, <1>9 DEF OneAtATime

\* A refusal of what was done makes the page load again.
LEMMA ReloadAfterAlone ==
    ASSUME PagesInv, Alone, NEW p \in Posts, NEW l \in Loads, ReloadAfter(p, l)
    PROVE  OneAtATime' /\ page'.shown = page.shown
<1>1. OneAtATime /\ PagesOK
  BY PagesParts
<1>2. /\ posts[p].at = "served" /\ Load(l) /\ page' = Released(Loading, p)
      /\ posts' = [posts EXCEPT ![p] = NoPost] /\ UNCHANGED <<kind, version, frames>>
  BY <1>1, ReloadAfterMoves
<1>3. Posting(p) /\ posts[p].for = "act"
  BY <1>1, <1>2 DEF OneAtATime, Guarded, Posting
<1>4. (\A q \in Posts : ~Posting(q)') /\ (\A j \in Loads : ~Getting(j))
  BY <1>2, <1>3, PostEndsAlone
<1>5. /\ page'.shown = page.shown /\ page'.busy = FALSE /\ page'.loading = TRUE
      /\ page'.timer = page.timer
  BY <1>1, <1>2, <1>3, LoadingPage, ReleasedPage DEF Hides, Alone
<1>6. /\ loads'[l].at = "sent" /\ loads'[l].for = "load"
      /\ \A j \in Loads : j # l => loads'[j] = loads[j]
  BY <1>1, <1>2, LoadMoves
<1>7. NothingHeard' /\ Guarded'
  BY <1>1, <1>2, <1>4, <1>5, <1>6 DEF OneAtATime, NothingHeard, Guarded, Getting
<1>8. OneRequest'
  BY <1>2, <1>4, <1>6 DEF OneRequest, Getting
<1>9. NewerComes'
  BY <1>1, <1>2, <1>4, <1>5, <1>6 DEF OneAtATime, NewerComes, Getting, Posting
<1> QED
  BY <1>5, <1>7, <1>8, <1>9 DEF OneAtATime

\* An action that fails is told; there is no form that could be refused.
LEMMA TellAlone ==
    ASSUME PagesInv, Alone, NEW p \in Posts, RefusalTold(p) \/ PostFails(p)
    PROVE  OneAtATime' /\ page'.shown = page.shown
<1>1. OneAtATime /\ PagesOK
  BY PagesParts
<1>2. Posting(p) /\ Tell(p)
  BY DEF RefusalTold, PostFails, Posting
<1>3. posts[p].for = "act"
  BY <1>1, <1>2 DEF OneAtATime, Guarded
<1>4. /\ posts' = [posts EXCEPT ![p] = NoPost] /\ page'.shown = page.shown
      /\ page'.timer = page.timer /\ page'.busy = FALSE
      /\ UNCHANGED <<kind, version, frames, loads>>
  BY <1>1, <1>2, <1>3, TellMoves
<1>5. (\A q \in Posts : ~Posting(q)') /\ (\A j \in Loads : ~Getting(j))
  BY <1>2, <1>4, PostEndsAlone
<1>6. NothingHeard' /\ Guarded'
  BY <1>1, <1>4, <1>5 DEF OneAtATime, NothingHeard, Guarded, Getting
<1>7. OneRequest'
  BY <1>4, <1>5 DEF OneRequest, Getting
<1>8. NewerComes'
  BY <1>1, <1>4, <1>5 DEF OneAtATime, NewerComes, Getting, Posting
<1> QED
  BY <1>4, <1>6, <1>7, <1>8 DEF OneAtATime

LEMMA AloneStep ==
    ASSUME PagesInv, Alone, NextPages
    PROVE  OneAtATime' /\ page'.shown >= page.shown /\ kind' = kind
<1>1. /\ page.shown \in Nat /\ PagesOK
  BY PagesParts
<1>2. CASE OthersChange \/ LoseFrame \/ HearFrame
  <2>1. OneAtATime' /\ page' = page
    BY <1>2, OthersAlone
  <2>2. kind' = kind
    BY <1>2 DEF OthersChange, LoseFrame, HearFrame
  <2>3. page'.shown >= page.shown
    BY <1>1, <2>1
  <2> QED
    BY <2>1, <2>2, <2>3
<1>3. CASE \E l \in Loads : \/ Retry(l) \/ TimerFires(l) \/ Poll(l) \/ ServeLoad(l)
                            \/ ShowLoad(l) \/ ShowTimeline(l) \/ LoadFails(l)
  <2>1. PICK l \in Loads : \/ Retry(l) \/ TimerFires(l) \/ Poll(l) \/ ServeLoad(l)
                           \/ ShowLoad(l) \/ ShowTimeline(l) \/ LoadFails(l)
    BY <1>3
  <2>2. OneAtATime' /\ page'.shown >= page.shown
    BY <1>1, <2>1, RetryAlone, ServeLoadAlone, ShowLoadAlone, LoadOverAlone
  <2>3. kind' = kind
    BY <2>1 DEF Retry, TimerFires, Poll, ServeLoad, ShowLoad, ShowTimeline, LoadFails
  <2> QED
    BY <2>2, <2>3
<1>4. CASE \E p \in Posts : \/ Act(p) \/ Submit(p) \/ ServePost(p) \/ RefusalTold(p) \/ PostFails(p)
  <2>1. PICK p \in Posts : \/ Act(p) \/ Submit(p) \/ ServePost(p) \/ RefusalTold(p) \/ PostFails(p)
    BY <1>4
  <2>2. OneAtATime' /\ page'.shown >= page.shown
    BY <1>1, <2>1, ActAlone, SubmitMoves, ServePostAlone, TellAlone
  <2>3. kind' = kind
    BY <2>1 DEF Act, Submit, ServePost, RefusalTold, PostFails, Tell, Over
  <2> QED
    BY <2>2, <2>3
<1>5. CASE \E p \in Posts, l \in Loads :
              ShowPost(p, l) \/ ReloadAfter(p, l) \/ ReadAfterComment(p, l)
  <2>1. PICK p \in Posts, l \in Loads :
              ShowPost(p, l) \/ ReloadAfter(p, l) \/ ReadAfterComment(p, l)
    BY <1>5
  <2>2. OneAtATime' /\ page'.shown >= page.shown
    BY <1>1, <2>1, ShowPostAlone, ReloadAfterAlone, ReadAfterCommentMoves
  <2>3. kind' = kind
    BY <2>1 DEF ShowPost, ReloadAfter, ReadAfterComment, Over
  <2> QED
    BY <2>2, <2>3
<1> QED
  BY <1>2, <1>3, <1>4, <1>5 DEF NextPages

LEMMA KindStays ==
    ASSUME NextPages
    PROVE  kind' = kind
  BY DEF NextPages, OthersChange, LoseFrame, HearFrame, Retry, TimerFires, Poll, ServeLoad,
         ShowLoad, ShowTimeline, LoadFails, Act, Submit, ServePost, RefusalTold, PostFails,
         Tell, Over, ShowPost, ReloadAfter, ReadAfterComment

LEMMA PagesInitially ==
    ASSUME InitPages
    PROVE  PagesInv
<1> DEFINE k == [NoLoad EXCEPT !.at = "sent"]
<1>1. k \in LoadRec /\ k.at = "sent" /\ k.for = "load"
  BY DEF NoLoad, NotYet, LoadRec
<1>2. /\ kind \in Kinds /\ version = 1 /\ frames = FALSE /\ pageFaults = 0
      /\ page = [shown |-> NotYet, loading |-> Hides, busy |-> FALSE, posting |-> FALSE,
                 timer |-> FALSE, failed |-> FALSE]
      /\ loads = [l \in Loads |-> IF l = First THEN k ELSE NoLoad]
      /\ posts = [p \in Posts |-> NoPost]
  BY DEF InitPages
<1> HIDE DEF k
<1>3. loads \in [Loads -> LoadRec] /\ posts \in [Posts -> PostRec]
  BY <1>1, <1>2, NoneTyped
<1>4. Hides \in BOOLEAN /\ (Alone => Hides = TRUE)
  BY DEF Hides, Alone
<1>5. /\ page \in PageRec /\ page.shown = 0 /\ page.loading = Hides /\ page.busy = FALSE
      /\ page.timer = FALSE /\ page.failed = FALSE
  BY <1>2, <1>4 DEF PageRec, NotYet
<1>6. PagesOK
  BY <1>2, <1>3, <1>5, PagesTyped
<1>7. \A l \in Loads : /\ loads[l].at \in {"free", "sent"} /\ loads[l].for = "load"
                       /\ (Getting(l) => l = First)
  BY <1>1, <1>2, NoneTyped DEF Getting
<1>8. \A p \in Posts : posts[p].at = "free"
  BY <1>2, NoneTyped
<1>9. Alone => NothingHeard /\ Guarded
  BY <1>2, <1>4, <1>5, <1>7, <1>8 DEF NothingHeard, Guarded, Getting, Posting
<1>10. OneRequest /\ NewerComes
  BY <1>2, <1>5, <1>7, <1>8 DEF OneRequest, NewerComes, Posting
<1> QED
  BY <1>6, <1>9, <1>10 DEF PagesInv

LEMMA PagesStep ==
    ASSUME PagesInv, [NextPages]_pageVars
    PROVE  PagesInv'
<1>1. CASE UNCHANGED pageVars
  BY <1>1 DEF pageVars, PagesInv, PagesOK, Alone, NothingHeard, Guarded, OneRequest, NewerComes,
              Getting, Posting
<1>2. CASE NextPages
  <2>1. PagesOK' /\ kind' = kind
    BY <1>2, PagesTypesStep, KindStays
  <2>2. Alone' => OneAtATime'
    BY <1>2, <2>1, AloneStep DEF Alone
  <2> QED
    BY <2>1, <2>2 DEF PagesInv, OneAtATime
<1> QED
  BY <1>1, <1>2

LEMMA PagesKeepTypes == InitPages /\ [][NextPages]_pageVars => []PagesOK
<1>1. PagesInv => PagesOK
  BY DEF PagesInv
<1> QED
  BY <1>1, PagesInitially, PagesStep, PTL

\* The variables of ConsolePages keep their types, whichever page it is.
THEOREM PagesTypeCorrect == SpecPages => []PagesOK
  BY PagesKeepTypes, PTL DEF SpecPages

\* The skeleton and the busy flag of hosts/[id] and incidents/[id], for every number of
\* requests and however others change the data: what these pages show never gets older.
THEOREM ShownNeverGoesBack == SpecPages => IncidentNeverGoesBack
<1>1. PagesInv /\ [NextPages]_pageVars
        => [(kind \in {"incident", "host"}) => page.shown' >= page.shown]_pageVars
  BY AloneStep DEF Alone
<1> QED
  BY <1>1, PagesInitially, PagesStep, PTL DEF SpecPages, IncidentNeverGoesBack

-----------------------------------------------------------------------------
(* Charts: division and multiplication *)

LEMMA Divide ==
    ASSUME NEW a \in Nat, NEW b \in Nat \ {0}
    PROVE  /\ a \div b \in Nat /\ a % b \in Nat /\ a % b < b
           /\ a = b * (a \div b) + (a % b)
  OBVIOUS

LEMMA Multiplied ==
    ASSUME NEW a \in Nat, NEW b \in Nat, NEW c \in Nat
    PROVE  /\ a * c \in Nat /\ (a <= b => a * c <= b * c)
           /\ (c # 0 /\ a * c < b * c => a < b)
<1>1. a * c \in Nat
  OBVIOUS
<1>2. a <= b => a * c <= b * c
  <2> SUFFICES ASSUME a <= b PROVE a * c <= b * c
    OBVIOUS
  <2>1. PICK d \in Nat : b = a + d
    <3>1. b - a \in Nat /\ b = a + (b - a)
      OBVIOUS
    <3> QED
      BY <3>1
  <2>2. (a + d) * c = a * c + d * c /\ d * c \in Nat
    OBVIOUS
  <2> QED
    BY <1>1, <2>1, <2>2
<1>3. c # 0 /\ a * c < b * c => a < b
  <2>1. b <= a => b * c <= a * c
    <3> SUFFICES ASSUME b <= a PROVE b * c <= a * c
      OBVIOUS
    <3>1. PICK d \in Nat : a = b + d
      <4>1. a - b \in Nat /\ a = b + (a - b)
        OBVIOUS
      <4> QED
        BY <4>1
    <3>2. (b + d) * c = b * c + d * c /\ d * c \in Nat /\ b * c \in Nat
      OBVIOUS
    <3> QED
      BY <3>1, <3>2
  <2>2. a * c \in Nat /\ b * c \in Nat
    OBVIOUS
  <2> QED
    BY <2>1, <2>2
<1> QED
  BY <1>1, <1>2, <1>3

-----------------------------------------------------------------------------
(* Charts: how many points *)

LEMMA SeriesConstants ==
    /\ Unit \in Nat \ {0} /\ DefaultBuckets \in Nat \ {0} /\ FewestBuckets \in Nat \ {0}
    /\ LongBuckets \in Nat \ {0}
    /\ BucketCounts \subseteq Nat /\ MaxSpan \in Nat /\ MaxRows \in Nat
  BY SeriesAssumption

LEMMA RoundedUpCovers ==
    ASSUME NEW a \in Nat, NEW b \in Nat \ {0}
    PROVE  RoundedUp(a, b) \in Nat /\ a <= RoundedUp(a, b) * b
<1>1. a + b - 1 \in Nat
  OBVIOUS
<1> DEFINE s == (a + b - 1) \div b
           r == (a + b - 1) % b
<1>2. s \in Nat /\ r \in Nat /\ r < b /\ a + b - 1 = b * s + r
  BY <1>1, Divide
<1>3. RoundedUp(a, b) = s
  BY DEF RoundedUp
<1> HIDE DEF s, r
<1>4. b * s = s * b /\ b * s \in Nat
  BY <1>2
<1> QED
  BY <1>2, <1>3, <1>4

\* The width of a bin is no less than two thirds of an even share of the window.
LEMMA WidthIsWide ==
    ASSUME NEW span \in Nat, NEW b \in Nat \ {0}
    PROVE  /\ Width(span, b) \in Nat \ {0}
           /\ 2 * RoundedUp(span, b) < 3 * Width(span, b)
<1>1. PICK s \in Nat : s = RoundedUp(span, b)
  BY RoundedUpCovers
<1>2. PICK u \in Nat \ {0} : u = Unit
  BY SeriesConstants
<1> DEFINE n == 2 * s + u
           r == (2 * s + u) \div (2 * u)
           m == (2 * s + u) % (2 * u)
<1>3. n \in Nat /\ 2 * u \in Nat \ {0}
  BY <1>1, <1>2
<1>4. r \in Nat /\ m \in Nat /\ m < 2 * u /\ n = (2 * u) * r + m
  BY <1>3, Divide
<1>5. Rounded(s, u) = r
  BY DEF Rounded
<1>6. PICK g \in Nat \ {0} : g = Greater(1, r) /\ r <= g
  <2> HIDE DEF r
  <2>1. Greater(1, r) \in Nat \ {0} /\ r <= Greater(1, r)
    BY <1>4 DEF Greater
  <2> QED
    BY <2>1
<1>7. Width(span, b) = u * g
  BY <1>1, <1>2, <1>5, <1>6 DEF Width
<1>8. n = 2 * s + u
  OBVIOUS
<1> HIDE DEF n, r, m
<1>9. (2 * u) * r = 2 * (u * r) /\ u * r \in Nat /\ u * g \in Nat
  BY <1>2, <1>4, <1>6
<1>10. u * r = r * u /\ u * g = g * u /\ 1 * u = u
  BY <1>2, <1>4, <1>6
<1>11. r * u <= g * u /\ 1 * u <= g * u
  BY <1>2, <1>4, <1>6, Multiplied
<1>12. 2 * s < 3 * (u * g) /\ u * g # 0
  BY <1>1, <1>2, <1>4, <1>8, <1>9, <1>10, <1>11
<1> QED
  BY <1>1, <1>7, <1>9, <1>12

LEMMA FewBins ==
    ASSUME NEW span \in Nat, NEW b \in Nat \ {0}
    PROVE  /\ span \div Width(span, b) \in Nat
           /\ span \div Width(span, b) <= (3 * b) \div 2
<1>1. PICK w \in Nat \ {0} : w = Width(span, b)
  BY WidthIsWide
<1>2. PICK s \in Nat : s = RoundedUp(span, b) /\ span <= s * b /\ 2 * s < 3 * w
  BY <1>1, RoundedUpCovers, WidthIsWide
<1> DEFINE q == span \div w
           m == span % w
<1>3. q \in Nat /\ m \in Nat /\ span = w * q + m
  BY Divide
<1> HIDE DEF q, m
<1>4. (2 * s) * b < (3 * w) * b
  <2>1. 2 * s \in Nat /\ 3 * w \in Nat /\ 2 * s + 1 \in Nat /\ 2 * s + 1 <= 3 * w
    BY <1>2
  <2>2. (2 * s + 1) * b <= (3 * w) * b /\ (3 * w) * b \in Nat
    BY <2>1, Multiplied
  <2>3. (2 * s + 1) * b = (2 * s) * b + b /\ (2 * s) * b \in Nat
    BY <1>2
  <2> QED
    BY <2>2, <2>3
<1>5. /\ (2 * s) * b = 2 * (s * b) /\ (3 * w) * b = (3 * b) * w /\ (2 * q) * w = 2 * (w * q)
      /\ s * b \in Nat /\ w * q \in Nat /\ (3 * b) * w \in Nat
  BY <1>2, <1>3
<1>6. (2 * q) * w < (3 * b) * w
  BY <1>2, <1>3, <1>4, <1>5
<1>7. 2 * q < 3 * b
  <2>1. 2 * q \in Nat /\ 3 * b \in Nat /\ w \in Nat /\ w # 0
    BY <1>3
  <2> QED
    BY <1>6, <2>1, Multiplied
<1>8. q <= (3 * b) \div 2
  BY <1>3, <1>7
<1>9. span \div Width(span, b) = q
  BY <1>1 DEF q
<1> QED
  BY <1>3, <1>8, <1>9

\* A set that is numbered from 0 to n has no more than n + 1 members.
LEMMA NumberedSet ==
    ASSUME NEW n \in Nat, NEW T, NEW f, f = [j \in 0..n |-> f[j]],
           \A x \in T : \E j \in 0..n : x = f[j]
    PROVE  Cardinality(T) \in Nat /\ Cardinality(T) <= n + 1
<1> DEFINE F == {f[j] : j \in 0..n}
<1>1. f \in [0..n -> F] /\ F \subseteq {f[j] : j \in 0..n} /\ T \in SUBSET F
  OBVIOUS
<1>2. f \in Surjection(0..n, F)
  BY <1>1 DEF Surjection
<1>3. IsFiniteSet(0..n) /\ Cardinality(0..n) = n + 1
  <2>1. 0 \in Int /\ n \in Int /\ ~(0 > n) /\ n - 0 + 1 = n + 1
    OBVIOUS
  <2> HIDE DEF F
  <2> QED
    BY ONLY <2>1, FS_Interval
<1> HIDE DEF F
<1>4. IsFiniteSet(F) /\ Cardinality(F) <= n + 1
  BY <1>2, <1>3, FS_Surjection
<1>5. Cardinality(T) <= Cardinality(F) /\ IsFiniteSet(T)
  BY <1>1, <1>4, FS_Subset
<1> QED
  BY <1>4, <1>5, FS_CardinalityType

LEMMA BinsBounded ==
    ASSUME samples \subseteq Nat, NEW from \in Nat, NEW to \in Nat, from < to,
           NEW b \in Nat \ {0}
    PROVE  /\ Bins(from, to, Width(to - from, b)) \subseteq Nat
           /\ Cardinality(Bins(from, to, Width(to - from, b))) <= (3 * b) \div 2 + 1
<1>1. to - from \in Nat
  OBVIOUS
<1>2. PICK w \in Nat \ {0} : w = Width(to - from, b)
  BY <1>1, WidthIsWide
<1>3. PICK n \in Nat : n = (to - from) \div w /\ n <= (3 * b) \div 2
  BY <1>1, <1>2, FewBins
<1> DEFINE T == Bins(from, to, w)
           f == [j \in 0..n |-> from + j * w]
<1>4. \A x \in T : \E j \in 0..n : x = from + j * w
  <2> SUFFICES ASSUME NEW x \in T
               PROVE  \E j \in 0..n : x = from + j * w
    OBVIOUS
  <2>1. PICK t \in samples : from <= t /\ t <= to /\ x = from + ((t - from) \div w) * w
    BY DEF Bins
  <2>2. t \in Nat /\ t - from \in Nat
    BY <2>1
  <2>3. (t - from) \div w \in 0..n
    <3>1. PICK d \in Nat : d = t - from /\ d <= to - from
      BY <2>1, <2>2
    <3>2. PICK i \in Nat, r \in Nat : i = d \div w /\ r < w /\ d = w * i + r
      BY <3>1, Divide
    <3>3. PICK s \in Nat : s < w /\ to - from = w * n + s
      BY <1>1, <1>3, Divide
    <3>4. w * i = i * w /\ w * n = n * w /\ (n + 1) * w = n * w + w /\ i * w \in Nat
          /\ n * w \in Nat
      BY <1>3, <3>2
    <3>5. i * w < (n + 1) * w
      BY <3>1, <3>2, <3>3, <3>4
    <3>6. i < n + 1
      BY <3>2, <3>5, <1>3, Multiplied
    <3> QED
      BY <1>3, <3>1, <3>2, <3>6
  <2> QED
    BY <2>1, <2>3
<1>5. T \subseteq Nat
  <2>1. \A j \in 0..n : from + j * w \in Nat
    BY <1>3, Multiplied
  <2> QED
    BY <1>4, <2>1
<1>6. Cardinality(T) <= n + 1 /\ Cardinality(T) \in Nat
  <2>1. \A x \in T : \E j \in 0..n : x = f[j]
    BY <1>4
  <2>2. f = [j \in 0..n |-> f[j]]
    OBVIOUS
  <2> HIDE DEF T, f
  <2> QED
    BY ONLY <2>1, <2>2, n \in Nat, NumberedSet, Zenon
<1>7. (3 * b) \div 2 \in Nat
  OBVIOUS
<1> QED
  BY <1>2, <1>3, <1>5, <1>6, <1>7

LEMMA ThinnedBounded ==
    ASSUME NEW n \in Nat, NEW b \in Nat \ {0}
    PROVE  Thinned(n, b) \subseteq Nat /\ Cardinality(Thinned(n, b)) <= b
<1>1. PICK s \in Nat : s = RoundedUp(n, b) /\ n <= s * b
  BY RoundedUpCovers
<1>2. PICK step \in Nat \ {0} : step = Greater(1, s) /\ s <= step
  <2>1. Greater(1, s) \in Nat \ {0} /\ s <= Greater(1, s)
    BY <1>1 DEF Greater
  <2> QED
    BY <2>1
<1>3. n <= step * b /\ step * b = b * step /\ step * b \in Nat
  <2>1. s * b <= step * b /\ s * b \in Nat /\ step * b \in Nat
    BY <1>1, <1>2, Multiplied
  <2>2. step * b = b * step
    BY <1>2
  <2> QED
    BY <1>1, <2>1, <2>2
<1> DEFINE T == Thinned(n, b)
           f == [j \in 0..(b - 1) |-> step * j]
<1>4. \A x \in T : x \in 0..(n - 1) /\ x % step = 0
  BY <1>1, <1>2 DEF Thinned
<1>5. T \subseteq Nat
  BY <1>4
<1>6. \A x \in T : \E j \in 0..(b - 1) : x = f[j]
  <2> SUFFICES ASSUME NEW x \in T
               PROVE  \E j \in 0..(b - 1) : x = f[j]
    OBVIOUS
  <2>1. x \in Nat /\ x < n /\ x % step = 0
    BY <1>4
  <2>2. x \div step \in Nat /\ x = step * (x \div step) + (x % step)
    BY <1>2, <2>1, Divide
  <2>3. PICK i \in Nat : x = step * i /\ step * i = i * step
    <3>1. PICK i \in Nat : i = x \div step
      BY <2>2
    <3>2. step * i = i * step /\ step * i \in Nat
      BY <1>2
    <3> QED
      BY <2>1, <2>2, <3>1, <3>2
  <2>4. i * step < b * step
    BY <1>3, <2>1, <2>3
  <2>5. i < b
    BY <1>2, <2>4, Multiplied
  <2>6. i \in 0..(b - 1)
    BY <2>5
  <2> QED
    BY <2>3, <2>6
<1>7. Cardinality(T) <= b
  <2>1. b - 1 \in Nat /\ f = [j \in 0..(b - 1) |-> f[j]]
    OBVIOUS
  <2> HIDE DEF T, f
  <2>2. Cardinality(T) \in Nat /\ Cardinality(T) <= (b - 1) + 1
    BY ONLY <1>6, <2>1, NumberedSet, Zenon
  <2> QED
    BY <2>2
<1> QED
  BY <1>5, <1>7

LEMMA SomeBuckets ==
    ASSUME NEW asked \in Nat, NEW span \in Nat
    PROVE  Buckets(asked, span) \in Nat \ {0}
<1>1. PICK d \in Nat : d = span \div Unit
  BY SeriesConstants, Divide
<1> QED
  BY <1>1, SeriesConstants DEF Buckets, Smaller, Greater, NoCount

-----------------------------------------------------------------------------
(* Charts: the invariant, and that a series keeps it *)

SeriesInv == SeriesOK /\ SeriesIsBounded

LEMMA SeriesInitially ==
    ASSUME InitSeries
    PROVE  SeriesInv
<1>1. samples \subseteq Nat
  <2>1. samples \subseteq 0..MaxSpan
    BY DEF InitSeries
  <2> QED
    BY <2>1, SeriesConstants
<1>2. answer.buckets = 0 /\ answer.long = FALSE /\ answer.points = {}
  BY DEF InitSeries, NoAnswer, NoCount
<1>3. Cardinality({}) = 0
  BY FS_EmptySet
<1>4. SeriesOK
  <2>1. answer.long \in BOOLEAN
    BY <1>2, Zenon
  <2>2. answer.buckets \in Nat /\ answer.points \subseteq Nat
    BY <1>2
  <2> QED
    BY <1>1, <2>1, <2>2 DEF SeriesOK
<1>5. SeriesIsBounded
  <2>1. (3 * 0) \div 2 + 1 = 1
    OBVIOUS
  <2> QED
    BY <1>2, <1>3, <2>1 DEF SeriesIsBounded
<1> QED
  BY <1>4, <1>5 DEF SeriesInv

LEMMA SeriesStep ==
    ASSUME SeriesInv, [NextSeries]_seriesVars
    PROVE  SeriesInv'
<1>1. samples \subseteq Nat
  BY DEF SeriesInv, SeriesOK
<1>2. CASE UNCHANGED seriesVars
  BY <1>2 DEF seriesVars, SeriesInv, SeriesOK, SeriesIsBounded
<1>3. ASSUME NEW from \in 0..MaxSpan, NEW to \in 0..MaxSpan, NEW asked \in BucketCounts,
             Series(from, to, asked)
      PROVE  SeriesInv'
  <2>1. from \in Nat /\ to \in Nat /\ from < to /\ to - from \in Nat /\ asked \in Nat
    BY <1>3, SeriesConstants DEF Series
  <2>2. PICK b \in Nat \ {0} : b = Buckets(asked, to - from)
    BY <2>1, SomeBuckets
  <2>3. /\ answer'.buckets = b /\ answer'.long = FALSE /\ samples' = samples
        /\ answer'.points = Bins(from, to, Width(to - from, b))
    BY <1>3, <2>2 DEF Series
  <2>4. answer'.points \subseteq Nat /\ Cardinality(answer'.points) <= (3 * b) \div 2 + 1
    BY <1>1, <2>1, <2>3, BinsBounded
  <2> QED
    BY <1>1, <2>3, <2>4 DEF SeriesInv, SeriesOK, SeriesIsBounded
<1>4. ASSUME NEW n \in 0..MaxRows, NEW asked \in BucketCounts, LongSeries(n, asked)
      PROVE  SeriesInv'
  <2> DEFINE b == IF asked # NoCount THEN asked ELSE LongBuckets
  <2>1. n \in Nat /\ b \in Nat \ {0}
    BY SeriesConstants DEF NoCount
  <2>2. /\ answer'.buckets = b /\ answer'.long = TRUE /\ samples' = samples
        /\ answer'.points = Thinned(n, b)
    BY <1>4 DEF LongSeries
  <2> HIDE DEF b
  <2> QED
    BY <1>1, <2>1, <2>2, ThinnedBounded DEF SeriesInv, SeriesOK, SeriesIsBounded
<1> QED
  BY <1>2, <1>3, <1>4 DEF NextSeries

\* The variables of MetricSeries keep their types.
THEOREM SeriesTypeCorrect == SpecSeries => []SeriesOK
<1>1. SeriesInv => SeriesOK
  BY DEF SeriesInv
<1> QED
  BY <1>1, SeriesInitially, SeriesStep, PTL DEF SpecSeries

\* date_bin and the thinning of the rollup (metrics.controller.ts), for every window and
\* every number of buckets: a short series has at most half as many points again as were
\* asked for, and one; a long one has no more than were asked for.
THEOREM ResponsesAreSmall == SpecSeries => []SeriesIsBounded
<1>1. SeriesInv => SeriesIsBounded
  BY DEF SeriesInv
<1> QED
  BY <1>1, SeriesInitially, SeriesStep, PTL DEF SpecSeries

-----------------------------------------------------------------------------
(* The composition *)

\* What Tickets, Sessions, RateLimiter, RefusalStats, MetricSeries and ConsolePages do side
\* by side is what each does alone, so every variable keeps its type.
THEOREM ConsoleTypeCorrect == Spec => []TypeOK
<1>1. Init => InitTickets /\ InitSessions /\ InitLimiter /\ InitStats /\ InitSeries /\ InitPages
  BY DEF Init
<1>2. [Next]_consoleVars => /\ [NextTickets]_ticketVars /\ [NextSessions]_sessionVars
                           /\ [NextLimiter]_limiterVars /\ [NextStats]_statsVars
                           /\ [NextSeries]_seriesVars /\ [NextPages]_pageVars
  BY DEF Next, consoleVars
<1>3. Spec => /\ SpecTickets /\ SpecSessions /\ SpecLimiter /\ SpecStats /\ SpecSeries
              /\ InitPages /\ [][NextPages]_pageVars
  BY <1>1, <1>2, PTL DEF Spec, SpecTickets, SpecSessions, SpecLimiter, SpecStats, SpecSeries
<1> QED
  BY <1>3, TicketsTypeCorrect, SessionsTypeCorrect, LimiterTypeCorrect, StatsTypeCorrect,
     SeriesTypeCorrect, PagesKeepTypes, PTL DEF TypeOK
=============================================================================
