----------------------------- MODULE MCConsole -----------------------------
(***************************************************************************)
(* Tickets, Sessions, RateLimiter, RefusalStats, MetricSeries and          *)
(* ConsolePages for TLC.  They share no variable: part, chosen at the      *)
(* start, says which of them moves, and the others rest in one of their    *)
(* initial states.                                                         *)
(***************************************************************************)
EXTENDS Tickets, Sessions, RateLimiter, RefusalStats, MetricSeries, ConsolePages, TLC

VARIABLE part

consoleVars == <<part, ticketVars, sessionVars, limiterVars, statsVars, seriesVars, pageVars>>

Init ==
    /\ part \in {"tickets", "sessions", "limiter", "stats", "series", "pages"}
    /\ InitTickets /\ InitSessions /\ InitLimiter /\ InitStats /\ InitSeries /\ InitPages
    /\ part # "sessions" => registered
    /\ part # "limiter" => failureMode = "open" /\ ahead = [i \in Instances |-> 0]
    /\ part # "stats" => lead = [i \in Counters |-> 0]
    /\ part # "series" => samples = 0..MaxSpan
    /\ part # "pages" => kind = "host"

Next ==
    \/ /\ part = "tickets" /\ NextTickets
       /\ UNCHANGED <<part, sessionVars, limiterVars, statsVars, seriesVars, pageVars>>
    \/ /\ part = "sessions" /\ NextSessions
       /\ UNCHANGED <<part, ticketVars, limiterVars, statsVars, seriesVars, pageVars>>
    \/ /\ part = "limiter" /\ NextLimiter
       /\ UNCHANGED <<part, ticketVars, sessionVars, statsVars, seriesVars, pageVars>>
    \/ /\ part = "stats" /\ NextStats
       /\ UNCHANGED <<part, ticketVars, sessionVars, limiterVars, seriesVars, pageVars>>
    \/ /\ part = "series" /\ NextSeries
       /\ UNCHANGED <<part, ticketVars, sessionVars, limiterVars, statsVars, pageVars>>
    \/ /\ part = "pages" /\ NextPages
       /\ UNCHANGED <<part, ticketVars, sessionVars, limiterVars, statsVars, seriesVars>>

Spec == Init /\ [][Next]_consoleVars /\ (part = "pages" => FairPages)

\* Every variable has a value of its type.
TypeOK == TicketsOK /\ SessionsOK /\ LimiterOK /\ StatsOK /\ SeriesOK /\ PagesOK
=============================================================================
