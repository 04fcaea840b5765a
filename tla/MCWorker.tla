------------------------------ MODULE MCWorker ------------------------------
(***************************************************************************)
(* The worker's event consumer and its outbox dispatcher for TLC, with     *)
(* what they owe: they share no variable, and part, chosen at the start,   *)
(* says which of them moves.  No job waits and no row is pending at first, *)
(* so fairness asks nothing of the one that rests.                         *)
(***************************************************************************)
EXTENDS EventPipeline, OutboxDispatcher, TLC

CONSTANTS e1, e2, e3, p, q

VARIABLE part

workerVars == <<part, vars, outboxVars>>

InitWorker == part \in {"events", "outbox"} /\ Init /\ InitOutbox

NextWorker ==
    \/ part = "events" /\ Next /\ UNCHANGED <<part, outboxVars>>
    \/ part = "outbox" /\ NextOutbox /\ UNCHANGED <<part, vars>>

FairWorker == InitWorker /\ [][NextWorker]_workerVars /\ FairConsumer /\ FairOutbox

\* Two fingerprints, and an event that has none.
EachPrint == e1 :> p @@ e2 :> q @@ e3 :> NoPrint
=============================================================================
