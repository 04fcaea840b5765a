-------------------------- MODULE OutboxDispatcher --------------------------
(***************************************************************************)
(* The outbox dispatcher of the worker (apps/worker/src/outbox.dispatcher  *)
(* .ts) and the interval that runs it (main.ts:236-245).  setInterval does *)
(* not wait for the previous tick, so ticks overlap: each claims pending   *)
(* rows in one statement, publishes them one by one, and then marks what   *)
(* it sent and what it gave up.  Nothing of a claim is held in the         *)
(* database: the row stays pending, with one more attempt.                 *)
(*                                                                         *)
(* The rows are written elsewhere (external), in the order of their        *)
(* numbers, and are available at once.                                     *)
(***************************************************************************)
EXTENDS Naturals, FiniteSets

CONSTANTS
    Rows,          \* numbers of the rows of outbox_events, by created_at
    Ticks,         \* bound: ticks in progress at once
    BatchSize,     \* LIMIT of a claim: 50
    MaxAttempts,   \* attempts after which a row is failed: 10
    MaxCrashes     \* bound: how often the worker dies or an update throws

ASSUME OutboxAssumption ==
    /\ Rows \subseteq Nat /\ IsFiniteSet(Rows) /\ IsFiniteSet(Ticks)
    /\ BatchSize \in Nat \ {0} /\ MaxAttempts \in Nat \ {0} /\ MaxCrashes \in Nat

VARIABLES
    status,      \* status of each row, "absent" before it is written
    attempts,    \* attempts of each row
    tick,        \* where each tick is, and its local variables
    published,   \* rows whose envelope the publisher took
    crashes      \* history: how often a tick was lost

outboxVars == <<status, attempts, tick, published, crashes>>

RowStatus == {"absent", "pending", "sent", "failed"}

\* No tick: claimed is what the loop has yet to publish, read the attempts
\* RETURNING gave.
NoTick == [at |-> "idle", claimed |-> {}, read |-> [r \in Rows |-> 0],
           sentIds |-> {}, failedIds |-> {}]
TickRec == [at : {"idle", "publish", "failed"}, claimed : SUBSET Rows,
            read : [Rows -> Nat], sentIds : SUBSET Rows, failedIds : SUBSET Rows]

InitOutbox ==
    /\ status = [r \in Rows |-> "absent"] /\ attempts = [r \in Rows |-> 0]
    /\ tick = [t \in Ticks |-> NoTick]
    /\ published = {} /\ crashes = 0

\* Mutants of Pending: a sent row is claimed again; one at the cap never is.
PendingOrSent == {r \in Rows : status[r] \in {"pending", "sent"}}
PendingBelowCap == {r \in Rows : status[r] = "pending" /\ attempts[r] < MaxAttempts}

Pending == {r \in Rows : status[r] = "pending"}

\* ORDER BY created_at LIMIT BatchSize.
Oldest == {r \in Pending : Cardinality({q \in Pending : q < r}) < BatchSize}

\* External: a transaction writes the row.
Insert(r) ==
    /\ status[r] = "absent"
    /\ status' = [status EXCEPT ![r] = "pending"]
    /\ UNCHANGED <<attempts, tick, published, crashes>>

\* The UPDATE ... RETURNING; a tick that claims nothing returns.
Claim(t) ==
    /\ tick[t].at = "idle" /\ Oldest # {}
    /\ attempts' = [r \in Rows |-> IF r \in Oldest THEN attempts[r] + 1 ELSE attempts[r]]
    /\ tick' = [tick EXCEPT ![t] = [NoTick EXCEPT !.at = "publish", !.claimed = Oldest,
                                                  !.read = attempts']]
    /\ UNCHANGED <<status, published, crashes>>

\* publisher.publish resolves.
PublishOk(t, r) ==
    /\ tick[t].at = "publish" /\ r \in tick[t].claimed
    /\ published' = published \cup {r}
    /\ tick' = [tick EXCEPT ![t].claimed = @ \ {r}, ![t].sentIds = @ \cup {r}]
    /\ UNCHANGED <<status, attempts, crashes>>

\* Mutants of PublishFails: the row counts as sent all the same; it gets one
\* attempt more.
PublishFailsAsSent(t, r) ==
    /\ tick[t].at = "publish" /\ r \in tick[t].claimed
    /\ tick' = [tick EXCEPT ![t].claimed = @ \ {r}, ![t].sentIds = @ \cup {r}]
    /\ UNCHANGED <<status, attempts, published, crashes>>
PublishFailsOnceMore(t, r) ==
    /\ tick[t].at = "publish" /\ r \in tick[t].claimed
    /\ tick' = [tick EXCEPT ![t].claimed = @ \ {r},
                            ![t].failedIds = IF tick[t].read[r] > MaxAttempts
                                             THEN @ \cup {r} ELSE @]
    /\ UNCHANGED <<status, attempts, published, crashes>>

\* publisher.publish rejects: the queue may have taken the envelope or not.
PublishFails(t, r) ==
    /\ tick[t].at = "publish" /\ r \in tick[t].claimed
    /\ published' \in {published, published \cup {r}}
    /\ tick' = [tick EXCEPT ![t].claimed = @ \ {r},
                            ![t].failedIds = IF tick[t].read[r] >= MaxAttempts
                                             THEN @ \cup {r} ELSE @]
    /\ UNCHANGED <<status, attempts, crashes>>

\* updateMany with one status for all of ids.
Mark(ids, s) == status' = [r \in Rows |-> IF r \in ids THEN s ELSE status[r]]

\* After the loop: the rows that were sent.
MarkSent(t) ==
    /\ tick[t].at = "publish" /\ tick[t].claimed = {}
    /\ Mark(tick[t].sentIds, "sent")
    /\ tick' = [tick EXCEPT ![t].at = "failed"]
    /\ UNCHANGED <<attempts, published, crashes>>

\* Mutant of MarkFailed: a status the column does not have.
MarkGivenUp(t) ==
    /\ tick[t].at = "failed"
    /\ Mark(tick[t].failedIds, "given_up")
    /\ tick' = [tick EXCEPT ![t] = NoTick]
    /\ UNCHANGED <<attempts, published, crashes>>

\* Then the rows that used up their attempts.
MarkFailed(t) ==
    /\ tick[t].at = "failed"
    /\ Mark(tick[t].failedIds, "failed")
    /\ tick' = [tick EXCEPT ![t] = NoTick]
    /\ UNCHANGED <<attempts, published, crashes>>

\* An updateMany throws, and the interval's callback only logs it.
UpdateThrows(t) ==
    /\ tick[t].at # "idle" /\ tick[t].claimed = {}
    /\ crashes < MaxCrashes /\ crashes' = crashes + 1
    /\ tick' = [tick EXCEPT ![t] = NoTick]
    /\ UNCHANGED <<status, attempts, published>>

\* The worker dies, with every tick in progress.
WorkerDies ==
    /\ \E t \in Ticks : tick[t].at # "idle"
    /\ crashes < MaxCrashes /\ crashes' = crashes + 1
    /\ tick' = [t \in Ticks |-> NoTick]
    /\ UNCHANGED <<status, attempts, published>>

\* The next step of a tick in progress.
Continue(t) ==
    \/ \E r \in Rows : PublishOk(t, r) \/ PublishFails(t, r)
    \/ MarkSent(t)
    \/ MarkFailed(t)

NextOutbox ==
    \/ \E r \in Rows : Insert(r)
    \/ \E t \in Ticks : Claim(t) \/ Continue(t) \/ UpdateThrows(t)
    \/ WorkerDies

SpecOutbox == InitOutbox /\ [][NextOutbox]_outboxVars

(***************************************************************************)
(* The interval keeps firing and every call of a tick settles, so a tick   *)
(* ends.  Nothing makes a publish succeed.                                 *)
(***************************************************************************)
FairOutbox == \A t \in Ticks : WF_outboxVars(Claim(t)) /\ WF_outboxVars(Continue(t))

-----------------------------------------------------------------------------
(* Properties *)

OutboxOK ==
    /\ status \in [Rows -> RowStatus] /\ attempts \in [Rows -> Nat]
    /\ tick \in [Ticks -> TickRec]
    /\ published \subseteq Rows /\ crashes \in 0..MaxCrashes

(***************************************************************************)
(* Overlapping ticks may turn a sent row into a failed one and back, but a *)
(* row is never sent that was not published, and never failed before its   *)
(* attempts were used up (outbox.dispatcher.ts:44-66).                     *)
(***************************************************************************)
OutcomeEarned ==
    \A r \in Rows :
        /\ status[r] = "sent" => r \in published
        /\ status[r] = "failed" => attempts[r] >= MaxAttempts

(***************************************************************************)
(* "Retries with attempts cap" (outbox.dispatcher.ts:8-10): how far past   *)
(* the cap a row can get.  Every tick in progress, once more after each    *)
(* crash, may claim a row whose last attempt is still being made.          *)
(***************************************************************************)
AttemptsBounded ==
    \A r \in Rows : attempts[r] < MaxAttempts + Cardinality(Ticks) * (1 + crashes)

(***************************************************************************)
(* A row that was settled is never claimed again: no tick that starts      *)
(* later publishes it ("never auto-reprocessed forever", line 64).         *)
(***************************************************************************)
SettledStaysSettled ==
    [][\A r \in Rows : status[r] \in {"sent", "failed"} =>
          status'[r] \in {"sent", "failed"} /\ attempts'[r] = attempts[r]]_outboxVars

\* Every row is settled in the end, even if no publish ever succeeds.
RowsSettle == \A r \in Rows : status[r] = "pending" ~> status[r] \in {"sent", "failed"}
=============================================================================
