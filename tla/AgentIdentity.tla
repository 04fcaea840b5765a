--------------------------- MODULE AgentIdentity ---------------------------
(***************************************************************************)
(* How an agent gets and loses its identity: the console mints one-time    *)
(* tokens and revokes agents (agents.controller.ts), the gateway claims a  *)
(* token, creates the agent and authenticates heartbeats (main.ts and      *)
(* auth.ts of apps/collector-gateway), the agent enrolls once and keeps    *)
(* its credential in a file (app.go, transport.go, credentials.go).  Each  *)
(* await of a handler is a point where the others go on.  A credential is  *)
(* the index of its row in agents.                                         *)
(***************************************************************************)
EXTENDS Integers, Sequences, FiniteSets, SequencesExt

CONSTANTS
    Tokens,        \* enrollment tokens that may be minted
    Machines,      \* hosts that run WaAgent
    Admins,        \* requests to mint served at once
    Slots,         \* gateway handlers at once
    MaxPending,    \* MAX_PENDING_TOKENS_PER_TENANT: 20
    MaxIdFaults    \* bound: how many of IdFaults happen, each once

IdFaults ==
    {"dbError", "claimLost", "rollbackError", "gatewayCrash", "timeout", "lostAnswer", "tornFile"}

ASSUME IdentityAssumption ==
    /\ IsFiniteSet(Tokens) /\ IsFiniteSet(Admins)
    /\ MaxPending \in Nat \ {0} /\ MaxIdFaults \in Nat

VARIABLES
    tokens,      \* rows of agent_enrollment_tokens
    agents,      \* rows of agents
    admins,      \* where each createToken is
    slots,       \* where each handler of the gateway is
    machines,    \* the agent process of each machine and its agent-state.json
    idFaults     \* history: the faults that happened

identityVars == <<tokens, agents, admins, slots, machines, idFaults>>

NoRow == 0
Free == [at |-> "idle", token |-> {}, machine |-> {}, row |-> NoRow]
Down == [at |-> "down", call |-> {}, memory |-> NoRow, file |-> NoRow]

InitIdentity ==
    /\ tokens = [t \in Tokens |-> [status |-> "none", expired |-> FALSE, shown |-> FALSE]]
    /\ agents = <<>>
    /\ admins = [a \in Admins |-> [at |-> "idle", token |-> {}]]
    /\ slots = [s \in Slots |-> Free]
    /\ machines = [m \in Machines |-> Down]
    /\ idFaults = {}

IdFault(kind) ==
    /\ kind \notin idFaults /\ Cardinality(idFaults) < MaxIdFaults
    /\ idFaults' = idFaults \cup {kind}

-----------------------------------------------------------------------------
(* The console: createToken and revoke *)

\* Mutant of CountPending: tokens being claimed are not counted.
CountActive(a) ==
    /\ admins[a].at = "idle"
    /\ Cardinality({t \in Tokens : tokens[t].status = "active"}) < MaxPending
    /\ admins' = [admins EXCEPT ![a].at = "mint"]
    /\ UNCHANGED <<tokens, agents, slots, machines, idFaults>>

\* The quota, on a count that includes what expired unused.
CountPending(a) ==
    /\ admins[a].at = "idle"
    /\ Cardinality({t \in Tokens : tokens[t].status \in {"active", "claiming"}}) < MaxPending
    /\ admins' = [admins EXCEPT ![a].at = "mint"]
    /\ UNCHANGED <<tokens, agents, slots, machines, idFaults>>

Mint(a, t) ==
    /\ admins[a].at = "mint" /\ tokens[t].status = "none"
    /\ tokens' = [tokens EXCEPT ![t].status = "active"]
    /\ admins' = [admins EXCEPT ![a] = [at |-> "audit", token |-> {t}]]
    /\ UNCHANGED <<agents, slots, machines, idFaults>>

\* The token is shown once, in the answer; an audit that throws takes it along.
AuditToken(a) ==
    /\ admins[a].at = "audit"
    /\ \/ /\ tokens' = [t \in Tokens |->
                           [tokens[t] EXCEPT !.shown = @ \/ t \in admins[a].token]]
          /\ UNCHANGED idFaults
       \/ IdFault("dbError") /\ UNCHANGED tokens
    /\ admins' = [admins EXCEPT ![a] = [at |-> "idle", token |-> {}]]
    /\ UNCHANGED <<agents, slots, machines>>

Expire(t) ==
    /\ tokens[t].status \in {"active", "claiming"} /\ ~tokens[t].expired
    /\ tokens' = [tokens EXCEPT ![t].expired = TRUE]
    /\ UNCHANGED <<agents, admins, slots, machines, idFaults>>

\* findFirst only asks whether the agent exists: one step with its update.
Revoke(i) ==
    /\ agents[i].status # "revoked"
    /\ agents' = [agents EXCEPT ![i].status = "revoked"]
    /\ UNCHANGED <<tokens, admins, slots, machines, idFaults>>

-----------------------------------------------------------------------------
(* The agent: Run, Enroll, Load and Save *)

\* The process still waits for the answer of handler s.
Waits(m, s) == machines[m].at = "enrolling" /\ s \in machines[m].call

\* Run fails: a supervisor, or somebody, starts it again.
RunFails(m) == [Down EXCEPT !.file = machines[m].file]

\* The handler of s answers with an error.
AnswerError(s) ==
    /\ slots' = [slots EXCEPT ![s] = Free]
    /\ machines' = [m \in Machines |-> IF Waits(m, s) THEN RunFails(m) ELSE machines[m]]

\* Mutant of Boot: a stored identity does not stop the enrollment.
BootAgain(m, s, t) ==
    /\ machines[m].at = "down" /\ slots[s] = Free /\ tokens[t].shown
    /\ machines' = [machines EXCEPT ![m].at = "enrolling", ![m].call = {s}]
    /\ slots' = [slots EXCEPT ![s] = [at |-> "claim", token |-> {t}, machine |-> {m},
                                      row |-> NoRow]]
    /\ UNCHANGED <<tokens, agents, admins, idFaults>>

\* Load finds no identity (no file, or one it cannot parse): POST enrollment.
Boot(m, s, t) ==
    /\ machines[m].at = "down" /\ machines[m].file = NoRow
    /\ slots[s] = Free /\ tokens[t].shown
    /\ machines' = [machines EXCEPT ![m].at = "enrolling", ![m].call = {s}]
    /\ slots' = [slots EXCEPT ![s] = [at |-> "claim", token |-> {t}, machine |-> {m},
                                      row |-> NoRow]]
    /\ UNCHANGED <<tokens, agents, admins, idFaults>>

\* Load finds the credential.
BootEnrolled(m) ==
    /\ machines[m].at = "down" /\ machines[m].file # NoRow
    /\ machines' = [machines EXCEPT ![m].at = "running", ![m].memory = machines[m].file]
    /\ UNCHANGED <<tokens, agents, admins, slots, idFaults>>

\* The client's 15 s are over; the handler goes on without it.
GiveUpEnroll(m) ==
    /\ machines[m].at = "enrolling" /\ IdFault("timeout")
    /\ machines' = [machines EXCEPT ![m] = RunFails(m)]
    /\ UNCHANGED <<tokens, agents, admins, slots>>

\* Save overwrites the file in place.
Save(m) ==
    /\ machines[m].at = "saving"
    /\ machines' = [machines EXCEPT ![m].at = "running", ![m].file = machines[m].memory]
    /\ UNCHANGED <<tokens, agents, admins, slots, idFaults>>

\* The process dies while it writes the file, the identity or a later sequence.
TornSave(m) ==
    /\ machines[m].at \in {"saving", "running"} /\ IdFault("tornFile")
    /\ machines' = [machines EXCEPT ![m] = Down]
    /\ UNCHANGED <<tokens, agents, admins, slots>>

StopAgent(m) ==
    /\ machines[m].at = "running"
    /\ machines' = [machines EXCEPT ![m] = RunFails(m)]
    /\ UNCHANGED <<tokens, agents, admins, slots, idFaults>>

-----------------------------------------------------------------------------
(* The gateway: enrollment *)

\* The conditional updateMany.
Claim(s) ==
    /\ slots[s].at = "claim"
    /\ \E t \in slots[s].token :
          /\ tokens[t].status = "active" /\ ~tokens[t].expired
          /\ tokens' = [tokens EXCEPT ![t].status = "claiming"]
    /\ slots' = [slots EXCEPT ![s].at = "create"]
    /\ UNCHANGED <<agents, admins, machines, idFaults>>

\* It matched no row: 401.
RefuseClaim(s) ==
    /\ slots[s].at = "claim"
    /\ \A t \in slots[s].token : tokens[t].status # "active" \/ tokens[t].expired
    /\ AnswerError(s)
    /\ UNCHANGED <<tokens, agents, admins, idFaults>>

\* It throws outside the try, so nobody gives the claim back: without an effect, or
\* although it was committed.
ClaimFails(s) ==
    /\ slots[s].at = "claim"
    /\ \/ IdFault("dbError") /\ UNCHANGED tokens
       \/ /\ IdFault("claimLost")
          /\ \E t \in slots[s].token :
                /\ tokens[t].status = "active" /\ ~tokens[t].expired
                /\ tokens' = [tokens EXCEPT ![t].status = "claiming"]
    /\ AnswerError(s)
    /\ UNCHANGED <<agents, admins>>

\* Mutant of Create: status is left to the schema's default.
CreatePending(s) ==
    /\ slots[s].at = "create"
    /\ \E t \in slots[s].token :
          /\ tokens[t].status = "claiming"
          /\ agents' = Append(agents, [token |-> t, status |-> "pending"])
          /\ tokens' = [tokens EXCEPT ![t].status = "used"]
    /\ slots' = [slots EXCEPT ![s].at = "answer", ![s].row = Len(agents) + 1]
    /\ UNCHANGED <<admins, machines, idFaults>>

\* The transaction: the agent with its credential, the token used.
Create(s) ==
    /\ slots[s].at = "create"
    /\ \E t \in slots[s].token :
          /\ tokens[t].status = "claiming"
          /\ agents' = Append(agents, [token |-> t, status |-> "online"])
          /\ tokens' = [tokens EXCEPT ![t].status = "used"]
    /\ slots' = [slots EXCEPT ![s].at = "answer", ![s].row = Len(agents) + 1]
    /\ UNCHANGED <<admins, machines, idFaults>>

\* It throws, and nothing of it is kept (no other handler takes a claim away, so
\* the update finds the token claimed); or it throws although it was committed.
CreateFails(s) ==
    /\ slots[s].at = "create"
    /\ \/ IdFault("dbError") /\ UNCHANGED <<tokens, agents>>
       \/ /\ IdFault("lostAnswer")
          /\ \E t \in slots[s].token :
                /\ agents' = Append(agents, [token |-> t, status |-> "online"])
                /\ tokens' = [tokens EXCEPT ![t].status = "used"]
    /\ slots' = [slots EXCEPT ![s].at = "rollback"]
    /\ UNCHANGED <<admins, machines>>

\* Mutants of Rollback: any token of that hash is given back; none is.
RollbackByHash(s) ==
    /\ slots[s].at = "rollback"
    /\ tokens' = [t \in Tokens |-> IF t \in slots[s].token
                     THEN [tokens[t] EXCEPT !.status = "active"] ELSE tokens[t]]
    /\ AnswerError(s)
    /\ UNCHANGED <<agents, admins, idFaults>>
RollbackNothing(s) ==
    /\ slots[s].at = "rollback"
    /\ AnswerError(s)
    /\ UNCHANGED <<tokens, agents, admins, idFaults>>

\* The claim is given back, and what this throws is swallowed.
Rollback(s) ==
    /\ slots[s].at = "rollback"
    /\ \/ /\ tokens' = [t \in Tokens |->
                           IF t \in slots[s].token /\ tokens[t].status = "claiming"
                           THEN [tokens[t] EXCEPT !.status = "active"] ELSE tokens[t]]
          /\ UNCHANGED idFaults
       \/ IdFault("rollbackError") /\ UNCHANGED tokens
    /\ AnswerError(s)
    /\ UNCHANGED <<agents, admins>>

\* The credential reaches a process that waits for it.
AnswerEnroll(s) ==
    /\ slots[s].at = "answer"
    /\ slots' = [slots EXCEPT ![s] = Free]
    /\ machines' = [m \in Machines |-> IF Waits(m, s)
                       THEN [machines[m] EXCEPT !.at = "saving", !.call = {},
                                                !.memory = slots[s].row]
                       ELSE machines[m]]
    /\ UNCHANGED <<tokens, agents, admins, idFaults>>

LoseAnswer(s) ==
    /\ slots[s].at = "answer" /\ IdFault("lostAnswer")
    /\ AnswerError(s)
    /\ UNCHANGED <<tokens, agents, admins>>

-----------------------------------------------------------------------------
(* The gateway: authenticateAgent and heartbeat *)

\* Mutant of Authenticates: only the credential is compared.
AuthenticatesHash(i) == i \in DOMAIN agents
Authenticates(i) == i \in DOMAIN agents /\ agents[i].status # "revoked"

\* A heartbeat is authenticated (401, 429 and 400 change nothing).
Beat(m, s) ==
    /\ machines[m].at = "running" /\ slots[s] = Free
    /\ Authenticates(machines[m].memory)
    /\ slots' = [slots EXCEPT ![s] = [at |-> "touch", token |-> {}, machine |-> {},
                                      row |-> machines[m].memory]]
    /\ UNCHANGED <<tokens, agents, admins, machines, idFaults>>

\* agent.update writes 'online' whatever the status is by now.
Touch(s) ==
    /\ slots[s].at = "touch"
    /\ agents' = [agents EXCEPT ![slots[s].row].status = "online"]
    /\ slots' = [slots EXCEPT ![s] = Free]
    /\ UNCHANGED <<tokens, admins, machines, idFaults>>

GatewayCrash ==
    /\ IdFault("gatewayCrash") /\ \E s \in Slots : slots[s] # Free
    /\ slots' = [s \in Slots |-> Free]
    /\ machines' = [m \in Machines |->
                       IF machines[m].at = "enrolling" THEN RunFails(m) ELSE machines[m]]
    /\ UNCHANGED <<tokens, agents, admins>>

-----------------------------------------------------------------------------

Console ==
    \/ \E a \in Admins : CountPending(a) \/ AuditToken(a) \/ (\E t \in Tokens : Mint(a, t))
    \/ \E t \in Tokens : Expire(t)
    \/ \E i \in DOMAIN agents : Revoke(i)

Agent(m) ==
    \/ \E s \in Slots : Beat(m, s) \/ (\E t \in Tokens : Boot(m, s, t))
    \/ BootEnrolled(m) \/ GiveUpEnroll(m) \/ Save(m) \/ TornSave(m) \/ StopAgent(m)

Gateway(s) ==
    \/ Claim(s) \/ RefuseClaim(s) \/ ClaimFails(s)
    \/ Create(s) \/ CreateFails(s) \/ Rollback(s) \/ AnswerEnroll(s) \/ LoseAnswer(s) \/ Touch(s)

NextIdentity ==
    \/ Console
    \/ \E m \in Machines : Agent(m)
    \/ \E s \in Slots : Gateway(s)
    \/ GatewayCrash

SpecIdentity == InitIdentity /\ [][NextIdentity]_identityVars

-----------------------------------------------------------------------------
(* Properties *)

TokenRow == [status : {"none", "active", "claiming", "used"}, expired : BOOLEAN, shown : BOOLEAN]
AgentRow == [token : Tokens, status : {"online", "revoked"}]
Admin == [at : {"idle", "mint", "audit"}, token : SUBSET Tokens]
Slot == [at : {"idle", "claim", "create", "rollback", "answer", "touch"},
         token : SUBSET Tokens, machine : SUBSET Machines, row : Nat]
Machine == [at : {"down", "enrolling", "saving", "running"},
            call : SUBSET Slots, memory : Nat, file : Nat]

IdentityOK ==
    /\ tokens \in [Tokens -> TokenRow] /\ agents \in Seq(AgentRow)
    /\ admins \in [Admins -> Admin] /\ slots \in [Slots -> Slot]
    /\ machines \in [Machines -> Machine] /\ idFaults \subseteq IdFaults

\* A one-time token makes one agent: whoever raced for it, gave up on it or lost
\* its answer, a used token has exactly one row in agents and no other has any.
EnrolledOnce ==
    /\ \A i, j \in DOMAIN agents : agents[i].token = agents[j].token => i = j
    /\ \A t \in Tokens :
          tokens[t].status = "used" <=> \E i \in DOMAIN agents : agents[i].token = t

\* The quota is read before the row is added, so it may be passed, but by no more
\* than the requests that counted at once, whatever expires, is claimed or given
\* back meanwhile.
PendingBounded ==
    Cardinality({t \in Tokens : tokens[t].status \in {"active", "claiming"}})
      + Cardinality({a \in Admins : admins[a].at = "mint"})
      < MaxPending + Cardinality(Admins)

\* A claim that no handler works on is left by a gateway that died, a rollback that
\* failed or a claim whose answer was lost, and by nothing else: that token blocks
\* its place in the quota for ever.
ClaimsAreHeld ==
    \A t \in Tokens : tokens[t].status = "claiming" =>
        \/ \E s \in Slots : slots[s].at \in {"create", "rollback"} /\ t \in slots[s].token
        \/ idFaults \cap {"gatewayCrash", "rollbackError", "claimLost"} # {}

\* As long as no answer, file or gateway is lost, every agent of the table is on
\* some machine: no restart and no failed enrollment leaves one behind.
AgentsAreHeld ==
    idFaults \subseteq {"dbError", "claimLost", "rollbackError"} =>
        \A i \in DOMAIN agents :
            \/ \E m \in Machines : i \in {machines[m].memory, machines[m].file}
            \/ \E s \in Slots : slots[s].at = "answer" /\ slots[s].row = i

\* Revocation kills the credential: once an agent is revoked and the heartbeats
\* authenticated before that are over, it stays revoked.
Out(i) == agents[i].status = "revoked"
          /\ ~\E s \in Slots : slots[s].at = "touch" /\ slots[s].row = i
OutStaysOut == [][\A i \in DOMAIN agents : Out(i) => Out(i)']_identityVars
=============================================================================
