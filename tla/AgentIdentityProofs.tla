------------------------ MODULE AgentIdentityProofs ------------------------
(***************************************************************************)
(* Theorems about AgentIdentity, for every number of tokens, machines,     *)
(* admins and handlers and every fault: its types, that a token enrolls    *)
(* one agent, what a claim without a handler means, by how much the quota  *)
(* may be passed, that no agent is left behind, and that a revoked agent   *)
(* stays out.                                                              *)
(***************************************************************************)
EXTENDS AgentIdentity, FiniteSetTheorems, TLAPS

\* A handler between its claim and the end of its transaction or rollback.
Holds(s) == slots[s].at \in {"create", "rollback"}

\* An enrollment is about one token; a handler that holds it is the only one, and
\* found it claimed; it is used by then only if the transaction was committed
\* although it threw.
HandlersHold ==
    /\ \A s \in Slots : slots[s].at \in {"claim", "create", "rollback"} =>
          \E t \in Tokens : slots[s].token = {t}
    /\ \A s \in Slots : \A t \in slots[s].token :
          /\ slots[s].at = "create" => tokens[t].status = "claiming"
          /\ slots[s].at = "rollback" => tokens[t].status \in {"claiming", "used"}
    /\ \A r, s \in Slots :
          Holds(r) /\ Holds(s) /\ r # s => slots[r].token \cap slots[s].token = {}

IInv == IdentityOK /\ HandlersHold /\ EnrolledOnce /\ ClaimsAreHeld

-----------------------------------------------------------------------------
(* Types *)

LEMMA Typed ==
    /\ Free \in Slot /\ Down \in Machine
    /\ \A m \in Machines : machines \in [Machines -> Machine] => RunFails(m) \in Machine
  BY DEF Free, Down, NoRow, RunFails, Slot, Machine

LEMMA FaultTyped ==
    ASSUME IdentityOK, NEW kind \in IdFaults, IdFault(kind)
    PROVE  idFaults' \subseteq IdFaults
  BY DEF IdFault, IdentityOK

LEMMA ErrorTyped ==
    ASSUME IdentityOK, NEW s \in Slots, AnswerError(s)
    PROVE  slots' \in [Slots -> Slot] /\ machines' \in [Machines -> Machine]
  BY Typed DEF AnswerError, IdentityOK

LEMMA RowTyped ==
    ASSUME IdentityOK, NEW i \in DOMAIN agents, NEW st \in {"online", "revoked"}
    PROVE  [agents[i] EXCEPT !.status = st] \in AgentRow
<1>1. agents[i] \in AgentRow
  BY DEF IdentityOK
<1> QED
  BY <1>1 DEF AgentRow

\* What the transaction of an enrollment writes.
LEMMA CreatedTyped ==
    ASSUME IdentityOK, NEW t \in Tokens,
           agents' = Append(agents, [token |-> t, status |-> "online"]),
           tokens' = [tokens EXCEPT ![t].status = "used"]
    PROVE  agents' \in Seq(AgentRow) /\ tokens' \in [Tokens -> TokenRow]
<1>1. [token |-> t, status |-> "online"] \in AgentRow
  BY DEF AgentRow
<1>2. agents' \in Seq(AgentRow)
  BY <1>1 DEF IdentityOK
<1>3. [tokens[t] EXCEPT !.status = "used"] \in TokenRow
  BY DEF IdentityOK, TokenRow
<1> QED
  BY <1>2, <1>3 DEF IdentityOK

LEMMA ConsoleTyped ==
    ASSUME IdentityOK, Console
    PROVE  IdentityOK'
<1>1. ASSUME NEW a \in Admins, CountPending(a)
      PROVE  IdentityOK'
  <2>1. [admins[a] EXCEPT !.at = "mint"] \in Admin
    BY DEF IdentityOK, Admin
  <2> QED
    BY <1>1, <2>1 DEF CountPending, IdentityOK
<1>2. ASSUME NEW a \in Admins, AuditToken(a)
      PROVE  IdentityOK'
  <2>1. [at |-> "idle", token |-> {}] \in Admin
    BY DEF Admin
  <2>2. \A t \in Tokens, b \in BOOLEAN : [tokens[t] EXCEPT !.shown = @ \/ b] \in TokenRow
    BY DEF IdentityOK, TokenRow
  <2>3. tokens' \in [Tokens -> TokenRow]
    BY <1>2, <2>2 DEF AuditToken, IdentityOK
  <2>4. idFaults' \subseteq IdFaults
    BY <1>2, FaultTyped DEF AuditToken, IdFaults, IdentityOK
  <2> QED
    BY <1>2, <2>1, <2>3, <2>4 DEF AuditToken, IdentityOK
<1>3. ASSUME NEW a \in Admins, NEW t \in Tokens, Mint(a, t)
      PROVE  IdentityOK'
  <2>1. [at |-> "audit", token |-> {t}] \in Admin /\ [tokens[t] EXCEPT !.status = "active"] \in TokenRow
    BY DEF Admin, IdentityOK, TokenRow
  <2> QED
    BY <1>3, <2>1 DEF Mint, IdentityOK
<1>4. ASSUME NEW t \in Tokens, Expire(t)
      PROVE  IdentityOK'
  <2>1. [tokens[t] EXCEPT !.expired = TRUE] \in TokenRow
    BY DEF IdentityOK, TokenRow
  <2> QED
    BY <1>4, <2>1 DEF Expire, IdentityOK
<1>5. ASSUME NEW i \in DOMAIN agents, Revoke(i)
      PROVE  IdentityOK'
  <2>1. [agents[i] EXCEPT !.status = "revoked"] \in AgentRow
    BY RowTyped
  <2> QED
    BY <1>5, <2>1 DEF Revoke, IdentityOK
<1> QED
  BY <1>1, <1>2, <1>3, <1>4, <1>5 DEF Console

LEMMA AgentTyped ==
    ASSUME IdentityOK, NEW m \in Machines, Agent(m)
    PROVE  IdentityOK'
<1>0. machines[m] \in Machine
  BY DEF IdentityOK
<1>1. ASSUME NEW s \in Slots, Beat(m, s)
      PROVE  IdentityOK'
  <2>1. [at |-> "touch", token |-> {}, machine |-> {}, row |-> machines[m].memory] \in Slot
    BY <1>0 DEF Slot, Machine
  <2> QED
    BY <1>1, <2>1 DEF Beat, IdentityOK
<1>2. ASSUME NEW s \in Slots, NEW t \in Tokens, Boot(m, s, t)
      PROVE  IdentityOK'
  <2>1. [at |-> "claim", token |-> {t}, machine |-> {m}, row |-> NoRow] \in Slot
    BY DEF Slot, NoRow
  <2>2. [machines[m] EXCEPT !.at = "enrolling", !.call = {s}] \in Machine
    BY <1>0 DEF Machine
  <2> QED
    BY <1>2, <2>1, <2>2 DEF Boot, IdentityOK
<1>3. CASE BootEnrolled(m)
  <2>1. [machines[m] EXCEPT !.at = "running", !.memory = machines[m].file] \in Machine
    BY <1>0 DEF Machine
  <2> QED
    BY <1>3, <2>1 DEF BootEnrolled, IdentityOK
<1>4. CASE GiveUpEnroll(m)
  <2>1. idFaults' \subseteq IdFaults
    BY <1>4, FaultTyped DEF GiveUpEnroll, IdFaults
  <2> QED
    BY <1>4, <2>1, Typed DEF GiveUpEnroll, IdentityOK
<1>5. CASE Save(m)
  <2>1. [machines[m] EXCEPT !.at = "running", !.file = machines[m].memory] \in Machine
    BY <1>0 DEF Machine
  <2> QED
    BY <1>5, <2>1 DEF Save, IdentityOK
<1>6. CASE TornSave(m)
  <2>1. idFaults' \subseteq IdFaults
    BY <1>6, FaultTyped DEF TornSave, IdFaults
  <2> QED
    BY <1>6, <2>1, Typed DEF TornSave, IdentityOK
<1>7. CASE StopAgent(m)
  BY <1>7, Typed DEF StopAgent, IdentityOK
<1> QED
  BY <1>1, <1>2, <1>3, <1>4, <1>5, <1>6, <1>7 DEF Agent

LEMMA GatewayTyped ==
    ASSUME IdentityOK, NEW s \in Slots, Gateway(s)
    PROVE  IdentityOK'
<1>0. /\ slots[s] \in Slot
      /\ \A t \in Tokens, st \in {"active", "claiming", "used"} :
            [tokens[t] EXCEPT !.status = st] \in TokenRow
  BY DEF IdentityOK, TokenRow
<1>1. CASE Claim(s)
  <2>1. [slots[s] EXCEPT !.at = "create"] \in Slot
    BY <1>0 DEF Slot
  <2>2. PICK t \in slots[s].token : tokens' = [tokens EXCEPT ![t].status = "claiming"]
    BY <1>1 DEF Claim
  <2>3. t \in Tokens
    BY <1>0 DEF Slot
  <2> QED
    BY <1>1, <1>0, <2>1, <2>2, <2>3 DEF Claim, IdentityOK
<1>2. CASE RefuseClaim(s)
  BY <1>2, ErrorTyped DEF RefuseClaim, IdentityOK
<1>3. CASE Create(s)
  <2>1. PICK t \in slots[s].token :
           /\ agents' = Append(agents, [token |-> t, status |-> "online"])
           /\ tokens' = [tokens EXCEPT ![t].status = "used"]
    BY <1>3 DEF Create
  <2>2. t \in Tokens /\ Len(agents) + 1 \in Nat
    BY <1>0 DEF Slot, IdentityOK
  <2>3. [slots[s] EXCEPT !.at = "answer", !.row = Len(agents) + 1] \in Slot
    BY <1>0, <2>2 DEF Slot
  <2>4. agents' \in Seq(AgentRow) /\ tokens' \in [Tokens -> TokenRow]
    BY <2>1, <2>2, CreatedTyped
  <2> QED
    BY <1>3, <2>3, <2>4 DEF Create, IdentityOK
<1>4. CASE CreateFails(s)
  <2>1. [slots[s] EXCEPT !.at = "rollback"] \in Slot
    BY <1>0 DEF Slot
  <2>2. idFaults' \subseteq IdFaults
    BY <1>4, FaultTyped DEF CreateFails, IdFaults
  <2>3. slots[s].token \subseteq Tokens
    BY <1>0 DEF Slot
  <2>4. agents' \in Seq(AgentRow) /\ tokens' \in [Tokens -> TokenRow]
    BY <1>4, <2>3, CreatedTyped DEF CreateFails, IdentityOK
  <2> QED
    BY <1>4, <2>1, <2>2, <2>4 DEF CreateFails, IdentityOK
<1>5. CASE ClaimFails(s)
  <2>1. idFaults' \subseteq IdFaults
    BY <1>5, FaultTyped DEF ClaimFails, IdFaults
  <2>2. slots[s].token \subseteq Tokens
    BY <1>0 DEF Slot
  <2>3. tokens' \in [Tokens -> TokenRow]
    BY <1>5, <1>0, <2>2 DEF ClaimFails, IdentityOK
  <2> QED
    BY <1>5, <2>1, <2>3, ErrorTyped DEF ClaimFails, IdentityOK
<1>6. CASE Rollback(s)
  <2>1. idFaults' \subseteq IdFaults
    BY <1>6, FaultTyped DEF Rollback, IdFaults, IdentityOK
  <2>2. tokens' \in [Tokens -> TokenRow]
    BY <1>6, <1>0 DEF Rollback, IdentityOK
  <2> QED
    BY <1>6, <2>1, <2>2, ErrorTyped DEF Rollback, IdentityOK
<1>7. CASE AnswerEnroll(s)
  <2>1. \A m \in Machines : [machines[m] EXCEPT !.at = "saving", !.call = {},
                                                !.memory = slots[s].row] \in Machine
    BY <1>0 DEF Slot, Machine, IdentityOK
  <2> QED
    BY <1>7, <2>1, Typed DEF AnswerEnroll, IdentityOK
<1>8. CASE LoseAnswer(s)
  <2>1. idFaults' \subseteq IdFaults
    BY <1>8, FaultTyped DEF LoseAnswer, IdFaults
  <2> QED
    BY <1>8, <2>1, ErrorTyped DEF LoseAnswer, IdentityOK
<1>9. CASE Touch(s)
  <2>1. \A i \in DOMAIN agents : [agents[i] EXCEPT !.status = "online"] \in AgentRow
    BY RowTyped
  <2>2. agents' \in Seq(AgentRow)
    <3>1. /\ agents \in Seq(AgentRow)
          /\ agents' = [agents EXCEPT ![slots[s].row].status = "online"]
      BY <1>9 DEF Touch, IdentityOK
    <3>2. DOMAIN agents = 1..Len(agents) /\ Len(agents) \in Nat
      BY <3>1
    <3>3. agents' = [i \in 1..Len(agents) |->
                        IF i = slots[s].row THEN [agents[i] EXCEPT !.status = "online"]
                                            ELSE agents[i]]
      BY <3>1, <3>2, Zenon
    <3>4. \A i \in 1..Len(agents) :
             agents[i] \in AgentRow /\ [agents[i] EXCEPT !.status = "online"] \in AgentRow
      BY <2>1, <3>1, <3>2
    <3> QED
      BY <3>2, <3>3, <3>4
  <2> QED
    BY <1>9, <2>2, Typed DEF Touch, IdentityOK
<1> QED
  BY <1>1, <1>2, <1>3, <1>4, <1>5, <1>6, <1>7, <1>8, <1>9 DEF Gateway

LEMMA TypesStep ==
    ASSUME IdentityOK, [NextIdentity]_identityVars
    PROVE  IdentityOK'
<1>1. CASE GatewayCrash
  <2>1. idFaults' \subseteq IdFaults
    BY <1>1, FaultTyped DEF GatewayCrash, IdFaults
  <2> QED
    BY <1>1, <2>1, Typed DEF GatewayCrash, IdentityOK
<1>2. CASE UNCHANGED identityVars
  BY <1>2 DEF identityVars, IdentityOK
<1> QED
  BY <1>1, <1>2, ConsoleTyped, AgentTyped, GatewayTyped DEF NextIdentity

-----------------------------------------------------------------------------
(* Claims and enrollments *)

\* A step that takes no part in an enrollment: no handler begins or ends to hold a
\* token, no token's status and no agent's token changes.
Aside ==
    /\ \A s \in Slots : slots'[s].at \in {"claim", "create", "rollback"} \/ Holds(s)
                       => slots'[s] = slots[s]
    /\ \A t \in Tokens : tokens'[t].status = tokens[t].status
    /\ DOMAIN agents' = DOMAIN agents
    /\ \A i \in DOMAIN agents : agents'[i].token = agents[i].token
    /\ idFaults \subseteq idFaults'

LEMMA AsideKeeps ==
    ASSUME IInv, Aside
    PROVE  HandlersHold' /\ EnrolledOnce' /\ ClaimsAreHeld'
<1>0. \A s \in Slots : slots[s].token \subseteq Tokens
  BY DEF IInv, IdentityOK, Slot
<1>1. HandlersHold'
  BY <1>0 DEF IInv, HandlersHold, Aside, Holds
<1>2. EnrolledOnce'
  BY DEF IInv, EnrolledOnce, Aside
<1>3. ClaimsAreHeld'
  BY DEF IInv, ClaimsAreHeld, Aside, Holds
<1> QED
  BY <1>1, <1>2, <1>3

LEMMA ConsoleAside ==
    ASSUME IdentityOK, Console, ~\E a \in Admins, t \in Tokens : Mint(a, t)
    PROVE  Aside
<1>1. ASSUME NEW a \in Admins, CountPending(a)
      PROVE  Aside
  BY <1>1 DEF CountPending, Aside
<1>2. ASSUME NEW a \in Admins, AuditToken(a)
      PROVE  Aside
  <2>1. \A t \in Tokens : tokens'[t].status = tokens[t].status
    BY <1>2 DEF AuditToken, IdentityOK, TokenRow
  <2> QED
    BY <1>2, <2>1 DEF AuditToken, IdFault, Aside
<1>3. ASSUME NEW t \in Tokens, Expire(t)
      PROVE  Aside
  <2>1. \A u \in Tokens : tokens'[u].status = tokens[u].status
    BY <1>3 DEF Expire, IdentityOK, TokenRow
  <2> QED
    BY <1>3, <2>1 DEF Expire, Aside
<1>4. ASSUME NEW i \in DOMAIN agents, Revoke(i)
      PROVE  Aside
  <2>1. \A j \in DOMAIN agents : agents[j] \in AgentRow
    BY DEF IdentityOK
  <2>2. \A j \in DOMAIN agents : agents'[j].token = agents[j].token
    BY <1>4, <2>1 DEF Revoke, AgentRow
  <2> QED
    BY <1>4, <2>2 DEF Revoke, Aside
<1> QED
  BY <1>1, <1>2, <1>3, <1>4 DEF Console

LEMMA AgentAside ==
    ASSUME IdentityOK, NEW m \in Machines, Agent(m),
           ~\E s \in Slots, t \in Tokens : Boot(m, s, t)
    PROVE  Aside
<1>1. ASSUME NEW s \in Slots, Beat(m, s)
      PROVE  Aside
  BY <1>1 DEF Beat, Aside, Holds, Free, IdentityOK
<1>2. CASE BootEnrolled(m) \/ GiveUpEnroll(m) \/ Save(m) \/ TornSave(m) \/ StopAgent(m)
  BY <1>2 DEF BootEnrolled, GiveUpEnroll, Save, TornSave, StopAgent, IdFault, Aside
<1> QED
  BY <1>1, <1>2 DEF Agent

LEMMA GatewayAside ==
    ASSUME IdentityOK, NEW s \in Slots,
           RefuseClaim(s) \/ AnswerEnroll(s) \/ LoseAnswer(s) \/ Touch(s)
    PROVE  Aside
<1>1. CASE RefuseClaim(s) \/ AnswerEnroll(s) \/ LoseAnswer(s)
  <2>1. /\ slots[s].at \in {"claim", "answer"} /\ slots' = [slots EXCEPT ![s] = Free]
        /\ UNCHANGED <<tokens, agents>> /\ idFaults \subseteq idFaults'
    BY <1>1 DEF RefuseClaim, AnswerEnroll, LoseAnswer, AnswerError, IdFault
  <2>2. slots'[s].at = "idle" /\ \A r \in Slots \ {s} : slots'[r] = slots[r]
    BY <2>1 DEF IdentityOK, Free
  <2> QED
    BY <2>1, <2>2 DEF Aside, Holds
<1>2. CASE Touch(s)
  <2>1. \A j \in DOMAIN agents : agents[j] \in AgentRow
    BY DEF IdentityOK
  <2>2. \A j \in DOMAIN agents : agents'[j].token = agents[j].token
    BY <1>2, <2>1 DEF Touch, AgentRow
  <2> QED
    BY <1>2, <2>2 DEF Touch, Aside, Holds, Free, IdentityOK
<1> QED
  BY <1>1, <1>2

\* Where the steps of an enrollment leave the handler and the token.
LEMMA SlotMoves ==
    ASSUME IdentityOK, NEW s \in Slots, NEW x \in {"create", "rollback"},
           slots' = [slots EXCEPT ![s].at = x]
    PROVE  /\ slots'[s].at = x /\ slots'[s].token = slots[s].token
           /\ \A r \in Slots \ {s} : slots'[r] = slots[r]
  BY DEF IdentityOK, Slot

LEMMA TokenMoves ==
    ASSUME IdentityOK, NEW t \in Tokens, NEW x, tokens' = [tokens EXCEPT ![t].status = x]
    PROVE  /\ tokens'[t].status = x
           /\ \A u \in Tokens \ {t} : tokens'[u] = tokens[u]
  BY DEF IdentityOK, TokenRow

LEMMA HoldsOne ==
    ASSUME IInv, NEW s \in Slots, slots[s].at \in {"claim", "create", "rollback"}
    PROVE  \E t \in Tokens : slots[s].token = {t}
  BY DEF IInv, HandlersHold

LEMMA MintKeeps ==
    ASSUME IInv, NEW a \in Admins, NEW t \in Tokens, Mint(a, t)
    PROVE  HandlersHold' /\ EnrolledOnce' /\ ClaimsAreHeld'
<1>1. /\ tokens[t].status = "none" /\ tokens'[t].status = "active"
      /\ \A u \in Tokens \ {t} : tokens'[u] = tokens[u]
  BY TokenMoves DEF Mint, IInv
<1>2. UNCHANGED <<agents, slots, idFaults>>
  BY DEF Mint
<1>3. \A s \in Slots : slots[s].token \subseteq Tokens
  BY DEF IInv, IdentityOK, Slot
<1>4. HandlersHold'
  BY <1>1, <1>2, <1>3 DEF IInv, HandlersHold, Holds
<1>5. EnrolledOnce'
  BY <1>1, <1>2 DEF IInv, EnrolledOnce
<1>6. ClaimsAreHeld'
  BY <1>1, <1>2 DEF IInv, ClaimsAreHeld
<1> QED
  BY <1>4, <1>5, <1>6

LEMMA BootKeeps ==
    ASSUME IInv, NEW m \in Machines, NEW s \in Slots, NEW t \in Tokens, Boot(m, s, t)
    PROVE  HandlersHold' /\ EnrolledOnce' /\ ClaimsAreHeld'
<1>1. /\ slots[s].at = "idle" /\ slots'[s].at = "claim" /\ slots'[s].token = {t}
      /\ \A r \in Slots \ {s} : slots'[r] = slots[r]
  BY DEF Boot, Free, IInv, IdentityOK
<1>2. UNCHANGED <<tokens, agents, idFaults>>
  BY DEF Boot
<1>3. HandlersHold'
  BY <1>1, <1>2 DEF IInv, HandlersHold, Holds
<1>4. EnrolledOnce'
  BY <1>2 DEF IInv, EnrolledOnce
<1>5. ClaimsAreHeld'
  BY <1>1, <1>2 DEF IInv, ClaimsAreHeld
<1> QED
  BY <1>3, <1>4, <1>5

LEMMA ClaimKeeps ==
    ASSUME IInv, NEW s \in Slots, Claim(s)
    PROVE  HandlersHold' /\ EnrolledOnce' /\ ClaimsAreHeld'
<1>1. PICK t \in Tokens : slots[s].token = {t}
  BY HoldsOne DEF Claim
<1>2. /\ tokens[t].status = "active" /\ tokens'[t].status = "claiming"
      /\ \A u \in Tokens \ {t} : tokens'[u] = tokens[u]
  <2>1. /\ tokens[t].status = "active"
        /\ tokens' = [tokens EXCEPT ![t].status = "claiming"]
    BY <1>1 DEF Claim
  <2>2. tokens'[t].status = "claiming" /\ \A u \in Tokens \ {t} : tokens'[u] = tokens[u]
    BY <2>1, TokenMoves DEF IInv
  <2> QED
    BY <2>1, <2>2
<1>3. /\ slots'[s].at = "create" /\ slots'[s].token = {t}
      /\ \A r \in Slots \ {s} : slots'[r] = slots[r]
  BY <1>1, SlotMoves DEF Claim, IInv
<1>4. UNCHANGED <<agents, idFaults>>
  BY DEF Claim
\* No other handler holds a token that is active.
<1>5. \A r \in Slots : Holds(r) => t \notin slots[r].token
  BY <1>2 DEF IInv, HandlersHold, Holds
<1>6. \A r \in Slots : slots[r].token \subseteq Tokens
  BY DEF IInv, IdentityOK, Slot
<1>7. HandlersHold'
  BY <1>1, <1>2, <1>3, <1>5, <1>6 DEF IInv, HandlersHold, Holds
<1>8. EnrolledOnce'
  BY <1>2, <1>4 DEF IInv, EnrolledOnce
<1>9. ClaimsAreHeld'
  <2>1. slots[s].at = "claim"
    BY DEF Claim
  <2> QED
    BY <1>2, <1>3, <1>4, <2>1 DEF IInv, ClaimsAreHeld
<1> QED
  BY <1>7, <1>8, <1>9

\* The claim's update throws: the handler is gone, with or without its claim.
LEMMA ClaimFailsKeeps ==
    ASSUME IInv, NEW s \in Slots, ClaimFails(s)
    PROVE  HandlersHold' /\ EnrolledOnce' /\ ClaimsAreHeld'
<1>1. PICK t \in Tokens : slots[s].token = {t}
  BY HoldsOne DEF ClaimFails
<1>2. /\ slots[s].at = "claim" /\ slots'[s].at = "idle" /\ slots'[s].token = {}
      /\ \A r \in Slots \ {s} : slots'[r] = slots[r]
  BY DEF ClaimFails, AnswerError, Free, IInv, IdentityOK
<1>3. agents' = agents /\ idFaults \subseteq idFaults'
  BY DEF ClaimFails, IdFault
<1>4. CASE UNCHANGED tokens
  <2>1. HandlersHold'
    BY <1>2, <1>4 DEF IInv, HandlersHold, Holds
  <2>2. EnrolledOnce'
    BY <1>3, <1>4 DEF IInv, EnrolledOnce
  <2>3. ClaimsAreHeld'
    BY <1>2, <1>3, <1>4 DEF IInv, ClaimsAreHeld
  <2> QED
    BY <2>1, <2>2, <2>3
<1>5. CASE /\ IdFault("claimLost") /\ tokens[t].status = "active"
           /\ tokens' = [tokens EXCEPT ![t].status = "claiming"]
  <2>1. tokens'[t].status = "claiming" /\ \A u \in Tokens \ {t} : tokens'[u] = tokens[u]
    BY <1>5, TokenMoves DEF IInv
  \* No other handler holds a token that is active.
  <2>2. \A r \in Slots : Holds(r) => t \notin slots[r].token
    BY <1>5 DEF IInv, HandlersHold, Holds
  <2>3. \A r \in Slots : slots[r].token \subseteq Tokens
    BY DEF IInv, IdentityOK, Slot
  <2>4. HandlersHold'
    BY <1>2, <2>1, <2>2, <2>3 DEF IInv, HandlersHold, Holds
  <2>5. EnrolledOnce'
    BY <1>3, <1>5, <2>1 DEF IInv, EnrolledOnce
  <2>6. ClaimsAreHeld'
    BY <1>5 DEF ClaimsAreHeld, IdFault
  <2> QED
    BY <2>4, <2>5, <2>6
<1> QED
  BY <1>1, <1>4, <1>5 DEF ClaimFails

\* The transaction commits: the handler goes on to x with the one token it held.
LEMMA CommitKeeps ==
    ASSUME IInv, NEW s \in Slots, NEW x \in {"answer", "rollback"}, NEW t \in slots[s].token,
           slots[s].at = "create", slots'[s].at = x, slots'[s].token = slots[s].token,
           \A r \in Slots \ {s} : slots'[r] = slots[r],
           agents' = Append(agents, [token |-> t, status |-> "online"]),
           tokens' = [tokens EXCEPT ![t].status = "used"],
           idFaults \subseteq idFaults'
    PROVE  HandlersHold' /\ EnrolledOnce' /\ ClaimsAreHeld'
<1>1. t \in Tokens /\ slots[s].token = {t} /\ tokens[t].status = "claiming"
  BY HoldsOne DEF IInv, HandlersHold
<1>2. tokens'[t].status = "used" /\ \A u \in Tokens \ {t} : tokens'[u] = tokens[u]
  BY <1>1, TokenMoves DEF IInv
<1>3. \A r \in Slots : slots[r].token \subseteq Tokens
  BY DEF IInv, IdentityOK, Slot
\* No other handler holds t.
<1>4. \A r \in Slots \ {s} : Holds(r) => t \notin slots[r].token
  BY <1>1 DEF IInv, HandlersHold, Holds
<1>5. HandlersHold'
  BY <1>1, <1>2, <1>3, <1>4 DEF IInv, HandlersHold, Holds
<1>6. EnrolledOnce'
  <2>1. \A i \in DOMAIN agents : agents[i].token # t
    BY <1>1 DEF IInv, EnrolledOnce
  <2>2. /\ DOMAIN agents' = DOMAIN agents \cup {Len(agents) + 1}
        /\ Len(agents) + 1 \notin DOMAIN agents
        /\ \A i \in DOMAIN agents : agents'[i] = agents[i]
        /\ agents'[Len(agents) + 1] = [token |-> t, status |-> "online"]
    BY DEF IInv, IdentityOK
  <2> QED
    BY <1>1, <1>2, <2>1, <2>2 DEF IInv, EnrolledOnce
<1>7. ClaimsAreHeld'
  BY <1>1, <1>2 DEF IInv, ClaimsAreHeld
<1> QED
  BY <1>5, <1>6, <1>7

LEMMA CreateKeeps ==
    ASSUME IInv, NEW s \in Slots, Create(s)
    PROVE  HandlersHold' /\ EnrolledOnce' /\ ClaimsAreHeld'
<1>1. PICK t \in slots[s].token :
         /\ agents' = Append(agents, [token |-> t, status |-> "online"])
         /\ tokens' = [tokens EXCEPT ![t].status = "used"]
  BY DEF Create
<1>2. /\ slots'[s].at = "answer" /\ slots'[s].token = slots[s].token
      /\ \A r \in Slots \ {s} : slots'[r] = slots[r]
  BY DEF Create, IInv, IdentityOK, Slot
<1> QED
  BY <1>1, <1>2, CommitKeeps DEF Create

LEMMA CreateFailsKeeps ==
    ASSUME IInv, NEW s \in Slots, CreateFails(s)
    PROVE  HandlersHold' /\ EnrolledOnce' /\ ClaimsAreHeld'
<1>1. /\ slots[s].at = "create" /\ slots'[s].at = "rollback"
      /\ slots'[s].token = slots[s].token
      /\ \A r \in Slots \ {s} : slots'[r] = slots[r]
      /\ idFaults \subseteq idFaults'
  BY SlotMoves DEF CreateFails, IdFault, IInv
<1>2. CASE UNCHANGED <<tokens, agents>>
  <2>1. HandlersHold'
    BY <1>1, <1>2 DEF IInv, HandlersHold, Holds
  <2>2. EnrolledOnce'
    BY <1>2 DEF IInv, EnrolledOnce
  <2>3. ClaimsAreHeld'
    BY <1>1, <1>2 DEF IInv, ClaimsAreHeld
  <2> QED
    BY <2>1, <2>2, <2>3
<1>3. CASE \E t \in slots[s].token :
              /\ agents' = Append(agents, [token |-> t, status |-> "online"])
              /\ tokens' = [tokens EXCEPT ![t].status = "used"]
  BY <1>1, <1>3, CommitKeeps
<1> QED
  BY <1>2, <1>3 DEF CreateFails

LEMMA RollbackKeeps ==
    ASSUME IInv, NEW s \in Slots, Rollback(s)
    PROVE  HandlersHold' /\ EnrolledOnce' /\ ClaimsAreHeld'
<1>1. PICK t \in Tokens : slots[s].token = {t}
  BY HoldsOne DEF Rollback
<1>2. /\ slots[s].at = "rollback" /\ slots'[s].at = "idle" /\ slots'[s].token = {}
      /\ \A r \in Slots \ {s} : slots'[r] = slots[r]
  BY DEF Rollback, AnswerError, Free, IInv, IdentityOK
<1>3. agents' = agents /\ idFaults \subseteq idFaults'
  BY DEF Rollback, IdFault
\* Its token is given back if it is claimed, and stays as it is otherwise.
<1>4. /\ \A u \in Tokens \ {t} : tokens'[u].status = tokens[u].status
      /\ \/ tokens'[t].status = tokens[t].status
         \/ tokens[t].status = "claiming" /\ tokens'[t].status = "active"
  BY <1>1 DEF Rollback, IInv, IdentityOK, TokenRow
<1>5. \A r \in Slots : slots[r].token \subseteq Tokens
  BY DEF IInv, IdentityOK, Slot
<1>6. \A r \in Slots \ {s} : Holds(r) => t \notin slots[r].token
  BY <1>1, <1>2 DEF IInv, HandlersHold, Holds
<1>7. HandlersHold'
  BY <1>1, <1>2, <1>4, <1>5, <1>6 DEF IInv, HandlersHold, Holds
<1>8. EnrolledOnce'
  BY <1>3, <1>4 DEF IInv, EnrolledOnce
<1>9. ClaimsAreHeld'
  <2>1. CASE idFaults' \cap {"gatewayCrash", "rollbackError", "claimLost"} # {}
    BY <2>1 DEF ClaimsAreHeld
  <2>2. CASE idFaults' \cap {"gatewayCrash", "rollbackError", "claimLost"} = {}
    <3>1. tokens'[t].status # "claiming"
      BY <1>1, <1>2, <2>2 DEF Rollback, IdFault, IInv, IdentityOK, TokenRow, HandlersHold
    <3> QED
      BY <1>1, <1>2, <1>3, <1>4, <2>2, <3>1 DEF IInv, ClaimsAreHeld
  <2> QED
    BY <2>1, <2>2
<1> QED
  BY <1>7, <1>8, <1>9

LEMMA CrashKeeps ==
    ASSUME IInv, GatewayCrash
    PROVE  HandlersHold' /\ EnrolledOnce' /\ ClaimsAreHeld'
<1>1. UNCHANGED <<tokens, agents>> /\ "gatewayCrash" \in idFaults'
  BY DEF GatewayCrash, IdFault
<1>2. \A s \in Slots : slots'[s].at = "idle" /\ slots'[s].token = {}
  BY DEF GatewayCrash, Free
<1>3. HandlersHold'
  BY <1>2 DEF HandlersHold, Holds
<1>4. EnrolledOnce'
  BY <1>1 DEF IInv, EnrolledOnce
<1>5. ClaimsAreHeld'
  BY <1>1 DEF ClaimsAreHeld
<1> QED
  BY <1>3, <1>4, <1>5

LEMMA InvStep ==
    ASSUME IInv, [NextIdentity]_identityVars
    PROVE  IInv'
<1>1. IdentityOK'
  BY TypesStep DEF IInv
<1>2. HandlersHold' /\ EnrolledOnce' /\ ClaimsAreHeld'
  <2>1. CASE Console
    BY <2>1, MintKeeps, ConsoleAside, AsideKeeps DEF IInv
  <2>2. ASSUME NEW m \in Machines, Agent(m)
        PROVE  HandlersHold' /\ EnrolledOnce' /\ ClaimsAreHeld'
    BY <2>2, BootKeeps, AgentAside, AsideKeeps DEF IInv
  <2>3. ASSUME NEW s \in Slots, Gateway(s)
        PROVE  HandlersHold' /\ EnrolledOnce' /\ ClaimsAreHeld'
    BY <2>3, ClaimKeeps, ClaimFailsKeeps, CreateKeeps, CreateFailsKeeps, RollbackKeeps, GatewayAside, AsideKeeps
       DEF Gateway, IInv
  <2>4. CASE UNCHANGED identityVars
    <3>1. Aside
      BY <2>4 DEF identityVars, Aside
    <3> QED
      BY <3>1, AsideKeeps
  <2> QED
    BY <2>1, <2>2, <2>3, <2>4, CrashKeeps DEF NextIdentity
<1> QED
  BY <1>1, <1>2 DEF IInv

LEMMA InvInit ==
    ASSUME InitIdentity
    PROVE  IInv
<1>1. IdentityOK
  BY Typed DEF InitIdentity, IdentityOK, TokenRow, Admin, IdFaults
<1>2. HandlersHold
  BY DEF InitIdentity, Free, HandlersHold, Holds
<1>3. EnrolledOnce /\ ClaimsAreHeld
  BY DEF InitIdentity, EnrolledOnce, ClaimsAreHeld
<1> QED
  BY <1>1, <1>2, <1>3 DEF IInv

LEMMA Invariant == SpecIdentity => []IInv
  BY InvInit, InvStep, PTL DEF SpecIdentity

\* The variables of AgentIdentity keep their types.
THEOREM TypeCorrect == SpecIdentity => []IdentityOK
<1>1. IInv => IdentityOK
  BY DEF IInv
<1> QED
  BY <1>1, Invariant, PTL

\* A one-time token makes one agent (POST enrollment of the gateway), whatever is
\* raced, lost, given back or crashes.
THEOREM TokensEnrollOnce == SpecIdentity => []EnrolledOnce
<1>1. IInv => EnrolledOnce
  BY DEF IInv
<1> QED
  BY <1>1, Invariant, PTL

\* A claim no handler of the gateway works on is explained by a crash, by a rollback
\* that failed or by an update that was committed although it threw.
THEOREM ClaimsAreExplained == SpecIdentity => []ClaimsAreHeld
<1>1. IInv => ClaimsAreHeld
  BY DEF IInv
<1> QED
  BY <1>1, Invariant, PTL

-----------------------------------------------------------------------------
(* Revocation *)

LEMMA OutStep ==
    ASSUME IdentityOK, [NextIdentity]_identityVars, NEW i \in DOMAIN agents, Out(i)
    PROVE  Out(i)'
\* A step that leaves the row alone and authenticates no heartbeat of it.
<1>1. ASSUME agents'[i] = agents[i],
             \A s \in Slots : slots'[s].at = "touch" => slots'[s] = slots[s]
      PROVE  Out(i)'
  BY <1>1 DEF Out
<1>2. CASE Console
  <2>1. ASSUME NEW j \in DOMAIN agents, Revoke(j)
        PROVE  Out(i)'
    <3>1. i # j /\ agents'[i] = agents[i]
      BY <2>1 DEF Revoke, Out, IdentityOK
    <3> QED
      BY <1>1, <2>1, <3>1 DEF Revoke
  <2> QED
    BY <1>1, <1>2, <2>1 DEF Console, CountPending, AuditToken, Mint, Expire
<1>3. ASSUME NEW m \in Machines, Agent(m)
      PROVE  Out(i)'
  <2>1. ASSUME NEW s \in Slots, Beat(m, s)
        PROVE  Out(i)'
    <3>1. /\ slots' = [slots EXCEPT ![s] = [at |-> "touch", token |-> {}, machine |-> {},
                                            row |-> machines[m].memory]]
          /\ machines[m].memory # i /\ agents' = agents
      BY <2>1 DEF Beat, Authenticates, Out
    <3> QED
      BY <3>1 DEF Out, IdentityOK
  <2>2. ASSUME NEW s \in Slots, NEW t \in Tokens, Boot(m, s, t)
        PROVE  Out(i)'
    BY <1>1, <2>2 DEF Boot, IdentityOK
  <2> QED
    BY <1>1, <1>3, <2>1, <2>2 DEF Agent, BootEnrolled, GiveUpEnroll, Save, TornSave, StopAgent
<1>4. ASSUME NEW s \in Slots, Gateway(s)
      PROVE  Out(i)'
  <2>1. CASE Touch(s)
    <3>1. slots[s].row # i /\ agents'[i] = agents[i]
      BY <2>1 DEF Touch, Out, IdentityOK
    <3> QED
      BY <1>1, <2>1, <3>1 DEF Touch, Free, IdentityOK
  <2>2. CASE Claim(s) \/ Create(s) \/ CreateFails(s)
    <3>1. agents'[i] = agents[i]
      <4>1. \A e : Append(agents, e)[i] = agents[i]
        BY DEF IdentityOK
      <4> QED
        BY <2>2, <4>1 DEF Claim, Create, CreateFails
    <3>2. \A r \in Slots : slots'[r].at = "touch" => slots'[r] = slots[r]
      BY <2>2 DEF Claim, Create, CreateFails, IdentityOK, Slot
    <3> QED
      BY <1>1, <3>1, <3>2
  <2>3. CASE RefuseClaim(s) \/ ClaimFails(s) \/ Rollback(s) \/ AnswerEnroll(s) \/ LoseAnswer(s)
    <3>1. agents' = agents /\ slots' = [slots EXCEPT ![s] = Free]
      BY <2>3 DEF RefuseClaim, ClaimFails, Rollback, AnswerEnroll, LoseAnswer, AnswerError
    <3> QED
      BY <1>1, <3>1 DEF Free, IdentityOK
  <2> QED
    BY <1>4, <2>1, <2>2, <2>3 DEF Gateway
<1>5. CASE GatewayCrash
  BY <1>1, <1>5 DEF GatewayCrash, Free
<1>6. CASE UNCHANGED identityVars
  BY <1>1, <1>6 DEF identityVars
<1> QED
  BY <1>2, <1>3, <1>4, <1>5, <1>6 DEF NextIdentity

\* The console's revoke: once an agent is revoked and the heartbeats authenticated
\* before that are over, nothing brings it back.
THEOREM RevokedStaysOut == SpecIdentity => OutStaysOut
<1>1. IInv /\ [NextIdentity]_identityVars
        => [\A i \in DOMAIN agents : Out(i) => Out(i)']_identityVars
  BY OutStep DEF IInv
<1> QED
  BY <1>1, Invariant, PTL DEF SpecIdentity, OutStaysOut

-----------------------------------------------------------------------------
(* The quota *)

Pending == {t \in Tokens : tokens[t].status \in {"active", "claiming"}}
Minting == {a \in Admins : admins[a].at = "mint"}

LEMMA Finite ==
    /\ IsFiniteSet(Pending) /\ IsFiniteSet(Minting) /\ IsFiniteSet(Admins)
    /\ Cardinality(Pending) \in Nat /\ Cardinality(Minting) \in Nat
    /\ Cardinality(Admins) \in Nat /\ Cardinality(Minting) <= Cardinality(Admins)
<1>1. IsFiniteSet(Tokens) /\ IsFiniteSet(Admins)
  BY IdentityAssumption
<1>2. Pending \subseteq Tokens /\ Minting \subseteq Admins
  BY DEF Pending, Minting
<1> QED
  BY <1>1, <1>2, FS_Subset, FS_CardinalityType

LEMMA BoundOf ==
    /\ PendingBounded
          <=> Cardinality(Pending) + Cardinality(Minting) < MaxPending + Cardinality(Admins)
    /\ PendingBounded'
          <=> Cardinality(Pending') + Cardinality(Minting') < MaxPending + Cardinality(Admins)
  BY DEF PendingBounded, Pending, Minting

LEMMA QuotaStep ==
    ASSUME IInv, PendingBounded, [NextIdentity]_identityVars
    PROVE  PendingBounded'
<1> USE Finite, IdentityAssumption
\* A step after which no more tokens are pending and no more handlers mint.
<1>1. ASSUME Pending' \subseteq Pending, Minting' \subseteq Minting
      PROVE  PendingBounded'
  <2>1. /\ Cardinality(Pending') <= Cardinality(Pending) /\ Cardinality(Pending') \in Nat
        /\ Cardinality(Minting') <= Cardinality(Minting) /\ Cardinality(Minting') \in Nat
    BY <1>1, FS_Subset, FS_CardinalityType
  <2> QED
    BY <2>1, BoundOf
<1>2. ASSUME NEW a \in Admins, CountPending(a)
      PROVE  PendingBounded'
  <2>1. Pending' = Pending /\ Minting' \subseteq Admins /\ Cardinality(Pending) < MaxPending
    BY <1>2 DEF CountPending, Pending, Minting
  <2>2. Cardinality(Minting') <= Cardinality(Admins) /\ Cardinality(Minting') \in Nat
    BY <2>1, FS_Subset, FS_CardinalityType
  <2> QED
    BY <2>1, <2>2, BoundOf
<1>3. ASSUME NEW a \in Admins, NEW t \in Tokens, Mint(a, t)
      PROVE  PendingBounded'
  <2>1. /\ a \in Minting /\ Minting' = Minting \ {a}
        /\ t \notin Pending /\ Pending' = Pending \cup {t}
    BY <1>3 DEF Mint, Pending, Minting, IInv, IdentityOK, TokenRow
  <2>2. /\ Cardinality(Minting') = Cardinality(Minting) - 1
        /\ Cardinality(Pending') = Cardinality(Pending) + 1
    BY <2>1, FS_AddElement, FS_RemoveElement
  <2> QED
    BY <2>2, BoundOf
<1>4. ASSUME NEW a \in Admins, AuditToken(a)
      PROVE  PendingBounded'
  <2>1. \A t \in Tokens : tokens'[t].status = tokens[t].status
    BY <1>4 DEF AuditToken, IInv, IdentityOK, TokenRow
  <2>2. Minting' \subseteq Minting
    BY <1>4 DEF AuditToken, Minting, IInv, IdentityOK
  <2> QED
    BY <1>1, <2>1, <2>2 DEF Pending
<1>5. ASSUME NEW t \in Tokens, Expire(t)
      PROVE  PendingBounded'
  <2>1. \A u \in Tokens : tokens'[u].status = tokens[u].status
    BY <1>5 DEF Expire, IInv, IdentityOK, TokenRow
  <2> QED
    BY <1>1, <1>5, <2>1 DEF Expire, Pending, Minting
\* A step that moves one token, which was pending.
<1>6. ASSUME NEW t \in Tokens, NEW x, t \in Pending, UNCHANGED admins,
             tokens' = [tokens EXCEPT ![t].status = x]
      PROVE  PendingBounded'
  <2>1. \A u \in Tokens \ {t} : tokens'[u] = tokens[u]
    BY <1>6, TokenMoves DEF IInv
  <2>2. Pending' \subseteq Pending
    BY <1>6, <2>1 DEF Pending
  <2>3. Minting' = Minting
    BY <1>6 DEF Minting
  <2> QED
    BY <1>1, <2>2, <2>3
<1>7. ASSUME NEW s \in Slots, Claim(s) \/ ClaimFails(s) \/ Create(s) \/ CreateFails(s)
      PROVE  PendingBounded'
  <2>1. PICK t \in Tokens : slots[s].token = {t}
    BY <1>7, HoldsOne DEF Claim, ClaimFails, Create, CreateFails
  <2>2. UNCHANGED admins
    BY <1>7 DEF Claim, ClaimFails, Create, CreateFails
  <2>3. CASE Claim(s) \/ ClaimFails(s)
    <3>1. \/ UNCHANGED tokens
          \/ /\ tokens[t].status = "active"
             /\ tokens' = [tokens EXCEPT ![t].status = "claiming"]
      BY <2>1, <2>3 DEF Claim, ClaimFails
    <3>2. CASE UNCHANGED tokens
      BY <1>1, <2>2, <3>2 DEF Pending, Minting
    <3> QED
      BY <1>6, <2>2, <3>1, <3>2 DEF Pending
  <2>4. CASE Create(s) \/ CreateFails(s)
    <3>1. slots[s].at = "create"
      BY <2>4 DEF Create, CreateFails
    <3>2. tokens[t].status = "claiming"
      BY <2>1, <3>1 DEF IInv, HandlersHold, Holds
    <3>3. UNCHANGED tokens \/ tokens' = [tokens EXCEPT ![t].status = "used"]
      BY <2>1, <2>4 DEF Create, CreateFails
    <3>4. CASE UNCHANGED tokens
      BY <1>1, <2>2, <3>4 DEF Pending, Minting
    <3> QED
      BY <1>6, <2>2, <3>2, <3>3, <3>4 DEF Pending
  <2> QED
    BY <1>7, <2>3, <2>4
<1>8. ASSUME NEW s \in Slots, Rollback(s)
      PROVE  PendingBounded'
  <2>1. \A t \in Tokens : \/ tokens'[t] = tokens[t]
                          \/ tokens[t].status = "claiming"
    BY <1>8 DEF Rollback, IInv, IdentityOK, TokenRow
  <2>2. Pending' \subseteq Pending
    BY <2>1 DEF Pending
  <2>3. Minting' = Minting
    BY <1>8 DEF Rollback, Minting
  <2> QED
    BY <1>1, <2>2, <2>3
<1>9. ASSUME UNCHANGED <<tokens, admins>>
      PROVE  PendingBounded'
  BY <1>1, <1>9 DEF Pending, Minting
<1>10. ASSUME NEW m \in Machines, Agent(m)
       PROVE  PendingBounded'
  BY <1>9, <1>10 DEF Agent, Beat, Boot, BootEnrolled, GiveUpEnroll, Save, TornSave, StopAgent
<1>11. CASE Console
  BY <1>2, <1>3, <1>4, <1>5, <1>9, <1>11 DEF Console, Revoke
<1>12. ASSUME NEW s \in Slots, Gateway(s)
       PROVE  PendingBounded'
  BY <1>7, <1>8, <1>9, <1>12 DEF Gateway, RefuseClaim, AnswerEnroll, LoseAnswer, Touch
<1> QED
  BY <1>9, <1>10, <1>11, <1>12 DEF NextIdentity, GatewayCrash, identityVars

\* The quota of createToken is passed by no more than the requests that counted
\* before one of them added its token.
THEOREM QuotaNearlyHolds == SpecIdentity => []PendingBounded
<1>1. InitIdentity => PendingBounded
  <2> SUFFICES ASSUME InitIdentity PROVE PendingBounded
    OBVIOUS
  <2>1. Pending = {} /\ Minting = {}
    BY DEF InitIdentity, Pending, Minting
  <2>2. Cardinality({}) = 0
    BY FS_EmptySet
  <2> QED
    BY <2>1, <2>2, Finite, BoundOf, IdentityAssumption
<1> QED
  BY <1>1, QuotaStep, Invariant, PTL DEF SpecIdentity

-----------------------------------------------------------------------------
(* Agents and machines *)

\* What an agent process has in memory is in its file as well, except between the
\* answer and Save; it enrolls, by one call, only without either.
Keeps(k) ==
    /\ k.at \in {"down", "enrolling"} => k.memory = NoRow
    /\ k.at \in {"enrolling", "saving"} => k.file = NoRow
    /\ k.at = "running" => k.memory = k.file
    /\ k.at = "enrolling" => \E s \in Slots : k.call = {s}
MachinesKeep == \A m \in Machines : Keeps(machines[m])

\* No answer, file or gateway was lost.
Calm == idFaults \subseteq {"dbError", "claimLost", "rollbackError"}

\* Then every enrollment the gateway works on is waited for.
Waited ==
    Calm => \A s \in Slots : slots[s].at \in {"claim", "create", "rollback", "answer"} =>
                \E m \in Machines : Waits(m, s)

HeldInv == IdentityOK /\ MachinesKeep /\ Waited /\ AgentsAreHeld

\* Somebody has the credential of row i, or is about to get it.
HasRow(i) ==
    \/ \E m \in Machines : i \in {machines[m].memory, machines[m].file}
    \/ \E s \in Slots : slots[s].at = "answer" /\ slots[s].row = i

LEMMA KeepsTyped ==
    ASSUME HeldInv, NEW m \in Machines
    PROVE  machines[m] \in Machine /\ Keeps(machines[m])
  BY DEF HeldInv, IdentityOK, MachinesKeep

\* The ways a machine moves.
LEMMA Restarted ==
    ASSUME HeldInv, NEW m \in Machines
    PROVE  /\ Keeps(Down) /\ Keeps(RunFails(m))
           /\ RunFails(m).file = machines[m].file /\ RunFails(m).at = "down"
           /\ RunFails(m).memory = NoRow
  BY DEF Keeps, Down, RunFails, NoRow

LEMMA ErrorMoves ==
    ASSUME HeldInv, NEW s \in Slots, AnswerError(s)
    PROVE  /\ \A m \in Machines : \/ ~Waits(m, s) /\ machines'[m] = machines[m]
                                  \/ Waits(m, s) /\ machines'[m] = RunFails(m)
           /\ slots'[s] = Free /\ \A r \in Slots \ {s} : slots'[r] = slots[r]
  BY DEF AnswerError, HeldInv, IdentityOK

LEMMA AnswerMoves ==
    ASSUME HeldInv, NEW s \in Slots, AnswerEnroll(s)
    PROVE  /\ \A m \in Machines :
                 \/ ~Waits(m, s) /\ machines'[m] = machines[m]
                 \/ /\ Waits(m, s) /\ machines'[m].at = "saving"
                    /\ machines'[m].memory = slots[s].row
                    /\ machines'[m].file = machines[m].file
           /\ slots'[s] = Free /\ \A r \in Slots \ {s} : slots'[r] = slots[r]
<1>1. \A m \in Machines : machines[m] \in Machine
  BY DEF HeldInv, IdentityOK
<1> QED
  BY <1>1 DEF AnswerEnroll, HeldInv, IdentityOK, Machine

LEMMA MachinesStep ==
    ASSUME HeldInv, [NextIdentity]_identityVars
    PROVE  MachinesKeep'
<1>1. ASSUME UNCHANGED machines
      PROVE  MachinesKeep'
  BY <1>1 DEF HeldInv, MachinesKeep
<1>2. ASSUME NEW m \in Machines, Keeps(machines'[m]),
             \A n \in Machines \ {m} : machines'[n] = machines[n]
      PROVE  MachinesKeep'
  BY <1>2 DEF HeldInv, MachinesKeep
<1>3. ASSUME NEW m \in Machines, Agent(m)
      PROVE  MachinesKeep'
  <2>0. machines[m] \in Machine /\ Keeps(machines[m]) /\ machines \in [Machines -> Machine]
    BY KeepsTyped DEF HeldInv, IdentityOK
  <2>1. ASSUME NEW s \in Slots, NEW t \in Tokens, Boot(m, s, t)
        PROVE  MachinesKeep'
    <3>1. /\ machines'[m].at = "enrolling" /\ machines'[m].call = {s}
          /\ machines'[m].memory = machines[m].memory /\ machines'[m].file = NoRow
          /\ machines[m].at = "down" /\ \A n \in Machines \ {m} : machines'[n] = machines[n]
      BY <2>0, <2>1 DEF Boot, Machine
    <3>2. Keeps(machines'[m])
      BY <2>0, <3>1 DEF Keeps
    <3> QED
      BY <1>2, <3>1, <3>2
  <2>2. CASE BootEnrolled(m) \/ Save(m)
    <3>1. /\ machines'[m].at = "running" /\ machines'[m].memory = machines'[m].file
          /\ \A n \in Machines \ {m} : machines'[n] = machines[n]
      BY <2>0, <2>2 DEF BootEnrolled, Save, Machine
    <3>2. Keeps(machines'[m])
      BY <3>1 DEF Keeps
    <3> QED
      BY <1>2, <3>1, <3>2
  <2>3. CASE GiveUpEnroll(m) \/ TornSave(m) \/ StopAgent(m)
    <3>1. /\ machines'[m] = RunFails(m) \/ machines'[m] = Down
          /\ \A n \in Machines \ {m} : machines'[n] = machines[n]
      BY <2>0, <2>3 DEF GiveUpEnroll, TornSave, StopAgent
    <3> QED
      BY <1>2, <3>1, Restarted
  <2>4. CASE \E s \in Slots : Beat(m, s)
    BY <1>1, <2>4 DEF Beat
  <2> QED
    BY <1>3, <2>1, <2>2, <2>3, <2>4 DEF Agent
<1>4. ASSUME NEW s \in Slots, AnswerError(s)
      PROVE  MachinesKeep'
  BY <1>4, ErrorMoves, Restarted DEF HeldInv, MachinesKeep
<1>5. ASSUME NEW s \in Slots, AnswerEnroll(s)
      PROVE  MachinesKeep'
  <2> SUFFICES ASSUME NEW m \in Machines
               PROVE  Keeps(machines'[m])
    BY DEF MachinesKeep
  <2>1. CASE Waits(m, s)
    <3>1. machines[m].at = "enrolling" /\ Keeps(machines[m])
      BY <2>1, KeepsTyped DEF Waits
    <3>2. machines'[m].at = "saving" /\ machines'[m].file = NoRow
      BY <1>5, <2>1, <3>1, AnswerMoves DEF Keeps
    <3> QED
      BY <3>2 DEF Keeps
  <2>2. CASE ~Waits(m, s)
    BY <1>5, <2>2, AnswerMoves, KeepsTyped
  <2> QED
    BY <2>1, <2>2
<1>6. CASE GatewayCrash
  BY <1>6, Restarted DEF GatewayCrash, HeldInv, MachinesKeep
<1>7. ASSUME NEW s \in Slots, Gateway(s)
      PROVE  MachinesKeep'
  BY <1>1, <1>4, <1>5, <1>7
     DEF Gateway, Claim, RefuseClaim, ClaimFails, Create, CreateFails, Rollback, LoseAnswer, Touch
<1>8. CASE Console \/ UNCHANGED identityVars
  BY <1>1, <1>8 DEF Console, CountPending, AuditToken, Mint, Expire, Revoke, identityVars
<1> QED
  BY <1>3, <1>6, <1>7, <1>8 DEF NextIdentity

\* Faults are not forgotten.
LEMMA CalmBefore ==
    ASSUME Calm', [NextIdentity]_identityVars
    PROVE  /\ Calm /\ ~GatewayCrash
           /\ \A m \in Machines : ~GiveUpEnroll(m) /\ ~TornSave(m)
           /\ \A s \in Slots : ~LoseAnswer(s) /\ ~IdFault("lostAnswer")
<1>1. ASSUME NEW kind, IdFault(kind)
      PROVE  kind \in {"dbError", "claimLost", "rollbackError"} /\ Calm
  BY <1>1 DEF IdFault, Calm
<1>2. /\ ~GatewayCrash /\ ~IdFault("lostAnswer")
      /\ \A m \in Machines : ~GiveUpEnroll(m) /\ ~TornSave(m)
      /\ \A s \in Slots : ~LoseAnswer(s)
  BY <1>1 DEF GatewayCrash, GiveUpEnroll, TornSave, LoseAnswer
<1>3. idFaults' = idFaults \/ \E kind : IdFault(kind)
  <2>1. CASE Console
    BY <2>1 DEF Console, CountPending, AuditToken, Mint, Expire, Revoke
  <2>2. ASSUME NEW m \in Machines, Agent(m)
        PROVE  idFaults' = idFaults \/ \E kind : IdFault(kind)
    BY <2>2 DEF Agent, Beat, Boot, BootEnrolled, GiveUpEnroll, Save, TornSave, StopAgent
  <2>3. ASSUME NEW s \in Slots, Gateway(s)
        PROVE  idFaults' = idFaults \/ \E kind : IdFault(kind)
    BY <2>3 DEF Gateway, Claim, RefuseClaim, ClaimFails, Create, CreateFails, Rollback,
                AnswerEnroll, LoseAnswer, Touch
  <2>4. CASE GatewayCrash \/ UNCHANGED identityVars
    BY <2>4 DEF GatewayCrash, identityVars
  <2> QED
    BY <2>1, <2>2, <2>3, <2>4 DEF NextIdentity
<1>4. Calm
  BY <1>1, <1>3 DEF Calm
<1> QED
  BY <1>2, <1>4

LEMMA WaitedStep ==
    ASSUME HeldInv, [NextIdentity]_identityVars
    PROVE  Waited'
<1> DEFINE Works(r) == slots[r].at \in {"claim", "create", "rollback", "answer"}
<1> SUFFICES ASSUME Calm', NEW r \in Slots,
                    slots'[r].at \in {"claim", "create", "rollback", "answer"}
             PROVE  \E m \in Machines : Waits(m, r)'
  BY DEF Waited
<1>1. /\ Calm /\ ~GatewayCrash
      /\ \A m \in Machines : ~GiveUpEnroll(m) /\ ~TornSave(m)
      /\ \A s \in Slots : ~LoseAnswer(s) /\ ~IdFault("lostAnswer")
  BY CalmBefore
<1>2. Works(r) => \E m \in Machines : Waits(m, r)
  BY <1>1 DEF HeldInv, Waited
<1>3. slots \in [Slots -> Slot] /\ machines \in [Machines -> Machine]
  BY DEF HeldInv, IdentityOK
<1>4. ASSUME Works(r), \A m \in Machines : Waits(m, r) => machines'[m] = machines[m]
      PROVE  \E m \in Machines : Waits(m, r)'
  BY <1>2, <1>4 DEF Waits
\* A machine waits for one call.
<1>5. \A m \in Machines, s \in Slots : Waits(m, s) /\ Waits(m, r) => s = r
  BY KeepsTyped DEF Waits, Keeps
<1>6. ASSUME NEW m \in Machines, Agent(m)
      PROVE  \E n \in Machines : Waits(n, r)'
  <2>1. ASSUME NEW s \in Slots, NEW t \in Tokens, Boot(m, s, t)
        PROVE  \E n \in Machines : Waits(n, r)'
    <3>1. /\ machines'[m].at = "enrolling" /\ machines'[m].call = {s}
          /\ machines[m].at = "down" /\ \A n \in Machines \ {m} : machines'[n] = machines[n]
          /\ \A q \in Slots \ {s} : slots'[q] = slots[q]
      BY <1>3, <2>1 DEF Boot, Machine
    <3>2. CASE r = s
      BY <3>1, <3>2 DEF Waits
    <3>3. CASE r # s
      BY <1>4, <3>1, <3>3 DEF Waits
    <3> QED
      BY <3>2, <3>3
  <2>2. CASE BootEnrolled(m) \/ Save(m) \/ StopAgent(m)
    <3>1. /\ machines[m].at # "enrolling" /\ slots' = slots
          /\ \A n \in Machines \ {m} : machines'[n] = machines[n]
      BY <1>3, <2>2 DEF BootEnrolled, Save, StopAgent
    <3> QED
      BY <1>4, <3>1 DEF Waits
  <2>3. ASSUME NEW s \in Slots, Beat(m, s)
        PROVE  \E n \in Machines : Waits(n, r)'
    <3>1. machines' = machines /\ slots'[s].at = "touch" /\ \A q \in Slots \ {s} : slots'[q] = slots[q]
      BY <1>3, <2>3 DEF Beat
    <3> QED
      BY <1>4, <3>1
  <2> QED
    BY <1>1, <1>6, <2>1, <2>2, <2>3 DEF Agent
<1>7. ASSUME NEW s \in Slots, Claim(s) \/ Create(s) \/ CreateFails(s) \/ Touch(s)
      PROVE  \E n \in Machines : Waits(n, r)'
  <2>1. machines' = machines /\ \A q \in Slots \ {s} : slots'[q] = slots[q]
    BY <1>3, <1>7 DEF Claim, Create, CreateFails, Touch
  <2>2. CASE Touch(s)
    <3>1. slots'[s].at = "idle"
      BY <1>3, <2>2 DEF Touch, Free
    <3> QED
      BY <1>4, <2>1, <3>1
  <2>3. CASE Claim(s) \/ Create(s) \/ CreateFails(s)
    <3>1. Works(s)
      BY <2>3 DEF Claim, Create, CreateFails
    <3> QED
      BY <1>4, <2>1, <3>1
  <2> QED
    BY <1>7, <2>2, <2>3
<1>8. ASSUME NEW s \in Slots, AnswerError(s) \/ AnswerEnroll(s)
      PROVE  \E n \in Machines : Waits(n, r)'
  <2>1. /\ slots'[s] = Free /\ \A q \in Slots \ {s} : slots'[q] = slots[q]
        /\ \A m \in Machines : ~Waits(m, s) => machines'[m] = machines[m]
    BY <1>8, ErrorMoves, AnswerMoves
  <2>2. r # s /\ Works(r)
    BY <2>1 DEF Free
  <2> QED
    BY <1>4, <1>5, <2>1, <2>2
<1>9. ASSUME NEW s \in Slots, Gateway(s)
      PROVE  \E n \in Machines : Waits(n, r)'
  BY <1>1, <1>7, <1>8, <1>9 DEF Gateway, RefuseClaim, ClaimFails, Rollback
<1>10. CASE Console \/ UNCHANGED identityVars
  <2>1. machines' = machines /\ slots' = slots
    BY <1>10 DEF Console, CountPending, AuditToken, Mint, Expire, Revoke, identityVars
  <2> QED
    BY <1>4, <2>1
<1> QED
  BY <1>1, <1>6, <1>9, <1>10 DEF NextIdentity

LEMMA AgentsHeldStep ==
    ASSUME HeldInv, [NextIdentity]_identityVars
    PROVE  AgentsAreHeld'
<1> SUFFICES ASSUME Calm', NEW i \in DOMAIN agents'
             PROVE  HasRow(i)'
  BY DEF AgentsAreHeld, Calm, HasRow
<1>1. /\ Calm /\ ~GatewayCrash
      /\ \A m \in Machines : ~GiveUpEnroll(m) /\ ~TornSave(m)
      /\ \A s \in Slots : ~LoseAnswer(s) /\ ~IdFault("lostAnswer")
  BY CalmBefore
<1>2. /\ slots \in [Slots -> Slot] /\ machines \in [Machines -> Machine]
      /\ agents \in Seq(AgentRow)
  BY DEF HeldInv, IdentityOK
<1>3. i \in DOMAIN agents => HasRow(i)
  BY <1>1 DEF HeldInv, AgentsAreHeld, Calm, HasRow
\* Nobody who has the row loses it.
<1>4. ASSUME i \in DOMAIN agents,
             \A m \in Machines : i \in {machines[m].memory, machines[m].file}
                                 => i \in {machines'[m].memory, machines'[m].file},
             \A s \in Slots : slots[s].at = "answer" => slots'[s] = slots[s]
      PROVE  HasRow(i)'
  BY <1>3, <1>4 DEF HasRow
<1>5. ASSUME NEW m \in Machines, Agent(m)
      PROVE  HasRow(i)'
  <2>0. machines[m] \in Machine /\ Keeps(machines[m])
    BY KeepsTyped
  <2>1. agents' = agents /\ i \in DOMAIN agents /\ i # NoRow
    BY <1>2, <1>5 DEF Agent, Beat, Boot, BootEnrolled, GiveUpEnroll, Save, TornSave, StopAgent,
                      NoRow
  <2>2. ASSUME NEW s \in Slots, NEW t \in Tokens, Boot(m, s, t)
        PROVE  HasRow(i)'
    <3>1. /\ slots[s].at = "idle" /\ \A q \in Slots \ {s} : slots'[q] = slots[q]
          /\ machines'[m].memory = machines[m].memory /\ machines'[m].file = machines[m].file
          /\ \A n \in Machines \ {m} : machines'[n] = machines[n]
      BY <1>2, <2>0, <2>2 DEF Boot, Free, Machine
    <3> QED
      BY <1>4, <2>1, <3>1
  <2>3. CASE BootEnrolled(m)
    <3>1. /\ machines[m].memory = NoRow /\ machines'[m].file = machines[m].file /\ slots' = slots
          /\ \A n \in Machines \ {m} : machines'[n] = machines[n]
      BY <1>2, <2>0, <2>3 DEF BootEnrolled, Machine, Keeps
    <3> QED
      BY <1>4, <2>1, <3>1
  <2>4. CASE Save(m)
    <3>1. /\ machines[m].file = NoRow /\ machines'[m].memory = machines[m].memory
          /\ slots' = slots /\ \A n \in Machines \ {m} : machines'[n] = machines[n]
      BY <1>2, <2>0, <2>4 DEF Save, Machine, Keeps
    <3> QED
      BY <1>4, <2>1, <3>1
  <2>5. CASE StopAgent(m)
    <3>1. /\ machines[m].memory = machines[m].file /\ machines'[m] = RunFails(m)
          /\ slots' = slots /\ \A n \in Machines \ {m} : machines'[n] = machines[n]
      BY <1>2, <2>0, <2>5 DEF StopAgent, Keeps
    <3>2. machines'[m].file = machines[m].file
      BY <3>1, Restarted
    <3> QED
      BY <1>4, <2>1, <3>1, <3>2
  <2>6. ASSUME NEW s \in Slots, Beat(m, s)
        PROVE  HasRow(i)'
    <3>1. /\ machines' = machines /\ slots[s].at = "idle"
          /\ \A q \in Slots \ {s} : slots'[q] = slots[q]
      BY <1>2, <2>6 DEF Beat, Free
    <3> QED
      BY <1>4, <2>1, <3>1
  <2> QED
    BY <1>1, <1>5, <2>2, <2>3, <2>4, <2>5, <2>6 DEF Agent
\* The gateway's own steps.
<1>6. ASSUME NEW s \in Slots, Create(s)
      PROVE  HasRow(i)'
  <2>1. /\ slots[s].at = "create" /\ machines' = machines
        /\ slots'[s].at = "answer" /\ slots'[s].row = Len(agents) + 1
        /\ \A q \in Slots \ {s} : slots'[q] = slots[q]
    BY <1>2, <1>6 DEF Create, Slot
  <2>2. PICK t \in slots[s].token : agents' = Append(agents, [token |-> t, status |-> "online"])
    BY <1>6 DEF Create
  <2>3. i \in DOMAIN agents \/ i = Len(agents) + 1
    BY <1>2, <2>2
  <2>4. CASE i \in DOMAIN agents
    BY <1>4, <2>1, <2>4
  <2>5. CASE i = Len(agents) + 1
    BY <2>1, <2>5 DEF HasRow
  <2> QED
    BY <2>3, <2>4, <2>5
<1>7. ASSUME NEW s \in Slots, AnswerEnroll(s)
      PROVE  HasRow(i)'
  <2>0. i \in DOMAIN agents /\ i # NoRow /\ slots[s].at = "answer"
    <3>1. agents' = agents /\ slots[s].at = "answer"
      BY <1>7 DEF AnswerEnroll
    <3>2. i \in DOMAIN agents
      BY <3>1
    <3> QED
      BY <1>2, <3>1, <3>2 DEF NoRow
  <2>1. /\ slots'[s] = Free /\ \A q \in Slots \ {s} : slots'[q] = slots[q]
        /\ \A m \in Machines :
              \/ ~Waits(m, s) /\ machines'[m] = machines[m]
              \/ /\ Waits(m, s) /\ machines'[m].memory = slots[s].row
                 /\ machines'[m].file = machines[m].file
    BY <1>7, AnswerMoves
  <2>2. PICK w \in Machines : Waits(w, s)
    BY <1>1, <2>0 DEF HeldInv, Waited
  <2>3. CASE slots[s].row = i
    BY <2>1, <2>2, <2>3 DEF HasRow
  <2>4. CASE slots[s].row # i
    <3>1. \A m \in Machines : Waits(m, s) => machines[m].memory = NoRow
      BY KeepsTyped DEF Waits, Keeps
    <3>2. \A m \in Machines : i \in {machines[m].memory, machines[m].file}
                              => i \in {machines'[m].memory, machines'[m].file}
      BY <2>0, <2>1, <3>1
    <3> QED
      BY <1>3, <2>0, <2>1, <2>4, <3>2 DEF HasRow
  <2> QED
    BY <2>3, <2>4
<1>8. ASSUME NEW s \in Slots, AnswerError(s), slots[s].at # "answer", agents' = agents
      PROVE  HasRow(i)'
  <2>1. /\ \A q \in Slots \ {s} : slots'[q] = slots[q]
        /\ \A m \in Machines : \/ machines'[m] = machines[m]
                               \/ Waits(m, s) /\ machines'[m] = RunFails(m)
    BY <1>8, ErrorMoves
  <2>2. \A m \in Machines : Waits(m, s) => machines[m].memory = NoRow
    BY KeepsTyped DEF Waits, Keeps
  <2>3. i \in DOMAIN agents /\ i # NoRow
    BY <1>2, <1>8 DEF NoRow
  <2> QED
    BY <1>4, <1>8, <2>1, <2>2, <2>3, Restarted
<1>9. ASSUME NEW s \in Slots, Claim(s) \/ CreateFails(s) \/ Touch(s)
      PROVE  HasRow(i)'
  <2>1. /\ machines' = machines /\ \A q \in Slots \ {s} : slots'[q] = slots[q]
        /\ slots[s].at # "answer"
    BY <1>2, <1>9 DEF Claim, CreateFails, Touch
  <2>2. i \in DOMAIN agents
    BY <1>1, <1>9 DEF Claim, CreateFails, Touch
  <2> QED
    BY <1>4, <2>1, <2>2
<1>12. ASSUME NEW s \in Slots, ClaimFails(s)
       PROVE  HasRow(i)'
  BY <1>8, <1>12 DEF ClaimFails
<1>10. ASSUME NEW s \in Slots, Gateway(s)
       PROVE  HasRow(i)'
  BY <1>1, <1>6, <1>7, <1>8, <1>9, <1>10, <1>12 DEF Gateway, RefuseClaim, Rollback
<1>11. CASE Console \/ UNCHANGED identityVars
  <2>1. machines' = machines /\ slots' = slots /\ i \in DOMAIN agents
    BY <1>11 DEF Console, CountPending, AuditToken, Mint, Expire, Revoke, identityVars
  <2> QED
    BY <1>4, <2>1
<1> QED
  BY <1>1, <1>5, <1>10, <1>11 DEF NextIdentity

\* As long as no answer, file or gateway is lost, no failed enrollment, rollback or
\* restart leaves an agent in the table that no machine has.
THEOREM NoAgentLeftBehind == SpecIdentity => []AgentsAreHeld
<1>1. InitIdentity => HeldInv
  <2> SUFFICES ASSUME InitIdentity PROVE HeldInv
    OBVIOUS
  <2>1. IdentityOK
    BY InvInit DEF IInv
  <2>2. MachinesKeep
    BY DEF InitIdentity, MachinesKeep, Keeps, Down
  <2>3. Waited /\ AgentsAreHeld
    BY DEF InitIdentity, Waited, AgentsAreHeld, Free
  <2> QED
    BY <2>1, <2>2, <2>3 DEF HeldInv
<1>2. HeldInv /\ [NextIdentity]_identityVars => HeldInv'
  BY TypesStep, MachinesStep, WaitedStep, AgentsHeldStep DEF HeldInv
<1>3. HeldInv => AgentsAreHeld
  BY DEF HeldInv
<1> QED
  BY <1>1, <1>2, <1>3, PTL DEF SpecIdentity
=============================================================================
