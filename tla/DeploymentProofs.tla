-------------------------- MODULE DeploymentProofs --------------------------
(***************************************************************************)
(* The handover of the admin role, what mainnet-deploy has done when it    *)
(* says so, and the wired core of a testnet, for any number of instances,  *)
(* starts and faults, and faults at any kind of step.                      *)
(***************************************************************************)
EXTENDS Deployment, TLAPS

USE DeploymentAssumption, GovernanceAssumption

\* The running script is a record of its eight fields.
RunFields(r) ==
  r = [script |-> r.script, pc |-> r.pc, try |-> r.try, ids |-> r.ids, tx |-> r.tx,
       out |-> r.out, eta |-> r.eta, bad |-> r.bad]

Statuses == {"absent", "Queued", "Executed", "Cancelled"}

GovTyped ==
  /\ now \in Nat
  /\ DOMAIN admin = Contracts /\ nominee \in [Contracts -> {"none", "governance"}]
  /\ proposal \in [Contracts -> [status : Statuses, eta : Int]]
  /\ queuedAt \in [Contracts -> Nat]

\* Times travel from the clock through a script and its transactions to a proposal.
TimesTyped ==
  /\ RunFields(run) /\ run.eta \in Int
  /\ \A t \in txs : t.eta \in Int

\* A proposal is queued for a time that is a timelock away.
QueuedAhead ==
  \A c \in Contracts : proposal[c].status = "Queued" => proposal[c].eta >= queuedAt[c] + MinDelay

\* Only a contract that has an admin has a nominee.
Nominated == \A c \in Contracts : nominee[c] = "governance" => admin[c] # "none"

GovInv == GovTyped /\ TimesTyped /\ QueuedAhead /\ Nominated
-----------------------------------------------------------------------------
(* What a step makes of the running script. *)

LEMMA Moves ==
  ASSUME NEW i, RunFields(run), MoveTo(i)
  PROVE  /\ RunFields(run') /\ run'.script = run.script /\ run'.pc = i /\ run'.ids = run.ids
         /\ run'.out = "none" /\ run'.try = 1 /\ (run'.eta = run.eta \/ run'.eta = now + MinDelay + Margin)
<1>. DEFINE eta == IF IsCeremony(run.script, i) /\ ~IsCeremony(run.script, i - 1)
                   THEN now + MinDelay + Margin ELSE run.eta
<1>1. run' = [run EXCEPT !.pc = i, !.try = 1, !.tx = NoTx, !.out = "none", !.eta = eta]
  BY DEF MoveTo
<1>2. eta = run.eta \/ eta = now + MinDelay + Margin
  OBVIOUS
<1>. HIDE DEF eta
<1>3. run' = [script |-> run.script, pc |-> i, try |-> 1, ids |-> run.ids, tx |-> NoTx,
              out |-> "none", eta |-> eta, bad |-> run.bad]
  BY <1>1, Zenon DEF RunFields
<1>. QED
  BY <1>2, <1>3 DEF RunFields
-----------------------------------------------------------------------------
(* The handover of the admin role. *)

\* The calls on governance and on the admin role, by whoever makes them.
GovernanceCall ==
  \/ \E c : Initialize(c) \/ NominateAdmin(c) \/ Execute(c) \/ Cancel(c)
  \/ \E c, eta : eta \in Int /\ Queue(c, eta)
  \/ \E flag : EmergencyPause(flag)
  \/ Tick
  \/ UNCHANGED govVars

HandoverStep ==
  \A c \in Contracts : admin'[c] # admin[c] /\ admin[c] # "none" =>
    /\ admin'[c] = "governance" /\ nominee[c] = "governance" /\ ~paused
    /\ proposal[c].status = "Queued" /\ now >= queuedAt[c] + MinDelay

LEMMA CallsKeepTimelock ==
  ASSUME GovTyped, QueuedAhead, GovernanceCall
  PROVE  GovTyped' /\ QueuedAhead' /\ HandoverStep
<1>1. CASE \E c : Initialize(c)
  <2>. PICK c : Initialize(c)
    BY <1>1
  <2>. QED
    BY DEF Initialize, CanInitialize, GovTyped, QueuedAhead, HandoverStep
<1>2. CASE \E c : NominateAdmin(c)
  <2>. PICK c : NominateAdmin(c)
    BY <1>2
  <2>. QED
    BY DEF NominateAdmin, GovTyped, QueuedAhead, HandoverStep
<1>3. CASE \E c : Execute(c)
  <2>. PICK c : Execute(c)
    BY <1>3
  <2>1. GovTyped'
    BY DEF Execute, CanExecute, GovTyped, Statuses
  <2>2. QueuedAhead'
    BY DEF Execute, GovTyped, QueuedAhead
  <2>3. HandoverStep
    BY DEF Execute, CanExecute, GovTyped, QueuedAhead, HandoverStep
  <2>. QED
    BY <2>1, <2>2, <2>3
<1>4. CASE \E c : Cancel(c)
  <2>. PICK c : Cancel(c)
    BY <1>4
  <2>. QED
    BY DEF Cancel, GovTyped, QueuedAhead, HandoverStep, Statuses
<1>5. CASE \E c, eta : eta \in Int /\ Queue(c, eta)
  <2>. PICK c, eta : eta \in Int /\ Queue(c, eta)
    BY <1>5
  <2>1. GovTyped' /\ HandoverStep
    BY DEF Queue, GovTyped, HandoverStep, Statuses
  <2>2. QueuedAhead'
    BY DEF Queue, CanQueue, GovTyped, QueuedAhead
  <2>. QED
    BY <2>1, <2>2
<1>6. CASE \E flag : EmergencyPause(flag)
  BY <1>6 DEF EmergencyPause, GovTyped, QueuedAhead, HandoverStep
<1>7. CASE Tick
  BY <1>7 DEF Tick, GovTyped, QueuedAhead, HandoverStep
<1>8. CASE UNCHANGED govVars
  BY <1>8 DEF govVars, GovTyped, QueuedAhead, HandoverStep
<1>. QED
  BY <1>1, <1>2, <1>3, <1>4, <1>5, <1>6, <1>7, <1>8 DEF GovernanceCall

LEMMA CallsKeepNominated ==
  ASSUME GovTyped, Nominated, GovernanceCall
  PROVE  Nominated'
<1>1. CASE \E c : Initialize(c) \/ NominateAdmin(c) \/ Execute(c)
  BY <1>1 DEF Initialize, NominateAdmin, CanNominate, Execute, CanExecute, GovTyped, Nominated
<1>2. CASE UNCHANGED <<admin, nominee>>
  BY <1>2 DEF Nominated
<1>. QED
  BY <1>1, <1>2 DEF GovernanceCall, Cancel, Queue, EmergencyPause, Tick, govVars

\* What the network does to governance, and to the script that waits for it.
LEMMA LandCalls ==
  ASSUME TimesTyped, NEW t \in txs, Land(t) \/ Drop(t)
  PROVE  GovernanceCall
<1>1. CASE Land(t)
  <2>1. t.eta \in Int
    BY DEF TimesTyped
  <2>2. CASE LandCeremony(t)
    BY <2>1, <2>2 DEF LandCeremony, GovernanceCall
  <2>3. CASE LandInit(t)
    BY <2>3 DEF LandInit, GovernanceCall
  <2>4. CASE UNCHANGED govVars
    BY <2>4 DEF GovernanceCall
  <2>. QED
    BY <1>1, <2>2, <2>3, <2>4 DEF Land, LandPlain, LandDeploy, LandSet, LandDeposit
<1>2. CASE Drop(t)
  BY <1>2 DEF Drop, GovernanceCall
<1>. QED
  BY <1>1, <1>2

LEMMA NextCalls ==
  ASSUME TimesTyped, [Next]_vars
  PROVE  GovernanceCall
<1>1. CASE \E t \in txs : Land(t) \/ Drop(t)
  BY <1>1, LandCalls
<1>2. CASE \E c \in Contracts : CancelProposal(c)
  BY <1>2 DEF CancelProposal, GovernanceCall
<1>3. CASE \E flag \in BOOLEAN : GuardianPause(flag)
  BY <1>3 DEF GuardianPause, GovernanceCall
<1>4. CASE Wait
  BY <1>4 DEF Wait, GovernanceCall
<1>5. CASE UNCHANGED govVars
  BY <1>5 DEF GovernanceCall
<1>6. CASE \E s \in Scripts : Start(s)
  BY <1>6, <1>5 DEF Start
<1>. QED
  BY <1>1, <1>2, <1>3, <1>4, <1>5, <1>6
  DEF Next, Skip, LocalStep, Submit, Confirm, SimFails, FailedOnChain, Missed, Crash, Finish, Adopt, KeepSystem, vars
-----------------------------------------------------------------------------
(* The running script, in every step. *)

LEMMA Answers ==
  ASSUME NEW o, RunFields(run), run' = [run EXCEPT !.out = o]
  PROVE  /\ RunFields(run') /\ run'.script = run.script /\ run'.pc = run.pc /\ run'.ids = run.ids
         /\ run'.tx = run.tx /\ run'.out = o /\ run'.try = run.try /\ run'.eta = run.eta
<1>1. run' = [script |-> run.script, pc |-> run.pc, try |-> run.try, ids |-> run.ids, tx |-> run.tx,
              out |-> o, eta |-> run.eta, bad |-> run.bad]
  BY Zenon DEF RunFields
<1>. QED
  BY <1>1 DEF RunFields

LEMMA Dies ==
  ASSUME Die
  PROVE  /\ RunFields(run') /\ run'.script = "idle" /\ run'.pc = 1 /\ run'.ids = First
         /\ run'.out = "none" /\ run'.try = 1 /\ run'.eta = 0
BY DEF Die, Idle, RunFields

LEMMA Retries ==
  ASSUME RunFields(run), run' = [run EXCEPT !.try = @ + 1, !.tx = NoTx, !.out = "none"]
  PROVE  /\ RunFields(run') /\ run'.script = run.script /\ run'.pc = run.pc /\ run'.ids = run.ids
         /\ run'.out = "none" /\ run'.try = run.try + 1 /\ run'.eta = run.eta
<1>1. run' = [script |-> run.script, pc |-> run.pc, try |-> run.try + 1, ids |-> run.ids, tx |-> NoTx,
              out |-> "none", eta |-> run.eta, bad |-> run.bad]
  BY Zenon DEF RunFields
<1>. QED
  BY <1>1 DEF RunFields

LEMMA Checks ==
  ASSUME NEW b, RunFields(run), run' = [run EXCEPT !.pc = @ + 1, !.bad = b]
  PROVE  /\ RunFields(run') /\ run'.script = run.script /\ run'.pc = run.pc + 1 /\ run'.ids = run.ids
         /\ run'.out = run.out /\ run'.try = run.try /\ run'.eta = run.eta
<1>1. run' = [script |-> run.script, pc |-> run.pc + 1, try |-> run.try, ids |-> run.ids, tx |-> run.tx,
              out |-> run.out, eta |-> run.eta, bad |-> b]
  BY Zenon DEF RunFields
<1>. QED
  BY <1>1 DEF RunFields

\* What Submit makes of the running script.
Sent(t, ids) == [run EXCEPT !.tx = t, !.out = "pending", !.ids = ids]

LEMMA Sends ==
  ASSUME NEW t, NEW ids, RunFields(run), run' = Sent(t, ids)
  PROVE  /\ RunFields(run') /\ run'.script = run.script /\ run'.pc = run.pc /\ run'.ids = ids
         /\ run'.tx = t /\ run'.out = "pending" /\ run'.try = run.try /\ run'.eta = run.eta
<1>1. run' = [script |-> run.script, pc |-> run.pc, try |-> run.try, ids |-> ids, tx |-> t,
              out |-> "pending", eta |-> run.eta, bad |-> run.bad]
  BY Zenon DEF RunFields, Sent
<1>. QED
  BY <1>1 DEF RunFields

\* The step of a script that fails: it moves on, tries again or ends.
LEMMA Reacts ==
  ASSUME NEW kind, RunFields(run), React(kind)
  PROVE  \/ MoveTo(run.pc + 1)
         \/ run' = [run EXCEPT !.try = @ + 1, !.tx = NoTx, !.out = "none"]
         \/ Die
BY DEF React

LEMMA ScriptStarts ==
  ASSUME NEW s, Start(s)
  PROVE  /\ RunFields(run') /\ run'.script = s /\ run'.pc = 1 /\ run'.out = "none" /\ run'.try = 1
         /\ run'.eta = now + MinDelay + Margin \/ run'.eta = 0
         /\ s # "rewire" => run'.ids = config
<1>1. CASE s # "rewire"
  <2>1. run' = [Idle EXCEPT !.script = s, !.ids = config, !.eta = now + MinDelay + Margin]
    BY <1>1 DEF Start
  <2>2. run' = [script |-> s, pc |-> 1, try |-> 1, ids |-> config, tx |-> NoTx, out |-> "none",
                eta |-> now + MinDelay + Margin, bad |-> FALSE]
    BY <2>1, Zenon DEF Idle
  <2>. QED
    BY <2>2, <1>1 DEF RunFields
<1>2. CASE s = "rewire"
  <2>1. PICK ids : run' = [Idle EXCEPT !.script = s, !.ids = ids]
    BY <1>2 DEF Start
  <2>2. run' = [script |-> s, pc |-> 1, try |-> 1, ids |-> ids, tx |-> NoTx, out |-> "none",
                eta |-> 0, bad |-> FALSE]
    BY <2>1, Zenon DEF Idle
  <2>. QED
    BY <2>2, <1>2 DEF RunFields
<1>. QED
  BY <1>1, <1>2

LEMMA TimesStart ==
  ASSUME NEW s, GovTyped, TimesTyped, Start(s)
  PROVE  TimesTyped'
<1>1. txs' = txs
  BY DEF Start
<1>. QED
  BY <1>1, ScriptStarts DEF GovTyped, TimesTyped, Margin

LEMMA TimesReact ==
  ASSUME NEW kind, GovTyped, TimesTyped, React(kind), txs' = txs
  PROVE  TimesTyped'
<1>1. CASE MoveTo(run.pc + 1)
  BY <1>1, Moves DEF GovTyped, TimesTyped, Margin
<1>2. CASE run' = [run EXCEPT !.try = @ + 1, !.tx = NoTx, !.out = "none"]
  BY <1>2, Retries DEF TimesTyped
<1>3. CASE Die
  BY <1>3, Dies DEF TimesTyped
<1>. QED
  BY <1>1, <1>2, <1>3, Reacts DEF TimesTyped

LEMMA SubmitSends ==
  ASSUME Submit, RunFields(run)
  PROVE  \E a \in AddressOf(Now) : \E ids :
           LET t == TxOf(Now, a)
           IN /\ Valid(t) /\ txs' = txs \cup {t} /\ run' = Sent(t, ids)
              /\ ids = IF Now.op = "deploy" THEN [run.ids EXCEPT ![Now.name] = a] ELSE run.ids
<1>. PICK a \in AddressOf(Now) :
        /\ Valid(TxOf(Now, a)) /\ txs' = txs \cup {TxOf(Now, a)}
        /\ run' = [run EXCEPT !.tx = TxOf(Now, a), !.out = "pending",
                              !.ids = IF Now.op = "deploy" THEN [@ EXCEPT ![Now.name] = a] ELSE @]
  BY Zenon DEF Submit
<1>. QED
  BY Zenon DEF Sent

LEMMA TimesSubmit ==
  ASSUME TimesTyped, Submit
  PROVE  TimesTyped'
<1>. PICK a, ids : txs' = txs \cup {TxOf(Now, a)} /\ run' = Sent(TxOf(Now, a), ids)
  BY SubmitSends DEF TimesTyped
<1>1. TxOf(Now, a).eta \in Int
  BY DEF TxOf, TimesTyped
<1>. HIDE DEF TxOf
<1>. QED
  BY <1>1, Sends DEF TimesTyped

LEMMA TimesNetwork ==
  ASSUME NEW t \in txs, TimesTyped, Land(t) \/ Drop(t)
  PROVE  TimesTyped'
<1>1. PICK o : run' = [run EXCEPT !.out = o]
  <2>1. CASE Land(t)
    <3>1. \E ok : Landed(t, ok)
      BY <2>1 DEF Land
    <3>. QED
      BY <3>1, Zenon DEF Landed
  <2>2. CASE Drop(t)
    BY <2>2, Zenon DEF Drop
  <2>. QED
    BY <2>1, <2>2
<1>2. txs' \subseteq txs
  BY DEF Land, Landed, Drop
<1>. QED
  BY <1>1, <1>2, Answers DEF TimesTyped

LEMMA TimesCancel ==
  ASSUME NEW c, TimesTyped, CancelProposal(c)
  PROVE  TimesTyped'
<1>1. txs' = {} /\ \E o : run' = [run EXCEPT !.out = o]
  BY Zenon DEF CancelProposal
<1>. QED
  BY <1>1, Answers DEF TimesTyped

LEMMA TimesLocal ==
  ASSUME GovTyped, TimesTyped, LocalStep
  PROVE  TimesTyped'
<1>1. txs' = txs
  BY DEF LocalStep
<1>2. CASE Die
  BY <1>1, <1>2, Dies DEF TimesTyped
<1>3. CASE MoveTo(run.pc + 1)
  BY <1>1, <1>3, Moves DEF GovTyped, TimesTyped, Margin
<1>4. CASE \E b : run' = [run EXCEPT !.pc = @ + 1, !.bad = b]
  BY <1>1, <1>4, Checks DEF TimesTyped
<1>. QED
  BY <1>2, <1>3, <1>4, Zenon DEF LocalStep

LEMMA TimesNext ==
  ASSUME GovTyped, TimesTyped, [Next]_vars
  PROVE  TimesTyped'
<1>1. CASE \E s \in Scripts : Start(s)
  BY <1>1, TimesStart
<1>2. CASE Skip \/ Confirm
  <2>1. MoveTo(run.pc + 1) /\ txs' = txs
    BY <1>2 DEF Skip, Confirm
  <2>. QED
    BY <2>1, Moves DEF GovTyped, TimesTyped, Margin
<1>3. CASE LocalStep
  BY <1>3, TimesLocal
<1>4. CASE Submit
  BY <1>4, TimesSubmit
<1>5. CASE SimFails \/ FailedOnChain \/ Missed
  <2>1. txs' = txs /\ \E kind : React(kind)
    BY <1>5 DEF SimFails, FailedOnChain, Missed
  <2>. QED
    BY <2>1, TimesReact
<1>6. CASE Crash \/ Finish
  <2>1. Die /\ txs' = txs
    BY <1>6 DEF Crash, Finish
  <2>. QED
    BY <2>1, Dies DEF TimesTyped
<1>7. CASE \E t \in txs : Land(t) \/ Drop(t)
  BY <1>7, TimesNetwork
<1>8. CASE \E c \in Contracts : CancelProposal(c)
  BY <1>8, TimesCancel
<1>9. CASE UNCHANGED <<run, txs>>
  BY <1>9 DEF TimesTyped
<1>. QED
  BY <1>1, <1>2, <1>3, <1>4, <1>5, <1>6, <1>7, <1>8, <1>9
  DEF Next, Adopt, GuardianPause, Wait, depVars, vars

\* GovInv is an inductive invariant.
LEMMA GovInvariant == Spec => []GovInv
<1>1. Init => GovInv
  <2>. HAVE Init
  <2>1. PICK owner : GovInit(owner) /\ DOMAIN owner = Contracts
    BY DEF Init
  <2>2. GovTyped /\ QueuedAhead /\ Nominated
    BY <2>1 DEF GovInit, GovTyped, QueuedAhead, Nominated, Statuses
  <2>3. TimesTyped
    BY DEF Init, TimesTyped, RunFields, Idle
  <2>. QED
    BY <2>2, <2>3 DEF GovInv
<1>2. GovInv /\ [Next]_vars => GovInv'
  BY TimesNext, NextCalls, CallsKeepTimelock, CallsKeepNominated DEF GovInv
<1>. QED
  BY <1>1, <1>2, PTL DEF Spec

\* Governance becomes the admin of a contract only by a proposal for which it was
\* nominated and that waited for the timelock, whatever the scripts, the network
\* and the clock do (perp-governance queue and execute, execute-admin-handover.ts).
THEOREM HandoverWaits == Spec => HandoverTimelocked
<1>1. GovInv /\ [Next]_vars => HandoverStep
  BY NextCalls, CallsKeepTimelock DEF GovInv
<1>. QED
  BY <1>1, GovInvariant, PTL DEF Spec, HandoverTimelocked, HandoverStep
-----------------------------------------------------------------------------
(* The steps of the mainnet scripts. *)

\* What a slot names: a contract, or data.
Target(s) == IF s \in NameSet THEN s ELSE Configured

PlainOps == {"ops", "upload", "deploy", "init", "seedMarkets", "trust", "swap", "deposit", "pay",
             "nominate", "queue", "execute", "check", "pause", "unpause"}
ContractOps == {"upload", "deploy", "init", "set"}

\* No step of a mainnet script points a slot at anything but what the slot names.
MainnetSteps ==
  {st \in [op : PlainOps \cup {"set"}, name : NameSet \cup {""}, slot : Slots \cup {""}, to : NameSet \cup {"", Configured}] :
     /\ st.op \in ContractOps => st.name \in NameSet
     /\ st.op = "set" => st.slot \in Slots /\ st.to = Target(st.slot)}

LEMMA NameSetIs ==
  NameSet = {"oracle", "vault", "risk", "engine", "gateway", "insurance", "liquidation", "governance"}
<1>1. DOMAIN Names = 1..8
  BY DEF Names
<1>2. \A i \in 1..8 : i = 1 \/ i = 2 \/ i = 3 \/ i = 4 \/ i = 5 \/ i = 6 \/ i = 7 \/ i = 8
  OBVIOUS
<1>3. NameSet = {Names[i] : i \in 1..8}
  BY <1>1, Zenon DEF NameSet, Range
<1>4. /\ Names[1] = "oracle" /\ Names[2] = "vault" /\ Names[3] = "risk" /\ Names[4] = "engine"
      /\ Names[5] = "gateway" /\ Names[6] = "insurance" /\ Names[7] = "liquidation" /\ Names[8] = "governance"
  BY DEF Names
<1>. QED
  BY <1>2, <1>3, <1>4

LEMMA PutStep ==
  ASSUME NEW n \in NameSet, NEW s \in Slots \ NameSet
  PROVE  Put(n, s) \in MainnetSteps
BY DEF Put, Step, MainnetSteps, Target, Configured

LEMMA CallStep ==
  ASSUME NEW n \in NameSet, NEW s \in Slots \cap NameSet
  PROVE  Call(n, s) \in MainnetSteps
BY NameSetIs DEF Call, Step, MainnetSteps, Target

\* A step that names no slot.
Plain(op, n) == Step(op, n, "", "")

LEMMA PlainStep ==
  ASSUME NEW op \in PlainOps, NEW n \in NameSet
  PROVE  Plain(op, n) \in MainnetSteps
BY DEF Plain, Step, MainnetSteps, PlainOps

LEMMA LocalSteps ==
  ASSUME NEW op \in PlainOps \ ContractOps
  PROVE  Plain(op, "") \in MainnetSteps
<1>. DEFINE st == [op |-> op, name |-> "", slot |-> "", to |-> ""]
<1>1. st \in [op : PlainOps \cup {"set"}, name : NameSet \cup {""}, slot : Slots \cup {""}, to : NameSet \cup {"", Configured}]
  OBVIOUS
<1>2. st.op \notin ContractOps /\ st.op # "set"
  BY DEF ContractOps
<1>. HIDE DEF st
<1>3. st \in MainnetSteps
  BY <1>1, <1>2 DEF MainnetSteps
<1>. QED
  BY <1>3 DEF Plain, Step, st

LEMMA EachStep ==
  ASSUME NEW op \in PlainOps, NEW names \in Seq(NameSet)
  PROVE  Each(op, names) \in Seq(MainnetSteps)
<1>. DEFINE step(i) == Plain(op, names[i])
<1>1. \A i \in 1..Len(names) : step(i) \in MainnetSteps
  BY PlainStep
<1>2. Each(op, names) = [i \in 1..Len(names) |-> step(i)]
  BY DEF Each, Plain
<1>3. Len(names) \in Nat
  OBVIOUS
<1>. HIDE DEF step, MainnetSteps
<1>4. \A n \in Nat : (\A i \in 1..n : step(i) \in MainnetSteps)
        => [i \in 1..n |-> step(i)] \in Seq(MainnetSteps)
  OBVIOUS
<1>. QED
  BY <1>1, <1>2, <1>3, <1>4

LEMMA PlanParts ==
  /\ MainnetAccounts \in Seq(MainnetSteps) /\ MainnetUpload \in Seq(MainnetSteps)
  /\ MainnetInstances \in Seq(MainnetSteps) /\ MainnetInit \in Seq(MainnetSteps)
  /\ MainnetWire \in Seq(MainnetSteps) /\ MainnetMarket \in Seq(MainnetSteps)
  /\ MainnetGuards \in Seq(MainnetSteps) /\ MainnetTtl \in Seq(MainnetSteps)
  /\ SeedMarkets \in Seq(MainnetSteps)
<1>1. MainnetAccounts \in Seq(MainnetSteps)
  <2>1. \A st \in MainnetSteps : <<st>> \in Seq(MainnetSteps)
    OBVIOUS
  <2>2. Plain("ops", "") \in MainnetSteps
    BY LocalSteps DEF PlainOps, ContractOps
  <2>. QED
    BY <2>1, <2>2, Zenon DEF MainnetAccounts, Plain
<1>2. Names \in Seq(NameSet)
  BY NameSetIs DEF Names
<1>3. /\ MainnetUpload \in Seq(MainnetSteps) /\ MainnetInstances \in Seq(MainnetSteps)
      /\ MainnetInit \in Seq(MainnetSteps)
  BY <1>2, EachStep DEF MainnetUpload, MainnetInstances, MainnetInit, PlainOps
<1>4. MainnetWire \in Seq(MainnetSteps)
  <2>1. /\ Call("vault", "engine") \in MainnetSteps /\ Call("engine", "gateway") \in MainnetSteps
        /\ Call("engine", "insurance") \in MainnetSteps /\ Call("engine", "liquidation") \in MainnetSteps
        /\ Call("vault", "insurance") \in MainnetSteps /\ Call("vault", "liquidation") \in MainnetSteps
        /\ Call("insurance", "vault") \in MainnetSteps
    BY CallStep, NameSetIs DEF Slots
  <2>2. /\ Put("gateway", "operator") \in MainnetSteps /\ Put("gateway", "domain") \in MainnetSteps
        /\ Put("vault", "collateral") \in MainnetSteps
    BY PutStep, NameSetIs DEF Slots
  <2>. QED
    BY <2>1, <2>2 DEF MainnetWire
<1>5. MainnetMarket \in Seq(MainnetSteps)
  BY PutStep, NameSetIs DEF MainnetMarket, CoreMarket, Slots
<1>6. MainnetGuards \in Seq(MainnetSteps)
  BY PutStep, NameSetIs DEF MainnetGuards, Slots
<1>7. MainnetTtl \in Seq(MainnetSteps)
  BY PutStep, NameSetIs DEF MainnetTtl, Slots
<1>8. SeedMarkets \in Seq(MainnetSteps)
  <2>1. \A st \in MainnetSteps : <<st>> \in Seq(MainnetSteps)
    OBVIOUS
  <2>2. Plain("seedMarkets", "") \in MainnetSteps
    BY LocalSteps DEF PlainOps, ContractOps
  <2>. QED
    BY <2>1, <2>2, Zenon DEF SeedMarkets, Plain
<1>. QED
  BY <1>1, <1>3, <1>4, <1>5, <1>6, <1>7, <1>8

LEMMA MainnetPlanSteps == MainnetPlan \in Seq(MainnetSteps)
BY PlanParts DEF MainnetPlan

LEMMA ScriptSteps ==
  ASSUME NEW s \in MainnetScripts
  PROVE  Plan(s) \in Seq(MainnetSteps)
<1>1. CASE s = "mainnet-deploy"
  BY <1>1, MainnetPlanSteps DEF Plan
<1>2. CASE s = "seed-insurance"
  <2>1. Plain("deposit", "insurance") \in MainnetSteps
    BY PlainStep, NameSetIs DEF PlainOps
  <2>2. /\ Plain("trust", "") \in MainnetSteps /\ Plain("swap", "") \in MainnetSteps
        /\ Plain("pay", "") \in MainnetSteps
    BY LocalSteps DEF PlainOps, ContractOps
  <2>3. \A a, b, c, d \in MainnetSteps : <<a, b, c, d>> \in Seq(MainnetSteps)
    OBVIOUS
  <2>4. SeedPlan = <<Plain("trust", ""), Plain("swap", ""), Plain("deposit", "insurance"), Plain("pay", "")>>
    BY Zenon DEF SeedPlan, Plain
  <2>5. SeedPlan \in Seq(MainnetSteps)
    BY <2>1, <2>2, <2>3, <2>4, Zenon
  <2>. QED
    BY <1>2, <2>5 DEF Plan
<1>3. CASE s \in {"nominate", "queue", "execute"}
  <2>1. Targets \in Seq(NameSet)
    BY NameSetIs DEF Targets
  <2>2. s \in PlainOps
    BY <1>3 DEF PlainOps
  <2>3. Each(s, Targets) \in Seq(MainnetSteps)
    BY <2>1, <2>2, EachStep
  <2>. QED
    BY <1>3, <2>3 DEF Plan, GovernancePhase
<1>4. CASE s = "verify"
  <2>1. /\ Plain("check", "") \in MainnetSteps /\ Plain("pause", "") \in MainnetSteps
        /\ Plain("unpause", "") \in MainnetSteps
    BY LocalSteps DEF PlainOps, ContractOps
  <2>2. \A a, b, c \in MainnetSteps : <<a, b, c>> \in Seq(MainnetSteps)
    OBVIOUS
  <2>3. VerifyPlan = <<Plain("check", ""), Plain("pause", ""), Plain("unpause", "")>>
    BY Zenon DEF VerifyPlan, Plain
  <2>4. VerifyPlan \in Seq(MainnetSteps)
    BY <2>1, <2>2, <2>3, Zenon
  <2>. QED
    BY <1>4, <2>4 DEF Plan
<1>. QED
  BY <1>1, <1>2, <1>3, <1>4 DEF MainnetScripts

\* The predicted instances have distinct addresses.
LEMMA Firsts ==
  /\ First \in [NameSet -> Addresses]
  /\ \A n \in NameSet : First[n].name = n
  /\ \A m, n \in NameSet : First[m] = First[n] => m = n
  /\ \A n \in NameSet : [First EXCEPT ![n] = First[n]] = First
<1>1. \A n \in NameSet : First[n] = [name |-> n, gen |-> 1]
  BY Zenon DEF First, Address
<1>2. \A n \in NameSet : [name |-> n, gen |-> 1] \in Addresses
  BY DEF Addresses, Address
<1>3. DOMAIN First = NameSet /\ First = [n \in NameSet |-> First[n]]
  BY DEF First
<1>. QED
  BY <1>1, <1>2, <1>3

\* initialize stores one value per slot, and never a contract under another's slot.
LEMMA Refs ==
  ASSUME NEW n \in NameSet, NEW r \in InitRefs(n)
  PROVE  /\ r[1] \in Slots \ {"ttl"} /\ r[2] \in NameSet \cup {"eoa", Configured}
         /\ <<r[1], r[1]>> \in InitRefs(n) => r[2] = r[1]
BY NameSetIs DEF InitRefs, Slots, Configured
-----------------------------------------------------------------------------
(* The chain of the mainnet. *)

\* A step whose effect stays: what a contract stores is written after its
\* initialize, which would overwrite it.
Done(st) ==
  /\ EffectHolds(st)
  /\ st.op = "set" /\ st.slot # "ttl" => admin[First[st.name]] # "none"

\* The transactions of the mainnet scripts act on the predicted instances.
OnFirst(t) ==
  /\ t.ids = First
  /\ t.op \in ContractOps => \E n \in NameSet : t.at = First[n]
  /\ t.op = "set" => t.slot \in Slots /\ t.to = Target(t.slot)

Values == Addresses \cup {None} \cup {Address(d, 0) : d \in {"eoa", Configured}}

ChainTyped ==
  /\ slot \in [Addresses -> [Slots -> Values]]
  /\ admin \in [Addresses -> {"none", "eoa", "governance"}]
  /\ inst \subseteq Range(First)

\* The references that initialize stores are never changed.
RefsHold ==
  \A n \in NameSet, s \in NameSet :
    <<s, s>> \in InitRefs(n) /\ admin[First[n]] # "none" => slot[First[n]][s] = First[s]

ChainInv == ChainTyped /\ RefsHold

\* What was done stays done.
DoneStays == \A st \in MainnetSteps : Done(st) => Done(st)'

LEMMA ValueOf ==
  ASSUME NEW d \in NameSet \cup {"eoa", Configured}
  PROVE  Value(First, d) \in Values /\ (d \in NameSet => Value(First, d) = First[d])
BY Firsts DEF Value, Values

LEMMA SameChain ==
  ASSUME ChainInv, UNCHANGED <<code, inst, slot, admin>>
  PROVE  ChainInv' /\ DoneStays
<1>1. ChainInv'
  BY DEF ChainInv, ChainTyped, RefsHold
<1>2. DoneStays
  BY DEF DoneStays, Done, EffectHolds
<1>. QED
  BY <1>1, <1>2

\* Done, for each kind of step.
LEMMA DoneIs ==
  ASSUME NEW st \in MainnetSteps
  PROVE  /\ st.op = "upload" => (Done(st) <=> st.name \in code)
         /\ st.op = "deploy" => (Done(st) <=> First[st.name] \in inst)
         /\ st.op = "init" => (Done(st) <=> admin[First[st.name]] # "none")
         /\ st.op = "set" => (Done(st) <=> /\ slot[First[st.name]][st.slot] = Value(First, st.to)
                                           /\ st.slot # "ttl" => admin[First[st.name]] # "none")
         /\ st.op \notin ContractOps => Done(st)
BY DEF Done, EffectHolds, ContractOps

LEMMA DoneNext ==
  ASSUME NEW st \in MainnetSteps
  PROVE  /\ st.op = "upload" => (Done(st)' <=> st.name \in code')
         /\ st.op = "deploy" => (Done(st)' <=> First[st.name] \in inst')
         /\ st.op = "init" => (Done(st)' <=> admin'[First[st.name]] # "none")
         /\ st.op = "set" => (Done(st)' <=> /\ slot'[First[st.name]][st.slot] = Value(First, st.to)
                                            /\ st.slot # "ttl" => admin'[First[st.name]] # "none")
         /\ st.op \notin ContractOps => Done(st)'
BY DEF Done, EffectHolds, ContractOps

LEMMA PlainLands ==
  ASSUME ChainInv, NEW t, OnFirst(t), LandPlain(t) \/ LandDeploy(t)
  PROVE  ChainInv' /\ DoneStays
<1>1. UNCHANGED <<slot, admin>> /\ code \subseteq code' /\ inst \subseteq inst' /\ inst' \subseteq inst \cup {t.at}
  BY DEF LandPlain, LandDeploy, govVars
<1>2. inst' \subseteq Range(First)
  <2>1. CASE inst' = inst
    BY <2>1 DEF ChainInv, ChainTyped
  <2>2. CASE t.op = "deploy"
    <3>1. PICK n \in NameSet : t.at = First[n]
      BY <2>2 DEF OnFirst, ContractOps
    <3>2. First[n] \in Range(First)
      BY Firsts DEF Range
    <3>. QED
      BY <3>1, <3>2, <1>1 DEF ChainInv, ChainTyped
  <2>. QED
    BY <2>1, <2>2 DEF LandPlain, LandDeploy
<1>3. ChainInv'
  BY <1>1, <1>2 DEF ChainInv, ChainTyped, RefsHold
<1>4. DoneStays
  <2>. SUFFICES ASSUME NEW st \in MainnetSteps, Done(st)
                PROVE  Done(st)'
    BY DEF DoneStays
  <2>1. st.op \notin ContractOps \/ st.op = "upload" \/ st.op = "deploy" \/ st.op = "init" \/ st.op = "set"
    BY DEF ContractOps
  <2>. QED
    BY <1>1, <2>1, DoneIs, DoneNext
<1>. QED
  BY <1>3, <1>4

LEMMA SetLands ==
  ASSUME ChainInv, NEW t, OnFirst(t), LandSet(t)
  PROVE  ChainInv' /\ DoneStays
<1>1. PICK n \in NameSet : t.at = First[n]
  BY DEF LandSet, OnFirst, ContractOps
<1>2. t.slot \in Slots /\ t.to = Target(t.slot) /\ t.ids = First
  BY DEF LandSet, OnFirst
<1>3. /\ slot' = [slot EXCEPT ![First[n]][t.slot] = Value(First, Target(t.slot))]
      /\ UNCHANGED <<code, inst, admin>>
  BY <1>1, <1>2 DEF LandSet, govVars
<1>4. Value(First, Target(t.slot)) \in Values /\ (t.slot \in NameSet => Value(First, Target(t.slot)) = First[t.slot])
  BY ValueOf DEF Target
<1>5. First[n] \in Addresses
  BY Firsts
<1>6. ChainTyped'
  BY <1>2, <1>3, <1>4, <1>5 DEF ChainInv, ChainTyped
<1>7. \A a \in Addresses, s \in Slots :
        slot'[a][s] = IF a = First[n] /\ s = t.slot THEN Value(First, Target(t.slot)) ELSE slot[a][s]
  BY <1>2, <1>3, <1>5 DEF ChainInv, ChainTyped
<1>8. RefsHold'
  <2>. SUFFICES ASSUME NEW m \in NameSet, NEW s \in NameSet, <<s, s>> \in InitRefs(m), admin[First[m]] # "none"
                PROVE  slot'[First[m]][s] = First[s]
    BY <1>3 DEF RefsHold
  <2>1. s \in Slots
    BY Refs
  <2>. QED
    BY <2>1, <1>4, <1>7, Firsts DEF ChainInv, RefsHold
<1>9. DoneStays
  <2>. SUFFICES ASSUME NEW st \in MainnetSteps, Done(st)
                PROVE  Done(st)'
    BY DEF DoneStays
  <2>1. CASE st.op = "set"
    <3>1. st.name \in NameSet /\ st.slot \in Slots /\ st.to = Target(st.slot)
      BY <2>1 DEF MainnetSteps, ContractOps
    <3>2. First[st.name] \in Addresses
      BY <3>1, Firsts
    <3>. QED
      BY <2>1, <3>1, <3>2, <1>3, <1>7, DoneIs, DoneNext
  <2>2. CASE st.op # "set"
    <3>1. st.op \notin ContractOps \/ st.op = "upload" \/ st.op = "deploy" \/ st.op = "init"
      BY <2>2 DEF ContractOps
    <3>. QED
      BY <1>3, <3>1, DoneIs, DoneNext
  <2>. QED
    BY <2>1, <2>2
<1>. QED
  BY <1>6, <1>8, <1>9 DEF ChainInv

\* What initialize stores in slot s of contract n.
RefsOf(n, s) == {r \in InitRefs(n) : r[1] = s}
RefOf(n, s) == (CHOOSE r \in RefsOf(n, s) : TRUE)[2]

LEMMA RefChosen ==
  ASSUME NEW n \in NameSet, NEW s \in Slots, RefsOf(n, s) # {}
  PROVE  /\ RefOf(n, s) \in NameSet \cup {"eoa", Configured} /\ s # "ttl"
         /\ <<s, s>> \in InitRefs(n) => RefOf(n, s) = s
<1>. DEFINE r == CHOOSE x \in RefsOf(n, s) : TRUE
<1>1. r \in RefsOf(n, s)
  OBVIOUS
<1>2. r \in InitRefs(n) /\ r[1] = s
  BY <1>1 DEF RefsOf
<1>3. RefOf(n, s) = r[2]
  BY DEF RefOf
<1>. HIDE DEF r
<1>. QED
  BY <1>2, <1>3, Refs

LEMMA InitLands ==
  ASSUME ChainInv, NEW t, OnFirst(t), LandInit(t)
  PROVE  ChainInv' /\ DoneStays
<1>1. PICK n \in NameSet : t.at = First[n]
  BY DEF LandInit, OnFirst, ContractOps
<1>. DEFINE stored == [s \in Slots |-> IF RefsOf(n, s) = {} THEN slot[First[n]][s]
                                       ELSE Value(First, RefOf(n, s))]
<1>2. /\ slot' = [slot EXCEPT ![First[n]] = stored]
      /\ admin' = [admin EXCEPT ![First[n]] = "eoa"] /\ admin[First[n]] = "none"
      /\ UNCHANGED <<code, inst>>
  <2>1. t.ids = First /\ t.at.name = n
    BY <1>1, Firsts DEF OnFirst
  <2>2. slot' = [slot EXCEPT ![t.at] = [s \in Slots |->
          IF RefsOf(t.at.name, s) = {} THEN slot[t.at][s] ELSE Value(t.ids, RefOf(t.at.name, s))]]
    BY Zenon DEF LandInit, RefsOf, RefOf
  <2>3. slot' = [slot EXCEPT ![First[n]] = stored]
    BY <1>1, <2>1, <2>2, Zenon
  <2>. QED
    BY <1>1, <2>3 DEF LandInit, Initialize, CanInitialize
<1>3. First[n] \in Addresses
  BY Firsts
<1>4. \A s \in Slots : stored[s] = IF RefsOf(n, s) = {} THEN slot[First[n]][s] ELSE Value(First, RefOf(n, s))
  OBVIOUS
<1>5. stored \in [Slots -> Values]
  BY <1>3, RefChosen, ValueOf DEF ChainInv, ChainTyped
<1>. HIDE DEF stored
<1>6. ChainTyped'
  BY <1>2, <1>3, <1>5 DEF ChainInv, ChainTyped
<1>7. /\ \A a \in Addresses : slot'[a] = IF a = First[n] THEN stored ELSE slot[a]
      /\ \A a \in Addresses : admin'[a] = IF a = First[n] THEN "eoa" ELSE admin[a]
  BY <1>2, <1>3 DEF ChainInv, ChainTyped
<1>8. RefsHold'
  <2>. SUFFICES ASSUME NEW m \in NameSet, NEW s \in NameSet, <<s, s>> \in InitRefs(m), admin'[First[m]] # "none"
                PROVE  slot'[First[m]][s] = First[s]
    BY DEF RefsHold
  <2>1. s \in Slots
    BY Refs
  <2>2. CASE m = n
    <3>1. RefsOf(n, s) # {}
      BY <2>2 DEF RefsOf
    <3>2. RefOf(n, s) = s
      BY <2>1, <2>2, <3>1, RefChosen
    <3>3. stored[s] = Value(First, s)
      BY <1>4, <2>1, <3>1, <3>2
    <3>. QED
      BY <1>3, <1>7, <2>2, <3>3, ValueOf
  <2>3. CASE m # n
    BY <1>7, <2>3, Firsts DEF ChainInv, RefsHold
  <2>. QED
    BY <2>2, <2>3
<1>9. DoneStays
  <2>. SUFFICES ASSUME NEW st \in MainnetSteps, Done(st)
                PROVE  Done(st)'
    BY DEF DoneStays
  <2>1. CASE st.op = "set"
    <3>1. st.name \in NameSet /\ st.slot \in Slots
      BY <2>1 DEF MainnetSteps, ContractOps
    <3>2. First[st.name] \in Addresses
      BY <3>1, Firsts
    <3>3. CASE st.slot = "ttl"
      <4>1. stored[st.slot] = slot[First[n]][st.slot]
        BY <3>1, <3>3, <1>4, RefChosen
      <4>. QED
        BY <2>1, <3>2, <3>3, <4>1, <1>7, DoneIs, DoneNext
    <3>4. CASE st.slot # "ttl"
      BY <2>1, <3>2, <3>4, <1>2, <1>7, DoneIs, DoneNext
    <3>. QED
      BY <3>3, <3>4
  <2>2. CASE st.op = "init"
    <3>1. First[st.name] \in Addresses
      BY <2>2, Firsts DEF MainnetSteps, ContractOps
    <3>. QED
      BY <2>2, <3>1, <1>7, DoneIs, DoneNext
  <2>3. CASE st.op \notin {"set", "init"}
    <3>1. st.op \notin ContractOps \/ st.op = "upload" \/ st.op = "deploy"
      BY <2>3 DEF ContractOps
    <3>. QED
      BY <1>2, <3>1, DoneIs, DoneNext
  <2>. QED
    BY <2>1, <2>2, <2>3
<1>. QED
  BY <1>6, <1>8, <1>9 DEF ChainInv

LEMMA CeremonyLands ==
  ASSUME ChainInv, GovTyped, Nominated, NEW t, LandCeremony(t)
  PROVE  ChainInv' /\ DoneStays
<1>1. CASE UNCHANGED admin
  BY <1>1, SameChain DEF LandCeremony, chain
<1>2. CASE Execute(t.at)
  <2>1. /\ admin' = [admin EXCEPT ![t.at] = "governance"] /\ nominee[t.at] = "governance"
        /\ UNCHANGED <<code, inst, slot>>
    BY <1>2 DEF LandCeremony, Execute, CanExecute, chain
  <2>2. /\ admin' \in [Addresses -> {"none", "eoa", "governance"}]
        /\ \A a \in Addresses : admin'[a] # "none" <=> admin[a] # "none"
    BY <2>1 DEF ChainInv, ChainTyped, Nominated
  <2>3. ChainInv'
    BY <2>1, <2>2, Firsts DEF ChainInv, ChainTyped, RefsHold
  <2>4. DoneStays
    <3>. SUFFICES ASSUME NEW st \in MainnetSteps, Done(st)
                  PROVE  Done(st)'
      BY DEF DoneStays
    <3>1. st.op \in ContractOps => First[st.name] \in Addresses
      BY Firsts DEF MainnetSteps
    <3>2. st.op \notin ContractOps \/ st.op = "upload" \/ st.op = "deploy" \/ st.op = "init" \/ st.op = "set"
      BY DEF ContractOps
    <3>. QED
      BY <2>1, <2>2, <3>1, <3>2, DoneIs, DoneNext DEF ContractOps
  <2>. QED
    BY <2>3, <2>4
<1>. QED
  BY <1>1, <1>2 DEF LandCeremony, NominateAdmin, Queue, EmergencyPause

LEMMA LandKeeps ==
  ASSUME ChainInv, GovTyped, Nominated, NEW t, OnFirst(t), Land(t) \/ Drop(t)
  PROVE  ChainInv' /\ DoneStays
<1>1. CASE UNCHANGED <<code, inst, slot, admin>>
  BY <1>1, SameChain
<1>. QED
  BY <1>1, PlainLands, InitLands, SetLands, CeremonyLands DEF Land, Drop, LandDeposit, chain, govVars

\* A transaction that succeeds has the effect of the step that sent it.
SentFor(t, st) ==
  /\ t.op = st.op /\ t.slot = st.slot /\ t.to = st.to /\ t.ids = First
  /\ st.name \in NameSet => t.at = First[st.name]

LandsOk(t) == LandPlain(t) \/ LandDeploy(t) \/ LandInit(t) \/ LandSet(t) \/ LandDeposit(t) \/ LandCeremony(t)

LEMMA LandDoes ==
  ASSUME ChainInv, NEW t, NEW st \in MainnetSteps, SentFor(t, st), LandsOk(t)
  PROVE  Done(st)'
<1>1. CASE st.op \notin ContractOps
  BY <1>1, DoneNext
<1>2. CASE st.op \in ContractOps
  <2>1. st.name \in NameSet /\ t.at = First[st.name] /\ t.at \in Addresses /\ t.at.name = st.name
    <3>1. st.name \in NameSet
      BY <1>2 DEF MainnetSteps
    <3>2. t.at = First[st.name]
      BY <3>1 DEF SentFor
    <3>. QED
      BY <3>1, <3>2, Firsts
  <2>2. t.op = st.op /\ t.op \notin {"ops", "trust", "swap", "pay", "deposit", "nominate", "queue", "execute", "pause", "unpause"}
    BY <1>2 DEF SentFor, ContractOps
  <2>3. CASE st.op = "upload"
    BY <2>1, <2>2, <2>3, DoneNext DEF LandsOk, LandPlain, LandDeploy, LandInit, LandSet, LandDeposit, LandCeremony
  <2>4. CASE st.op = "deploy"
    BY <2>1, <2>2, <2>4, DoneNext DEF LandsOk, LandPlain, LandDeploy, LandInit, LandSet, LandDeposit, LandCeremony
  <2>5. CASE st.op = "init"
    <3>1. LandInit(t)
      BY <2>2, <2>5 DEF LandsOk, LandPlain, LandDeploy, LandSet, LandDeposit, LandCeremony
    <3>2. admin'[t.at] = "eoa"
      BY <2>1, <3>1 DEF LandInit, Initialize, ChainInv, ChainTyped
    <3>. QED
      BY <2>1, <2>5, <3>2, DoneNext
  <2>6. CASE st.op = "set"
    <3>1. LandSet(t)
      BY <2>2, <2>6 DEF LandsOk, LandPlain, LandDeploy, LandInit, LandDeposit, LandCeremony
    <3>2. /\ slot' = [slot EXCEPT ![t.at][st.slot] = Value(First, st.to)] /\ UNCHANGED admin
          /\ st.slot = "ttl" \/ admin[t.at] = "eoa"
      BY <2>2, <2>6, <3>1 DEF LandSet, Valid, SentFor, govVars
    <3>3. st.slot \in Slots
      BY <2>6 DEF MainnetSteps
    <3>4. slot'[t.at][st.slot] = Value(First, st.to)
      BY <2>1, <3>2, <3>3 DEF ChainInv, ChainTyped
    <3>. QED
      BY <2>1, <2>6, <3>2, <3>4, DoneNext
  <2>. QED
    BY <1>2, <2>3, <2>4, <2>5, <2>6 DEF ContractOps
<1>. QED
  BY <1>1, <1>2
-----------------------------------------------------------------------------
(* The scripts of the mainnet. *)

\* The addresses the scripts use, give out and send to are the predicted ones.
Predicted ==
  /\ config = First /\ offer = First /\ run.ids = First
  /\ \A t \in txs : OnFirst(t)

\* How far the running mainnet-deploy is, and what it waits for.
DeployRuns ==
  /\ run.pc \in Nat \ {0}
  /\ run.script \in MainnetScripts \cup {"idle"}
  /\ run.script = "mainnet-deploy" =>
       /\ \A i \in DOMAIN MainnetPlan : i < run.pc => i \in file
       /\ run.out # "none" => run.pc \in DOMAIN MainnetPlan /\ MainnetPlan[run.pc].op \notin LocalOps
       /\ run.out = "pending" => SentFor(run.tx, MainnetPlan[run.pc])
       /\ run.out = "ok" => Done(MainnetPlan[run.pc])

FileDone == \A i \in file : i \in DOMAIN MainnetPlan /\ Done(MainnetPlan[i])
CompletedMarked == "mainnet-deploy" \in completed => DOMAIN MainnetPlan \subseteq file

MainnetInv == ChainInv /\ Predicted /\ DeployRuns /\ FileDone /\ CompletedMarked

\* No script of the testnet writes the checkpoint file.
TestnetInv == run.script # "mainnet-deploy" /\ file = {} /\ "mainnet-deploy" \notin completed

DeployInv ==
  /\ network \in {"mainnet", "testnet"}
  /\ IF network = "mainnet" THEN MainnetInv ELSE TestnetInv

\* The step at hand of a running script of the mainnet.
LEMMA NowIs ==
  ASSUME DeployRuns, Active
  PROVE  /\ Now \in MainnetSteps /\ run.script \in MainnetScripts /\ run.pc + 1 \in Nat \ {0}
         /\ run.script = "mainnet-deploy" => run.pc \in DOMAIN MainnetPlan /\ Now = MainnetPlan[run.pc]
<1>1. run.script # "idle"
  BY DEF Active, Running, Plan
<1>2. run.script \in MainnetScripts
  BY <1>1 DEF DeployRuns
<1>3. run.pc \in DOMAIN Plan(run.script) /\ Now = Plan(run.script)[run.pc]
  BY DEF Active, Running, Now
<1>4. Now \in MainnetSteps
  BY <1>2, <1>3, ScriptSteps
<1>5. Plan("mainnet-deploy") = MainnetPlan
  BY DEF Plan
<1>. QED
  BY <1>2, <1>3, <1>4, <1>5 DEF DeployRuns

\* What was done stays done, for the steps of the plan.
LEMMA FileStays ==
  ASSUME FileDone, DoneStays
  PROVE  \A i \in file : i \in DOMAIN MainnetPlan /\ Done(MainnetPlan[i])'
BY MainnetPlanSteps DEF FileDone, DoneStays

\* A script of the mainnet goes on to its next step; mainnet-deploy marks a step that is done.
LEMMA GoesOn ==
  ASSUME MainnetInv, Active, Mark, run'.script = run.script, run'.pc = run.pc + 1, run'.ids = run.ids,
         run.script = "mainnet-deploy" => Done(Now) /\ run'.out = "none",
         UNCHANGED <<code, inst, slot, admin, config, txs, completed>>, offer' = First
  PROVE  MainnetInv'
<1>1. ChainInv' /\ DoneStays
  BY SameChain DEF MainnetInv
<1>3. Predicted'
  BY DEF MainnetInv, Predicted, OnFirst
<1>4. file' = IF run.script = "mainnet-deploy" THEN file \cup {run.pc} ELSE file
  BY DEF Mark
<1>5. ASSUME NEW i, i = run.pc, run.script = "mainnet-deploy"
      PROVE  i \in DOMAIN MainnetPlan /\ Done(MainnetPlan[i])'
  <2>1. i \in DOMAIN MainnetPlan /\ Now = MainnetPlan[i] /\ Now \in MainnetSteps
    BY <1>5, NowIs DEF MainnetInv
  <2>2. Done(MainnetPlan[i])
    BY <1>5, <2>1
  <2>. QED
    BY <1>1, <2>1, <2>2 DEF DoneStays
<1>6. FileDone'
  BY <1>1, <1>4, <1>5, FileStays DEF MainnetInv, FileDone
<1>7. DeployRuns'
  <2>1. run.pc + 1 \in Nat \ {0} /\ run.script \in MainnetScripts
    BY NowIs DEF MainnetInv
  <2>2. run.script = "mainnet-deploy" => \A i \in DOMAIN MainnetPlan : i < run.pc + 1 => i \in file'
    <3>1. DOMAIN MainnetPlan \subseteq Int
      BY MainnetPlanSteps
    <3>. QED
      BY <1>4, <3>1 DEF MainnetInv, DeployRuns
  <2>. QED
    BY <2>1, <2>2 DEF DeployRuns
<1>8. CompletedMarked'
  BY <1>4 DEF MainnetInv, CompletedMarked
<1>. QED
  BY <1>1, <1>3, <1>6, <1>7, <1>8 DEF MainnetInv

\* A script of the mainnet tries its step again, or ends.
LEMMA StopsOrRetries ==
  ASSUME MainnetInv, run'.ids = First, run'.out = "none",
         \/ run'.script = run.script /\ run'.pc = run.pc
         \/ run'.script \in MainnetScripts \cup {"idle"} /\ run'.pc = 1,
         UNCHANGED <<code, inst, slot, admin, txs, file>>, config' = First, offer' = First,
         completed' = completed \/ DOMAIN MainnetPlan \subseteq file
  PROVE  MainnetInv'
<1>1. ChainInv' /\ DoneStays
  BY SameChain DEF MainnetInv
<1>2. Predicted'
  BY DEF MainnetInv, Predicted, OnFirst
<1>3. FileDone'
  BY <1>1, FileStays DEF MainnetInv, FileDone
<1>4. DeployRuns'
  <2>1. DOMAIN MainnetPlan \subseteq Nat \ {0}
    BY MainnetPlanSteps
  <2>2. \A i \in DOMAIN MainnetPlan : ~(i < 1)
    BY <2>1
  <2>. QED
    BY <2>2 DEF MainnetInv, DeployRuns
<1>5. CompletedMarked'
  BY DEF MainnetInv, CompletedMarked
<1>. QED
  BY <1>1, <1>2, <1>3, <1>4, <1>5 DEF MainnetInv

\* mainnet-deploy goes on after a failure only where the effect is on chain or is none.
LEMMA NextIsDone ==
  ASSUME MainnetInv, Active, run.script = "mainnet-deploy", NEW kind,
         Reaction(run.script, Now, kind) = "next"
  PROVE  Done(Now)
<1>. DEFINE st == Now
<1>1. st \in MainnetSteps
  BY NowIs DEF MainnetInv
<1>2. st.op \in ContractOps => run.ids[st.name] = First[st.name]
  BY DEF MainnetInv, Predicted
<1>3. Reaction(run.script, st, kind) = "next"
  OBVIOUS
<1>. HIDE DEF st
<1>4. Done(st)
  <2>1. CASE st.op \in {"upload", "deploy"}
    <3>1. OnChain(st)
      BY <1>3, <2>1 DEF Reaction, DeployReaction
    <3>. QED
      BY <1>1, <1>2, <2>1, <3>1, DoneIs DEF OnChain, ContractOps
  <2>2. CASE st.op = "init"
    <3>1. InitError(st.name) \notin Tolerated
      BY DEF InitError, Tolerated
    <3>. QED
      BY <1>3, <2>2, <3>1 DEF Reaction, DeployReaction
  <2>3. CASE st.op = "set"
    BY <1>3, <2>3 DEF Reaction, DeployReaction
  <2>4. CASE st.op \notin ContractOps
    BY <1>1, <2>4, DoneIs
  <2>. QED
    BY <2>1, <2>2, <2>3, <2>4 DEF ContractOps
<1>. QED
  BY <1>4 DEF st

LEMMA MainnetReact ==
  ASSUME RunFields(run), MainnetInv, Active, NEW kind, React(kind),
         UNCHANGED <<code, inst, slot, admin, config, txs, completed, offer>>
  PROVE  MainnetInv'
<1>1. offer' = First /\ config' = First /\ completed' = completed
  BY DEF MainnetInv, Predicted
<1>2. CASE Reaction(run.script, Now, kind) = "next"
  <2>1. Mark /\ MoveTo(run.pc + 1)
    BY <1>2 DEF React
  <2>. QED
    BY <1>1, <1>2, <2>1, Moves, NextIsDone, GoesOn
<1>3. CASE run' = [run EXCEPT !.try = @ + 1, !.tx = NoTx, !.out = "none"] /\ UNCHANGED file
  BY <1>1, <1>3, Retries, StopsOrRetries DEF MainnetInv, Predicted
<1>4. CASE Die /\ UNCHANGED file
  BY <1>1, <1>4, Dies, StopsOrRetries
<1>5. CASE AllowFail(run.script, Now.op)
  <2>1. run.script # "rewire"
    BY NowIs DEF MainnetInv, MainnetScripts
  <2>. QED
    BY <1>5, <2>1 DEF AllowFail
<1>. QED
  BY <1>2, <1>3, <1>4, <1>5 DEF React

LEMMA MainnetSkip ==
  ASSUME RunFields(run), MainnetInv, Skip
  PROVE  MainnetInv'
<1>1. /\ Active /\ run.script = "mainnet-deploy" /\ Mark /\ MoveTo(run.pc + 1)
      /\ UNCHANGED <<code, inst, slot, admin, config, txs, completed, offer>>
  BY DEF Skip, KeepSystem, chain, govVars
<1>. DEFINE st == Now
<1>2. st \in MainnetSteps /\ st = MainnetPlan[run.pc]
  BY <1>1, NowIs DEF MainnetInv
<1>3. run.pc \in file \/ OnChain(st)
  BY DEF Skip
<1>. HIDE DEF st
<1>4. Done(st)
  <2>1. CASE run.pc \in file
    BY <2>1, <1>2 DEF MainnetInv, FileDone
  <2>2. CASE OnChain(st)
    BY <2>2, <1>2, DoneIs DEF OnChain, MainnetInv, Predicted
  <2>. QED
    BY <1>3, <2>1, <2>2
<1>5. Done(Now)
  BY <1>4 DEF st
<1>6. offer' = First
  BY <1>1 DEF MainnetInv, Predicted
<1>. QED
  BY <1>1, <1>5, <1>6, Moves, GoesOn

LEMMA MainnetConfirm ==
  ASSUME RunFields(run), MainnetInv, Confirm
  PROVE  MainnetInv'
<1>1. /\ Active /\ run.out = "ok" /\ Mark /\ MoveTo(run.pc + 1)
      /\ UNCHANGED <<code, inst, slot, admin, config, txs, completed, offer>>
  BY DEF Confirm, KeepSystem, chain, govVars
<1>2. run.script = "mainnet-deploy" => Done(Now)
  BY <1>1, NowIs DEF MainnetInv, DeployRuns
<1>3. offer' = First
  BY <1>1 DEF MainnetInv, Predicted
<1>. QED
  BY <1>1, <1>2, <1>3, Moves, GoesOn

LEMMA MainnetLocal ==
  ASSUME RunFields(run), MainnetInv, LocalStep
  PROVE  MainnetInv'
<1>. DEFINE st == Now
<1>1. /\ Active /\ st.op \in LocalOps /\ Mark
      /\ UNCHANGED <<code, inst, slot, admin, config, txs, completed>>
      /\ offer' = IF st.op \in {"patch", "patchMissing"} THEN run.ids ELSE offer
  BY Zenon DEF LocalStep, KeepSystem, chain, govVars
<1>2. st \in MainnetSteps
  BY <1>1, NowIs DEF MainnetInv
<1>. HIDE DEF st
<1>3. st.op \in {"seedMarkets", "check"}
  BY <1>1, <1>2 DEF LocalOps, MainnetSteps, PlainOps
<1>4. offer' = First
  BY <1>1, <1>3 DEF MainnetInv, Predicted
<1>5. Done(st)
  BY <1>2, <1>3, DoneIs DEF ContractOps
<1>6. CASE st.op = "seedMarkets"
  <2>1. MoveTo(run.pc + 1)
    BY <1>6 DEF LocalStep, st
  <2>2. Done(Now)
    BY <1>5 DEF st
  <2>. QED
    BY <1>1, <1>4, <2>1, <2>2, Moves, GoesOn
<1>7. CASE st.op = "check"
  <2>1. \E b : run' = [run EXCEPT !.pc = @ + 1, !.bad = b]
    BY <1>7, Zenon DEF LocalStep, st
  <2>2. /\ run'.script = run.script /\ run'.pc = run.pc + 1 /\ run'.ids = run.ids
        /\ run'.out = run.out
    BY <2>1, Checks
  <2>3. run.script = "mainnet-deploy" => run.out = "none" /\ Done(Now)
    BY <1>1, <1>5, NowIs DEF MainnetInv, DeployRuns, st
  <2>. QED
    BY <1>1, <1>4, <2>2, <2>3, GoesOn
<1>. QED
  BY <1>3, <1>6, <1>7

LEMMA MainnetSubmit ==
  ASSUME RunFields(run), MainnetInv, Submit, network = "mainnet"
  PROVE  MainnetInv'
<1>. PICK a \in AddressOf(Now) : \E ids :
        LET t == TxOf(Now, a)
        IN /\ Valid(t) /\ txs' = txs \cup {t} /\ run' = Sent(t, ids)
           /\ ids = IF Now.op = "deploy" THEN [run.ids EXCEPT ![Now.name] = a] ELSE run.ids
  BY SubmitSends
<1>. PICK ids :
        LET t == TxOf(Now, a)
        IN /\ Valid(t) /\ txs' = txs \cup {t} /\ run' = Sent(t, ids)
           /\ ids = IF Now.op = "deploy" THEN [run.ids EXCEPT ![Now.name] = a] ELSE run.ids
  OBVIOUS
<1>. DEFINE st == Now
            t == TxOf(Now, a)
<1>1. /\ Active /\ st \in MainnetSteps /\ st.op \notin LocalOps
      /\ run.script = "mainnet-deploy" => run.pc \in DOMAIN MainnetPlan /\ st = MainnetPlan[run.pc]
  BY NowIs DEF Submit, MainnetInv
<1>2. /\ UNCHANGED <<code, inst, slot, admin, config, completed, offer, file>>
  BY DEF Submit, KeepSystem, chain, govVars
<1>3. /\ t.op = st.op /\ t.slot = st.slot /\ t.to = st.to /\ t.ids = First
  BY DEF TxOf, MainnetInv, Predicted
<1>4. st.name \in NameSet => t.at = First[st.name]
  <2>1. a \in AddressOf(st) /\ t.at = a
    BY DEF TxOf
  <2>2. run.ids = First
    BY DEF MainnetInv, Predicted
  <2>. HIDE DEF st, t
  <2>. QED
    BY <2>1, <2>2 DEF AddressOf, DeployAddress
<1>5. ids = IF st.op = "deploy" THEN [First EXCEPT ![st.name] = t.at] ELSE First
  BY DEF TxOf, MainnetInv, Predicted
<1>6. txs' = txs \cup {t} /\ run' = Sent(t, ids)
  OBVIOUS
<1>. HIDE DEF st, t
<1>7. st.op \in ContractOps => st.name \in NameSet
  BY <1>1 DEF MainnetSteps
<1>8. ids = First
  BY <1>4, <1>5, <1>7, Firsts DEF ContractOps
<1>9. OnFirst(t)
  BY <1>1, <1>3, <1>4, <1>7 DEF OnFirst, MainnetSteps
<1>10. /\ run'.script = run.script /\ run'.pc = run.pc /\ run'.ids = First
       /\ run'.tx = t /\ run'.out = "pending"
  BY <1>6, <1>8, Sends
<1>11. ChainInv' /\ DoneStays
  BY <1>2, SameChain DEF MainnetInv
<1>12. Predicted'
  BY <1>2, <1>6, <1>9, <1>10 DEF MainnetInv, Predicted, OnFirst
<1>13. FileDone'
  BY <1>2, <1>11, FileStays DEF MainnetInv, FileDone
<1>14. DeployRuns'
  <2>1. SentFor(t, st)
    BY <1>3, <1>4 DEF SentFor
  <2>. QED
    BY <1>1, <1>2, <1>10, <2>1 DEF MainnetInv, DeployRuns
<1>15. CompletedMarked'
  BY <1>2 DEF MainnetInv, CompletedMarked
<1>. QED
  BY <1>11, <1>12, <1>13, <1>14, <1>15 DEF MainnetInv

\* What the network, or a cancelled proposal, makes of what the scripts wait for.
LEMMA Answered ==
  ASSUME RunFields(run), MainnetInv, ChainInv', DoneStays, NEW o, run' = [run EXCEPT !.out = o],
         run.script = "mainnet-deploy" => \/ o = run.out \/ (o \in {"gone", "failed"} /\ run.out = "pending")
                                          \/ /\ o = "ok" /\ run.out = "pending"
                                             /\ \A i : i = run.pc => Done(MainnetPlan[i])',
         txs' \subseteq txs, UNCHANGED <<config, offer, file, completed>>
  PROVE  MainnetInv'
<1>1. /\ run'.script = run.script /\ run'.pc = run.pc /\ run'.ids = run.ids
      /\ run'.tx = run.tx /\ run'.out = o
  BY Answers
<1>2. Predicted'
  BY <1>1 DEF MainnetInv, Predicted, OnFirst
<1>3. FileDone'
  BY FileStays DEF MainnetInv, FileDone
<1>4. DeployRuns'
  <2>. SUFFICES ASSUME run.script = "mainnet-deploy"
                PROVE  DeployRuns'
    BY <1>1 DEF MainnetInv, DeployRuns
  <2>1. ASSUME NEW i, i = run.pc, run.out = "ok"
        PROVE  Done(MainnetPlan[i])'
    BY <2>1, MainnetPlanSteps DEF MainnetInv, DeployRuns, DoneStays
  <2>2. ASSUME NEW i, i = run.pc, o = "ok"
        PROVE  Done(MainnetPlan[i])'
    BY <2>1, <2>2
  <2>3. run'.out = "ok" => Done(MainnetPlan[run.pc])'
    BY <1>1, <2>2
  <2>. QED
    BY <1>1, <2>3 DEF MainnetInv, DeployRuns
<1>5. CompletedMarked'
  BY DEF MainnetInv, CompletedMarked
<1>. QED
  BY <1>2, <1>3, <1>4, <1>5 DEF MainnetInv

LEMMA MainnetNetwork ==
  ASSUME RunFields(run), MainnetInv, GovTyped, Nominated, NEW t \in txs, Land(t) \/ Drop(t)
  PROVE  MainnetInv'
<1>1. OnFirst(t) /\ ChainInv' /\ DoneStays
  BY LandKeeps DEF MainnetInv, Predicted
<1>2. UNCHANGED <<config, offer, file, completed>> /\ txs' \subseteq txs
  BY DEF Land, Landed, Drop
<1>3. CASE Drop(t)
  <2>. DEFINE o == IF run.out = "pending" /\ run.tx = t THEN "gone" ELSE run.out
  <2>1. run' = [run EXCEPT !.out = o]
    BY <1>3, Zenon DEF Drop
  <2>2. IF run.out = "pending" /\ run.tx = t THEN o = "gone" ELSE o = run.out
    BY Zenon
  <2>. HIDE DEF o
  <2>3. o = run.out \/ (o \in {"gone", "failed"} /\ run.out = "pending")
    BY <2>2
  <2>. QED
    BY <1>1, <1>2, <2>1, <2>3, Answered
<1>4. CASE Land(t)
  <2>1. PICK ok : Landed(t, ok) /\ (ok => LandsOk(t)) /\ ok \in BOOLEAN
    BY <1>4 DEF Land, LandsOk
  <2>. DEFINE o == IF run.out # "pending" THEN run.out
                   ELSE IF run.tx # t THEN "gone" ELSE IF ok THEN "ok" ELSE "failed"
  <2>2. run' = [run EXCEPT !.out = o]
    BY <2>1, Zenon DEF Landed
  <2>3. \/ o = run.out \/ (o \in {"gone", "failed"} /\ run.out = "pending")
        \/ o = "ok" /\ run.out = "pending" /\ run.tx = t /\ LandsOk(t)
    <3>1. CASE run.out # "pending"
      <4>1. o = run.out
        BY <3>1, Zenon
      <4>. HIDE DEF o
      <4>. QED
        BY <4>1
    <3>2. CASE run.out = "pending" /\ run.tx # t
      BY <3>2
    <3>3. CASE run.out = "pending" /\ run.tx = t /\ ok
      <4>1. o = "ok"
        BY <3>3
      <4>. QED
        BY <2>1, <3>3, <4>1, Zenon
    <3>4. CASE run.out = "pending" /\ run.tx = t /\ ~ok
      <4>1. o = "failed"
        BY <3>4
      <4>. HIDE DEF o
      <4>. QED
        BY <3>4, <4>1
    <3>. QED
      BY <3>1, <3>2, <3>3, <3>4, Zenon
  <2>. HIDE DEF o
  <2>4. ASSUME NEW i, i = run.pc, run.script = "mainnet-deploy", run.out = "pending", run.tx = t, LandsOk(t)
        PROVE  Done(MainnetPlan[i])'
    <3>1. i \in DOMAIN MainnetPlan /\ SentFor(t, MainnetPlan[i])
      BY <2>4 DEF MainnetInv, DeployRuns
    <3>2. MainnetPlan[i] \in MainnetSteps
      BY <3>1, MainnetPlanSteps
    <3>. QED
      BY <2>4, <3>1, <3>2, LandDoes DEF MainnetInv
  <2>5. run.script = "mainnet-deploy" =>
          \/ o = run.out \/ (o \in {"gone", "failed"} /\ run.out = "pending")
          \/ /\ o = "ok" /\ run.out = "pending"
             /\ \A i : i = run.pc => Done(MainnetPlan[i])'
    BY <2>3, <2>4
  <2>. QED
    BY <1>1, <1>2, <2>2, <2>5, Answered
<1>. QED
  BY <1>3, <1>4

LEMMA MainnetStart ==
  ASSUME NEW s, MainnetInv, network = "mainnet", Start(s)
  PROVE  MainnetInv'
<1>1. s \in MainnetScripts /\ s # "rewire"
  BY DEF Start, MainnetScripts
<1>2. /\ UNCHANGED <<code, inst, slot, admin, txs, file>> /\ config' = First /\ offer' = First
      /\ completed' = completed
  BY <1>1 DEF Start, govVars, MainnetInv, Predicted
<1>3. run'.script = s /\ run'.pc = 1 /\ run'.out = "none" /\ run'.ids = First
  BY <1>1, ScriptStarts DEF MainnetInv, Predicted
<1>. QED
  BY <1>1, <1>2, <1>3, StopsOrRetries

LEMMA MainnetEnds ==
  ASSUME MainnetInv, Crash \/ Finish
  PROVE  MainnetInv'
<1>1. Die /\ UNCHANGED <<code, inst, slot, admin, txs, file>> /\ config' = First /\ offer' = First
  BY DEF Crash, Finish, KeepSystem, chain, govVars, MainnetInv, Predicted
<1>2. CASE completed' = completed
  BY <1>1, <1>2, Dies, StopsOrRetries
<1>3. CASE run.script = "mainnet-deploy" /\ Finish
  <2>1. run.pc \in Nat \ {0} /\ run.pc \notin DOMAIN MainnetPlan
    BY <1>3 DEF Finish, Active, Running, Plan, MainnetInv, DeployRuns
  <2>2. \A i \in DOMAIN MainnetPlan : i < run.pc
    BY <2>1, MainnetPlanSteps
  <2>3. DOMAIN MainnetPlan \subseteq file
    BY <1>3, <2>2 DEF MainnetInv, DeployRuns
  <2>. QED
    BY <1>1, <2>3, Dies, StopsOrRetries
<1>4. CASE run.script # "mainnet-deploy" /\ Finish
  <2>1. UNCHANGED <<config, offer>>
    BY <1>1 DEF MainnetInv, Predicted
  <2>2. ChainInv' /\ DoneStays
    BY <1>1, SameChain DEF MainnetInv
  <2>3. Predicted' /\ DeployRuns'
    BY <1>1, Dies DEF MainnetInv, Predicted, DeployRuns, OnFirst
  <2>4. FileDone'
    BY <1>1, <2>2, FileStays DEF MainnetInv, FileDone
  <2>5. CompletedMarked'
    BY <1>1, <1>4 DEF Finish, MainnetInv, CompletedMarked
  <2>. QED
    BY <2>2, <2>3, <2>4, <2>5 DEF MainnetInv
<1>. QED
  BY <1>2, <1>3, <1>4 DEF Crash

\* Steps that leave the scripts and the chain alone, but for the admins' proposals.
LEMMA MainnetSame ==
  ASSUME MainnetInv, UNCHANGED <<code, inst, slot, admin, txs, run, file, completed>>,
         config' = First, offer' = First
  PROVE  MainnetInv'
<1>1. ChainInv' /\ DoneStays
  BY SameChain DEF MainnetInv
<1>2. Predicted'
  BY DEF MainnetInv, Predicted, OnFirst
<1>3. FileDone'
  BY <1>1, FileStays DEF MainnetInv, FileDone
<1>4. DeployRuns'
  <2>1. ASSUME NEW i, i = run.pc, run.script = "mainnet-deploy", run.out = "ok"
        PROVE  Done(MainnetPlan[i])'
    BY <1>1, <2>1, MainnetPlanSteps DEF MainnetInv, DeployRuns, DoneStays
  <2>2. run'.script = "mainnet-deploy" /\ run'.out = "ok" => Done(MainnetPlan[run.pc])'
    BY <2>1
  <2>. QED
    BY <2>2 DEF MainnetInv, DeployRuns
<1>5. CompletedMarked'
  BY DEF MainnetInv, CompletedMarked
<1>. QED
  BY <1>1, <1>2, <1>3, <1>4, <1>5 DEF MainnetInv

LEMMA MainnetCancel ==
  ASSUME NEW c, RunFields(run), MainnetInv, CancelProposal(c)
  PROVE  MainnetInv'
<1>1. UNCHANGED <<code, inst, slot, admin, config, offer, file, completed>> /\ txs' = {}
  BY DEF CancelProposal, Cancel, chain
<1>. DEFINE o == IF run.out = "pending" THEN "gone" ELSE run.out
<1>2. run' = [run EXCEPT !.out = o]
  BY Zenon DEF CancelProposal
<1>3. IF run.out = "pending" THEN o = "gone" ELSE o = run.out
  BY Zenon
<1>. HIDE DEF o
<1>4. o = run.out \/ (o \in {"gone", "failed"} /\ run.out = "pending")
  BY <1>3
<1>5. ChainInv' /\ DoneStays
  BY <1>1, SameChain DEF MainnetInv
<1>. QED
  BY <1>1, <1>2, <1>4, <1>5, Answered

LEMMA MainnetNext ==
  ASSUME GovInv, MainnetInv, network = "mainnet", [Next]_vars
  PROVE  MainnetInv'
<1>. RunFields(run) /\ GovTyped /\ Nominated
  BY DEF GovInv, TimesTyped
<1>1. CASE \E s \in Scripts : Start(s)
  BY <1>1, MainnetStart
<1>2. CASE Skip
  BY <1>2, MainnetSkip
<1>3. CASE Confirm
  BY <1>3, MainnetConfirm
<1>4. CASE LocalStep
  BY <1>4, MainnetLocal
<1>5. CASE Submit
  BY <1>5, MainnetSubmit
<1>6. CASE SimFails \/ FailedOnChain \/ Missed
  <2>1. PICK kind : /\ Active /\ React(kind)
                    /\ UNCHANGED <<code, inst, slot, admin, config, txs, completed, offer>>
    BY <1>6 DEF SimFails, FailedOnChain, Missed, KeepSystem, chain, govVars
  <2>. QED
    BY <2>1, MainnetReact
<1>7. CASE Crash \/ Finish
  BY <1>7, MainnetEnds
<1>8. CASE \E t \in txs : Land(t) \/ Drop(t)
  BY <1>8, MainnetNetwork
<1>9. CASE \E c \in Contracts : CancelProposal(c)
  BY <1>9, MainnetCancel
<1>10. CASE Adopt \/ (\E flag \in BOOLEAN : GuardianPause(flag)) \/ Wait \/ UNCHANGED vars
  <2>1. UNCHANGED <<code, inst, slot, admin, txs, run, file, completed>>
    BY <1>10 DEF Adopt, GuardianPause, EmergencyPause, Wait, Tick, depVars, chain, govVars, vars
  <2>2. config' = First /\ offer' = First
    BY <1>10 DEF Adopt, GuardianPause, Wait, depVars, vars, MainnetInv, Predicted
  <2>. QED
    BY <2>1, <2>2, MainnetSame
<1>. QED
  BY <1>1, <1>2, <1>3, <1>4, <1>5, <1>6, <1>7, <1>8, <1>9, <1>10 DEF Next

LEMMA TestnetNext ==
  ASSUME GovInv, TestnetInv, network = "testnet", [Next]_vars
  PROVE  TestnetInv'
<1>. RunFields(run)
  BY DEF GovInv, TimesTyped
<1>1. CASE \E s \in Scripts : Start(s)
  <2>. PICK s \in Scripts : Start(s)
    BY <1>1
  <2>1. s # "mainnet-deploy" /\ UNCHANGED <<file, completed>>
    BY DEF Start, TestnetScripts
  <2>. QED
    BY <2>1, ScriptStarts DEF TestnetInv
<1>2. CASE Skip
  BY <1>2 DEF Skip, TestnetInv
<1>3. CASE Confirm
  BY <1>3, Moves DEF Confirm, Mark, TestnetInv
<1>4. CASE LocalStep
  <2>1. UNCHANGED <<file, completed>>
    BY <1>4 DEF LocalStep, Mark, TestnetInv
  <2>2. Die \/ MoveTo(run.pc + 1) \/ \E b : run' = [run EXCEPT !.pc = @ + 1, !.bad = b]
    BY <1>4, Zenon DEF LocalStep
  <2>. QED
    BY <2>1, <2>2, Dies, Moves, Checks DEF TestnetInv
<1>5. CASE Submit
  <2>1. \E t : \E ids : run' = Sent(t, ids)
    BY <1>5, SubmitSends
  <2>. QED
    BY <1>5, <2>1, Sends DEF Submit, TestnetInv
<1>6. CASE SimFails \/ FailedOnChain \/ Missed
  <2>1. PICK kind : React(kind) /\ completed' = completed
    BY <1>6 DEF SimFails, FailedOnChain, Missed
  <2>2. file' = file
    BY <2>1 DEF React, Mark, TestnetInv
  <2>. QED
    BY <2>1, <2>2, Reacts, Moves, Retries, Dies DEF TestnetInv
<1>7. CASE Crash \/ Finish
  BY <1>7, Dies DEF Crash, Finish, TestnetInv
<1>8. CASE \E t \in txs : Land(t) \/ Drop(t)
  <2>1. \E o : run' = [run EXCEPT !.out = o]
    <3>1. CASE \E t, ok : Landed(t, ok)
      BY <3>1, Zenon DEF Landed
    <3>2. CASE \E t : Drop(t)
      BY <3>2, Zenon DEF Drop
    <3>. QED
      BY <1>8, <3>1, <3>2 DEF Land
  <2>2. UNCHANGED <<file, completed>>
    BY <1>8 DEF Land, Landed, Drop
  <2>. QED
    BY <2>1, <2>2, Answers DEF TestnetInv
<1>9. CASE \E c \in Contracts : CancelProposal(c)
  <2>1. (\E o : run' = [run EXCEPT !.out = o]) /\ UNCHANGED <<file, completed>>
    BY <1>9, Zenon DEF CancelProposal
  <2>. QED
    BY <2>1, Answers DEF TestnetInv
<1>10. CASE Adopt \/ (\E flag \in BOOLEAN : GuardianPause(flag)) \/ Wait \/ UNCHANGED vars
  BY <1>10 DEF Adopt, GuardianPause, Wait, depVars, vars, TestnetInv
<1>. QED
  BY <1>1, <1>2, <1>3, <1>4, <1>5, <1>6, <1>7, <1>8, <1>9, <1>10 DEF Next

\* No action changes the network.
LEMMA NetworkStays ==
  ASSUME [Next]_vars
  PROVE  network' = network
<1>1. CASE \E t \in txs : Land(t) \/ Drop(t)
  BY <1>1 DEF Land, Landed, Drop
<1>2. CASE (\E c \in Contracts : CancelProposal(c)) \/ (\E flag \in BOOLEAN : GuardianPause(flag)) \/ Wait
  BY <1>2 DEF CancelProposal, GuardianPause, Wait, depVars
<1>3. CASE Skip \/ LocalStep \/ Submit \/ Confirm \/ SimFails \/ FailedOnChain \/ Missed \/ Crash \/ Finish
  BY <1>3 DEF Skip, LocalStep, Submit, Confirm, SimFails, FailedOnChain, Missed, Crash, Finish, KeepSystem
<1>4. CASE (\E s \in Scripts : Start(s)) \/ Adopt \/ UNCHANGED vars
  BY <1>4 DEF Start, Adopt, depVars, vars
<1>. QED
  BY <1>1, <1>2, <1>3, <1>4 DEF Next

\* GovInv and DeployInv together are inductive.
LEMMA DeployInvariant == Spec => []DeployInv
<1>1. Init => DeployInv
  <2>. SUFFICES ASSUME Init PROVE DeployInv
    OBVIOUS
  <2>1. /\ run.script = "idle" /\ run.pc = 1 /\ run.ids = First /\ run.out = "none"
        /\ txs = {} /\ file = {} /\ config = First /\ offer = First /\ completed = {}
    BY DEF Init, Idle
  <2>2. CASE network = "testnet"
    BY <2>1, <2>2 DEF DeployInv, TestnetInv
  <2>3. CASE network = "mainnet"
    <3>1. /\ inst = {} /\ slot = [a \in Addresses |-> Unset] /\ admin = [a \in Addresses |-> "none"]
      BY <2>3 DEF Init, GovInit
    <3>2. Unset \in [Slots -> Values]
      BY DEF Unset, Values
    <3>3. \A a \in Addresses : admin[a] = "none"
      BY <3>1
    <3>4. ChainInv
      BY <3>1, <3>2, <3>3, Firsts DEF ChainInv, ChainTyped, RefsHold
    <3>5. DOMAIN MainnetPlan \subseteq Nat \ {0}
      BY MainnetPlanSteps
    <3>. QED
      BY <2>1, <2>3, <3>4, <3>5
      DEF DeployInv, MainnetInv, Predicted, DeployRuns, FileDone, CompletedMarked
  <2>. QED
    BY <2>2, <2>3 DEF Init
<1>2. GovInv /\ DeployInv /\ [Next]_vars => DeployInv'
  BY MainnetNext, TestnetNext, NetworkStays DEF DeployInv
<1>. QED
  BY <1>1, <1>2, GovInvariant, PTL DEF Spec

\* A step of mainnet-deploy is checkpointed only when its effect is on chain, and the
\* effect stays there: no later step, retry, late transaction or other script of the
\* mainnet undoes it (mainnet-deploy.ts saveState and mark, call, uploads and deploys).
THEOREM MarkedStaysDone == Spec => []MarkedIsDone
<1>1. DeployInv => MarkedIsDone
  BY DEF DeployInv, MainnetInv, TestnetInv, FileDone, Done, MarkedIsDone
<1>. QED
  BY <1>1, DeployInvariant, PTL
-----------------------------------------------------------------------------
(* What the plan of mainnet-deploy contains. *)

Has(s, st) == \E i \in DOMAIN s : s[i] = st

LEMMA HasLeft ==
  ASSUME NEW S, NEW s \in Seq(S), NEW t \in Seq(S), NEW st, Has(s, st)
  PROVE  Has(s \o t, st)
BY DEF Has

LEMMA HasRight ==
  ASSUME NEW S, NEW s \in Seq(S), NEW t \in Seq(S), NEW st, Has(t, st)
  PROVE  Has(s \o t, st)
<1>. PICK i \in DOMAIN t : t[i] = st
  BY DEF Has
<1>1. Len(s) + i \in DOMAIN (s \o t) /\ (s \o t)[Len(s) + i] = st
  OBVIOUS
<1>. QED
  BY <1>1 DEF Has

LEMMA PlanHas ==
  ASSUME NEW st, Has(MainnetInstances, st) \/ Has(MainnetInit, st) \/ Has(MainnetWire, st)
  PROVE  Has(MainnetPlan, st)
<1>. DEFINE S == Seq(MainnetSteps)
            P1 == MainnetAccounts \o MainnetUpload
            P2 == P1 \o MainnetInstances
            P3 == P2 \o MainnetInit
            P4 == P3 \o MainnetWire
            P5 == P4 \o MainnetMarket
            P6 == P5 \o MainnetGuards
            P7 == P6 \o MainnetTtl
<1>1. MainnetPlan = P7 \o SeedMarkets
  BY DEF MainnetPlan
<1>2. P1 \in S
  BY PlanParts
<1>. HIDE DEF P1
<1>3. P2 \in S
  BY <1>2, PlanParts
<1>4. Has(MainnetInstances, st) => Has(P2, st)
  BY <1>2, PlanParts, HasRight
<1>. HIDE DEF P2
<1>5. P3 \in S
  BY <1>3, PlanParts
<1>6. Has(P2, st) \/ Has(MainnetInit, st) => Has(P3, st)
  BY <1>3, PlanParts, HasLeft, HasRight
<1>. HIDE DEF P3
<1>7. P4 \in S
  BY <1>5, PlanParts
<1>8. Has(P3, st) \/ Has(MainnetWire, st) => Has(P4, st)
  BY <1>5, PlanParts, HasLeft, HasRight
<1>. HIDE DEF P4
<1>9. P5 \in S /\ (Has(P4, st) => Has(P5, st))
  BY <1>7, PlanParts, HasLeft
<1>. HIDE DEF P5
<1>10. P6 \in S /\ (Has(P5, st) => Has(P6, st))
  BY <1>9, PlanParts, HasLeft
<1>. HIDE DEF P6
<1>11. P7 \in S /\ (Has(P6, st) => Has(P7, st))
  BY <1>10, PlanParts, HasLeft
<1>. HIDE DEF P7
<1>12. Has(P7, st) => Has(MainnetPlan, st)
  BY <1>1, <1>11, PlanParts, HasLeft
<1>. QED
  BY <1>4, <1>6, <1>8, <1>9, <1>10, <1>11, <1>12

LEMMA EachHas ==
  ASSUME NEW op, NEW n \in NameSet
  PROVE  Has(Each(op, Names), Plain(op, n))
<1>1. PICK i \in DOMAIN Names : Names[i] = n
  BY Zenon DEF NameSet, Range
<1>2. DOMAIN Each(op, Names) = DOMAIN Names /\ Each(op, Names)[i] = Plain(op, n)
  BY <1>1, Zenon DEF Each, Plain
<1>. QED
  BY <1>2, Zenon DEF Has

\* The references that are not stored by initialize are stored by Step 5 (Wire).
Calls == {<<"vault", "engine">>, <<"engine", "gateway">>, <<"engine", "insurance">>, <<"engine", "liquidation">>,
          <<"vault", "insurance">>, <<"vault", "liquidation">>, <<"insurance", "vault">>}

LEMMA WireHas ==
  ASSUME NEW w \in Calls
  PROVE  Has(MainnetWire, Call(w[1], w[2]))
<1>1. /\ DOMAIN MainnetWire = 1..10
      /\ MainnetWire[1] = Call("vault", "engine") /\ MainnetWire[2] = Call("engine", "gateway")
      /\ MainnetWire[6] = Call("engine", "insurance") /\ MainnetWire[7] = Call("engine", "liquidation")
      /\ MainnetWire[8] = Call("vault", "insurance") /\ MainnetWire[9] = Call("vault", "liquidation")
      /\ MainnetWire[10] = Call("insurance", "vault")
  BY DEF MainnetWire
<1>. HIDE DEF MainnetWire
<1>2. 1 \in 1..10 /\ 2 \in 1..10 /\ 6 \in 1..10 /\ 7 \in 1..10 /\ 8 \in 1..10 /\ 9 \in 1..10 /\ 10 \in 1..10
  OBVIOUS
<1>3. /\ Has(MainnetWire, Call("vault", "engine")) /\ Has(MainnetWire, Call("engine", "gateway"))
      /\ Has(MainnetWire, Call("engine", "insurance")) /\ Has(MainnetWire, Call("engine", "liquidation"))
      /\ Has(MainnetWire, Call("vault", "insurance")) /\ Has(MainnetWire, Call("vault", "liquidation"))
      /\ Has(MainnetWire, Call("insurance", "vault"))
  BY <1>1, <1>2, Zenon DEF Has
<1>4. \/ w[1] = "vault" /\ w[2] \in {"engine", "insurance", "liquidation"}
      \/ w[1] = "engine" /\ w[2] \in {"gateway", "insurance", "liquidation"}
      \/ w[1] = "insurance" /\ w[2] = "vault"
  BY DEF Calls
<1>. QED
  BY <1>3, <1>4, Zenon

LEMMA WiringIs ==
  ASSUME NEW w \in Wiring
  PROVE  /\ w[1] \in NameSet /\ w[2] \in NameSet \cap Slots /\ w = <<w[1], w[2]>>
         /\ w \in Calls \/ <<w[2], w[2]>> \in InitRefs(w[1])
BY NameSetIs DEF Wiring, Calls, InitRefs, Slots

\* When mainnet-deploy says that it is done, the predicted instances exist, no others do,
\* and each refers to the others: whatever was interrupted, retried or seen late
\* (mainnet-deploy.ts Steps 3 to 5, and its checkpoints).
THEOREM CompletedDeployment == Spec => []CompletedIsWired
<1>1. DeployInv => CompletedIsWired
  <2>. SUFFICES ASSUME DeployInv, "mainnet-deploy" \in completed
                PROVE  inst = Range(First) /\ \A w \in Wiring : slot[First[w[1]]][w[2]] = First[w[2]]
    BY DEF CompletedIsWired
  <2>1. MainnetInv
    BY DEF DeployInv, TestnetInv
  <2>2. ASSUME NEW st \in MainnetSteps, Has(MainnetPlan, st)
        PROVE  Done(st)
    BY <2>1, <2>2 DEF Has, MainnetInv, CompletedMarked, FileDone
  <2>3. ASSUME NEW n \in NameSet
        PROVE  First[n] \in inst /\ admin[First[n]] # "none"
    <3>1. \A op \in {"deploy", "init"} : Has(MainnetPlan, Plain(op, n))
      BY EachHas, PlanHas DEF MainnetInstances, MainnetInit
    <3>2. \A op \in {"deploy", "init"} : Done(Plain(op, n))
      BY <2>2, <3>1, PlainStep DEF PlainOps
    <3>. QED
      BY <3>2 DEF Done, EffectHolds, Plain, Step
  <2>4. inst = Range(First)
    BY <2>1, <2>3, Firsts DEF Range, MainnetInv, ChainInv, ChainTyped
  <2>5. ASSUME NEW w \in Wiring
        PROVE  slot[First[w[1]]][w[2]] = First[w[2]]
    <3>1. CASE w \in Calls
      <4>1. Done(Call(w[1], w[2]))
        BY <3>1, <2>2, WireHas, PlanHas, WiringIs, CallStep
      <4>2. slot[First[w[1]]][w[2]] = Value(First, w[2])
        BY <4>1 DEF Done, EffectHolds, Call, Step
      <4>. QED
        BY <4>2, WiringIs, ValueOf
    <3>2. CASE <<w[2], w[2]>> \in InitRefs(w[1])
      BY <3>2, <2>1, <2>3, WiringIs DEF MainnetInv, ChainInv, RefsHold
    <3>. QED
      BY <3>1, <3>2, WiringIs
  <2>. QED
    BY <2>4, <2>5
<1>. QED
  BY <1>1, DeployInvariant, PTL
-----------------------------------------------------------------------------
(* The steps of the testnet scripts. *)

\* The contracts that CoreStaysWired is about; their names are also slots.
Core == {"vault", "engine", "gateway"}

\* The scripts that put up a new engine, and those of them that hand the live vault to it.
Relinking == {"setup-usdc", "redeploy-engine-xlm"}
Builders == Relinking \cup {"redeploy-core"}

AllSteps ==
  {st \in [op : PlainOps \cup {"set", "patch", "patchMissing"}, name : NameSet \cup {""},
           slot : Slots \cup {""}, to : NameSet \cup {"", Configured}] :
     /\ st.op \in ContractOps => st.name \in NameSet
     /\ st.op = "set" => st.slot \in Slots /\ st.to = Target(st.slot)}

\* Steps that neither deploy a contract of the core nor point its contracts at each other.
TameSteps ==
  {st \in AllSteps : /\ st.op = "deploy" => st.name \notin Core
                     /\ st.op = "set" /\ st.slot \in Core => st.name \notin Core}

LEMMA CoreNames == Core \subseteq NameSet /\ Core \subseteq Slots /\ "ttl" \notin Core
BY NameSetIs DEF Core, Slots

LEMMA MainnetAll == MainnetSteps \subseteq AllSteps
<1>. SUFFICES ASSUME NEW st \in MainnetSteps PROVE st \in AllSteps
  OBVIOUS
<1>. QED
  BY DEF MainnetSteps, AllSteps

LEMMA TamePut ==
  ASSUME NEW n \in NameSet, NEW s \in Slots \ NameSet
  PROVE  Put(n, s) \in TameSteps
<1>1. Put(n, s) \in AllSteps
  BY PutStep, MainnetAll
<1>2. Put(n, s).op = "set" /\ Put(n, s).slot = s
  BY DEF Put, Step
<1>. QED
  BY <1>1, <1>2, CoreNames DEF TameSteps

LEMMA TameCall ==
  ASSUME NEW n \in NameSet, NEW s \in Slots \cap NameSet, n \notin Core \/ s \notin Core
  PROVE  Call(n, s) \in TameSteps
<1>1. Call(n, s) \in AllSteps
  BY CallStep, MainnetAll
<1>2. Call(n, s).op = "set" /\ Call(n, s).slot = s /\ Call(n, s).name = n
  BY DEF Call, Step
<1>. QED
  BY <1>1, <1>2 DEF TameSteps

LEMMA TamePlain ==
  ASSUME NEW op \in PlainOps, NEW n \in NameSet, op = "deploy" => n \notin Core
  PROVE  Plain(op, n) \in TameSteps
<1>1. Plain(op, n) \in AllSteps
  BY PlainStep, MainnetAll
<1>2. Plain(op, n).op = op /\ Plain(op, n).name = n
  BY DEF Plain, Step
<1>3. op # "set"
  BY DEF PlainOps
<1>. QED
  BY <1>1, <1>2, <1>3 DEF TameSteps

LEMMA TameLocal ==
  ASSUME NEW op \in (PlainOps \ ContractOps) \cup {"patch", "patchMissing"}
  PROVE  Plain(op, "") \in TameSteps
<1>. DEFINE st == [op |-> op, name |-> "", slot |-> "", to |-> ""]
<1>1. st.op \notin ContractOps /\ st.op # "set" /\ st.op # "deploy"
  BY DEF PlainOps, ContractOps
<1>2. st \in [op : PlainOps \cup {"set", "patch", "patchMissing"}, name : NameSet \cup {""},
              slot : Slots \cup {""}, to : NameSet \cup {"", Configured}]
  OBVIOUS
<1>. HIDE DEF st
<1>3. st \in TameSteps
  BY <1>1, <1>2 DEF AllSteps, TameSteps
<1>. QED
  BY <1>3 DEF Plain, Step, st

LEMMA TameSeq ==
  ASSUME NEW op \in PlainOps \ ContractOps, NEW names \in Seq(NameSet)
  PROVE  Each(op, names) \in Seq(TameSteps)
<1>. DEFINE step(i) == Plain(op, names[i])
<1>1. \A i \in 1..Len(names) : step(i) \in TameSteps
  BY TamePlain DEF ContractOps
<1>2. Each(op, names) = [i \in 1..Len(names) |-> step(i)]
  BY DEF Each, Plain
<1>3. Len(names) \in Nat
  OBVIOUS
<1>. HIDE DEF step, TameSteps
<1>4. \A n \in Nat : (\A i \in 1..n : step(i) \in TameSteps)
        => [i \in 1..n |-> step(i)] \in Seq(TameSteps)
  OBVIOUS
<1>. QED
  BY <1>1, <1>2, <1>3, <1>4

LEMMA TamePlans ==
  ASSUME NEW s \in TestnetScripts \ Builders
  PROVE  Plan(s) \in Seq(TameSteps)
<1>. DEFINE S == TameSteps
<1>0. /\ \A a \in S : <<a>> \in Seq(S)
      /\ \A a, b \in S : <<a, b>> \in Seq(S)
      /\ \A a, b, c \in S : <<a, b, c>> \in Seq(S)
      /\ \A a, b, c, d \in S : <<a, b, c, d>> \in Seq(S)
      /\ \A a, b, c, d, e, f, g, h \in S : <<a, b, c, d, e, f, g, h>> \in Seq(S)
      /\ \A x, y \in Seq(S) : x \o y \in Seq(S)
  <2>. HIDE DEF S
  <2>. QED
    OBVIOUS
<1>1. CASE s = "redeploy-oracle"
  <2>1. /\ Plain("deploy", "oracle") \in S /\ Plain("init", "oracle") \in S
        /\ Put("oracle", "feed") \in S /\ Plain("patchMissing", "") \in S
    BY TamePlain, TamePut, TameLocal, NameSetIs DEF PlainOps, Slots, Core
  <2>2. RedeployOraclePlan = <<Plain("deploy", "oracle"), Plain("init", "oracle"),
                               Put("oracle", "feed"), Plain("patchMissing", "")>>
    BY Zenon DEF RedeployOraclePlan, Deploy, Init_, Plain
  <2>3. RedeployOraclePlan \in Seq(S)
    BY <1>0, <2>1, <2>2, Zenon
  <2>. QED
    BY <1>1, <2>3 DEF Plan
<1>2. CASE s = "rewire"
  <2>. DEFINE wire == <<Plain("init", "insurance"), Call("insurance", "vault"), Plain("init", "liquidation"),
                        Call("engine", "liquidation"), Call("engine", "insurance"),
                        Call("vault", "liquidation"), Call("vault", "insurance"), Plain("deposit", "insurance")>>
              nominate(c) == <<Plain("nominate", c), Plain("queue", c)>>
  <2>1. /\ Plain("init", "insurance") \in S /\ Plain("init", "liquidation") \in S
        /\ Plain("deposit", "insurance") \in S
        /\ Plain("nominate", "liquidation") \in S /\ Plain("queue", "liquidation") \in S
        /\ Plain("nominate", "insurance") \in S /\ Plain("queue", "insurance") \in S
    BY TamePlain, NameSetIs DEF PlainOps
  <2>2. /\ Call("insurance", "vault") \in S /\ Call("engine", "liquidation") \in S
        /\ Call("engine", "insurance") \in S /\ Call("vault", "liquidation") \in S
        /\ Call("vault", "insurance") \in S
    BY TameCall, NameSetIs DEF Slots, Core
  <2>3. wire \in Seq(S) /\ nominate("liquidation") \in Seq(S) /\ nominate("insurance") \in Seq(S)
    BY <1>0, <2>1, <2>2, Zenon
  <2>4. RewirePlan = wire \o nominate("liquidation") \o nominate("insurance")
    BY Zenon DEF RewirePlan, Ceremony, Init_, Plain
  <2>5. RewirePlan \in Seq(S)
    BY <1>0, <2>3, <2>4, Zenon
  <2>. QED
    BY <1>2, <2>5 DEF Plan
<1>3. CASE s = "update-publisher"
  <2>1. Put("oracle", "feed") \in S
    BY TamePut, NameSetIs DEF Slots
  <2>2. UpdatePublisherPlan \in Seq(S)
    BY <1>0, <2>1, Zenon DEF UpdatePublisherPlan
  <2>. QED
    BY <1>3, <2>2 DEF Plan
<1>4. CASE s \in {"nominate", "queue", "execute"}
  <2>1. Targets \in Seq(NameSet)
    BY NameSetIs DEF Targets
  <2>2. s \in PlainOps \ ContractOps
    BY <1>4 DEF PlainOps, ContractOps
  <2>3. Each(s, Targets) \in Seq(S)
    BY <2>1, <2>2, TameSeq
  <2>. QED
    BY <1>4, <2>3 DEF Plan, GovernancePhase
<1>5. CASE s = "verify"
  <2>1. Plain("check", "") \in S /\ Plain("pause", "") \in S /\ Plain("unpause", "") \in S
    BY TameLocal DEF PlainOps, ContractOps
  <2>2. VerifyPlan = <<Plain("check", ""), Plain("pause", ""), Plain("unpause", "")>>
    BY Zenon DEF VerifyPlan, Plain
  <2>3. VerifyPlan \in Seq(S)
    BY <1>0, <2>1, <2>2, Zenon
  <2>. QED
    BY <1>5, <2>3 DEF Plan
<1>. QED
  BY <1>1, <1>2, <1>3, <1>4, <1>5 DEF TestnetScripts, Builders, Relinking
-----------------------------------------------------------------------------
(* The plans that put up a new engine, step by step. *)

\* r is s, of length m, followed by t, of length n.
Glues(r, s, t, m, n) ==
  /\ DOMAIN r = 1..(m + n) /\ Len(r) = m + n
  /\ \A i \in 1..m : r[i] = s[i]
  /\ \A i \in 1..n : r[m + i] = t[i]

LEMMA Glued ==
  ASSUME NEW S, NEW s \in Seq(S), NEW t \in Seq(S)
  PROVE  s \o t \in Seq(S) /\ Glues(s \o t, s, t, Len(s), Len(t))
BY DEF Glues

\* A sequence of five parts, position by position.
InParts(s, a, b, c, d, e) ==
  /\ DOMAIN s = 1..17
  /\ \A i \in 1..4 : s[i] = a[i] /\ s[4 + i] = b[i]
  /\ \A i \in 1..6 : s[8 + i] = c[i]
  /\ s[15] = d[1] /\ s[16] = d[2] /\ s[17] = e[1]

LEMMA FiveParts ==
  ASSUME NEW S, NEW a \in Seq(S), NEW b \in Seq(S), NEW c \in Seq(S), NEW d \in Seq(S), NEW e \in Seq(S),
         Len(a) = 4, Len(b) = 4, Len(c) = 6, Len(d) = 2, Len(e) = 1,
         NEW s, s = a \o b \o c \o d \o e
  PROVE  s \in Seq(S) /\ InParts(s, a, b, c, d, e)
<1>. DEFINE ab == a \o b
            abc == ab \o c
            abcd == abc \o d
<1>1. s = abcd \o e
  OBVIOUS
<1>2. ab \in Seq(S) /\ Glues(ab, a, b, 4, 4)
  BY Glued
<1>. HIDE DEF ab
<1>3. abc \in Seq(S) /\ Glues(abc, ab, c, 8, 6)
  <2>1. Len(ab) = 8
    BY <1>2 DEF Glues
  <2>. QED
    BY <1>2, <2>1, Glued
<1>. HIDE DEF abc
<1>4. abcd \in Seq(S) /\ Glues(abcd, abc, d, 14, 2)
  <2>1. Len(abc) = 14
    BY <1>3 DEF Glues
  <2>. QED
    BY <1>3, <2>1, Glued
<1>. HIDE DEF abcd
<1>5. s \in Seq(S) /\ Glues(s, abcd, e, 16, 1)
  <2>1. Len(abcd) = 16
    BY <1>4 DEF Glues
  <2>. QED
    BY <1>1, <1>4, <2>1, Glued
<1>6. \A i \in 1..14 : s[i] = abc[i]
  <2>. TAKE i \in 1..14
  <2>0. i \in 1..16
    OBVIOUS
  <2>1. s[i] = abcd[i]
    BY <1>5, <2>0 DEF Glues
  <2>2. abcd[i] = abc[i]
    BY <1>4 DEF Glues
  <2>. QED
    BY <2>1, <2>2
<1>7. ASSUME NEW i \in 1..4
      PROVE  s[i] = a[i] /\ s[4 + i] = b[i]
  <2>0. i \in 1..8 /\ 4 + i \in 1..8 /\ i \in 1..14 /\ 4 + i \in 1..14
    OBVIOUS
  <2>1. s[i] = abc[i] /\ s[4 + i] = abc[4 + i]
    BY <1>6, <2>0
  <2>2. abc[i] = ab[i] /\ abc[4 + i] = ab[4 + i]
    BY <1>3, <2>0 DEF Glues
  <2>3. ab[i] = a[i] /\ ab[4 + i] = b[i]
    BY <1>2 DEF Glues
  <2>. QED
    BY <2>1, <2>2, <2>3, Zenon
<1>8. ASSUME NEW i \in 1..6
      PROVE  s[8 + i] = c[i]
  <2>0. 8 + i \in 1..14
    OBVIOUS
  <2>1. s[8 + i] = abc[8 + i]
    BY <1>6, <2>0
  <2>2. abc[8 + i] = c[i]
    BY <1>3 DEF Glues
  <2>. QED
    BY <2>1, <2>2, Zenon
<1>9. s[15] = d[1] /\ s[16] = d[2] /\ s[17] = e[1]
  <2>0. 15 \in 1..16 /\ 16 \in 1..16 /\ 1 \in 1..1 /\ 1 \in 1..2 /\ 2 \in 1..2 /\ 17 = 16 + 1 /\ 15 = 14 + 1 /\ 16 = 14 + 2
    OBVIOUS
  <2>1. s[15] = abcd[15] /\ s[16] = abcd[16] /\ s[17] = e[1]
    BY <1>5, <2>0, Zenon DEF Glues
  <2>2. abcd[15] = d[1] /\ abcd[16] = d[2]
    BY <1>4, <2>0, Zenon DEF Glues
  <2>. QED
    BY <2>1, <2>2
<1>10. DOMAIN s = 1..17
  BY <1>5 DEF Glues
<1>. QED
  BY <1>5, <1>7, <1>8, <1>9, <1>10, Zenon DEF InParts

\* What the parts of the plans are.
DeployCore == <<Plain("deploy", "vault"), Plain("deploy", "risk"), Plain("deploy", "engine"), Plain("deploy", "gateway")>>
InitCore == <<Plain("init", "vault"), Plain("init", "risk"), Plain("init", "engine"), Plain("init", "gateway")>>

LEMMA CoreInstancesAre == CoreInstances = DeployCore \o InitCore
<1>. DEFINE core == <<"vault", "risk", "engine", "gateway">>
<1>1. DOMAIN core = 1..4 /\ core[1] = "vault" /\ core[2] = "risk" /\ core[3] = "engine" /\ core[4] = "gateway"
  OBVIOUS
<1>2. CoreInstances = Each("deploy", core) \o Each("init", core)
  BY DEF CoreInstances
<1>. HIDE DEF core
<1>3. ASSUME NEW op
      PROVE  Each(op, core) = <<Plain(op, "vault"), Plain(op, "risk"), Plain(op, "engine"), Plain(op, "gateway")>>
  <2>1. Each(op, core) = [i \in 1..4 |-> Plain(op, core[i])]
    BY <1>1 DEF Each, Plain
  <2>2. [i \in 1..4 |-> Plain(op, core[i])]
          = <<Plain(op, core[1]), Plain(op, core[2]), Plain(op, core[3]), Plain(op, core[4])>>
    OBVIOUS
  <2>. QED
    BY <1>1, <2>1, <2>2, Zenon
<1>4. Each("deploy", core) = DeployCore
  BY <1>3, Zenon DEF DeployCore
<1>5. Each("init", core) = InitCore
  BY <1>3, Zenon DEF InitCore
<1>. QED
  BY <1>2, <1>4, <1>5

LEMMA AllPut ==
  ASSUME NEW n \in NameSet, NEW s \in Slots \ NameSet
  PROVE  Put(n, s) \in AllSteps
BY PutStep, MainnetAll

LEMMA AllCall ==
  ASSUME NEW n \in NameSet, NEW s \in Slots \cap NameSet
  PROVE  Call(n, s) \in AllSteps
BY CallStep, MainnetAll

LEMMA AllPlain ==
  ASSUME NEW op \in PlainOps, NEW n \in NameSet
  PROVE  Plain(op, n) \in AllSteps
BY PlainStep, MainnetAll

LEMMA AllLocal ==
  ASSUME NEW op \in {"patch", "patchMissing"}
  PROVE  Plain(op, "") \in AllSteps
BY TameLocal DEF TameSteps

\* The steps of redeploy-core: instances, initialize, wiring, market, config.
LEMMA CorePlanAt ==
  LET plan == Plan("redeploy-core") IN
  /\ plan \in Seq(AllSteps) /\ DOMAIN plan = 1..17
  /\ plan[1] = Plain("deploy", "vault") /\ plan[2] = Plain("deploy", "risk")
  /\ plan[3] = Plain("deploy", "engine") /\ plan[4] = Plain("deploy", "gateway")
  /\ plan[5] = Plain("init", "vault") /\ plan[6] = Plain("init", "risk")
  /\ plan[7] = Plain("init", "engine") /\ plan[8] = Plain("init", "gateway")
  /\ plan[9] = Call("vault", "engine") /\ plan[10] = Call("engine", "gateway")
  /\ plan[11] = Put("gateway", "operator") /\ plan[12] = Put("gateway", "domain")
  /\ plan[13] = Put("vault", "collateral") /\ plan[14] = Call("engine", "insurance")
  /\ plan[15] = Put("engine", "market") /\ plan[16] = Put("vault", "market")
  /\ plan[17] = Plain("patch", "")
<1>. DEFINE S == AllSteps
            patch == <<Plain("patch", "")>>
<1>1. /\ DeployCore \in Seq(S) /\ Len(DeployCore) = 4 /\ InitCore \in Seq(S) /\ Len(InitCore) = 4
      /\ CoreWiring \in Seq(S) /\ Len(CoreWiring) = 6 /\ CoreMarket \in Seq(S) /\ Len(CoreMarket) = 2
      /\ patch \in Seq(S) /\ Len(patch) = 1 /\ patch[1] = Plain("patch", "")
  <2>0. /\ \A a \in S : <<a>> \in Seq(S) /\ Len(<<a>>) = 1 /\ <<a>>[1] = a
        /\ \A a, b \in S : <<a, b>> \in Seq(S) /\ Len(<<a, b>>) = 2
        /\ \A a, b, c, d \in S : <<a, b, c, d>> \in Seq(S) /\ Len(<<a, b, c, d>>) = 4
        /\ \A a, b, c, d, e, f \in S : <<a, b, c, d, e, f>> \in Seq(S) /\ Len(<<a, b, c, d, e, f>>) = 6
    <3>. HIDE DEF S
    <3>. QED
      OBVIOUS
  <2>1. \A op \in {"deploy", "init"}, n \in {"vault", "risk", "engine", "gateway"} : Plain(op, n) \in S
    BY AllPlain, NameSetIs DEF PlainOps
  <2>2. /\ Call("vault", "engine") \in S /\ Call("engine", "gateway") \in S /\ Call("engine", "insurance") \in S
        /\ Put("gateway", "operator") \in S /\ Put("gateway", "domain") \in S /\ Put("vault", "collateral") \in S
        /\ Put("engine", "market") \in S /\ Put("vault", "market") \in S
    BY AllCall, AllPut, NameSetIs DEF Slots
  <2>3. Plain("patch", "") \in S
    BY AllLocal
  <2>. HIDE DEF S
  <2>4. DeployCore \in Seq(S) /\ Len(DeployCore) = 4 /\ InitCore \in Seq(S) /\ Len(InitCore) = 4
    <3>1. DeployCore \in Seq(S) /\ Len(DeployCore) = 4
      BY <2>0, <2>1, Zenon DEF DeployCore
    <3>2. InitCore \in Seq(S) /\ Len(InitCore) = 4
      BY <2>0, <2>1, Zenon DEF InitCore
    <3>. QED
      BY <3>1, <3>2
  <2>5. CoreWiring \in Seq(S) /\ Len(CoreWiring) = 6
    BY <2>0, <2>2, Zenon DEF CoreWiring
  <2>6. CoreMarket \in Seq(S) /\ Len(CoreMarket) = 2
    BY <2>0, <2>2, Zenon DEF CoreMarket
  <2>. QED
    BY <2>0, <2>3, <2>4, <2>5, <2>6, Zenon
<1>2. Plan("redeploy-core") = DeployCore \o InitCore \o CoreWiring \o CoreMarket \o patch
  BY CoreInstancesAre DEF Plan, RedeployCorePlan, Plain
<1>. DEFINE D == Plan("redeploy-core")
<1>. HIDE DEF S, patch, D
<1>3. D \in Seq(S) /\ InParts(D, DeployCore, InitCore, CoreWiring, CoreMarket, patch)
  <2>1. D = DeployCore \o InitCore \o CoreWiring \o CoreMarket \o patch
    BY <1>2 DEF D
  <2>. QED
    BY <1>1, <2>1, FiveParts
<1>7. /\ DeployCore[1] = Plain("deploy", "vault") /\ DeployCore[2] = Plain("deploy", "risk")
      /\ DeployCore[3] = Plain("deploy", "engine") /\ DeployCore[4] = Plain("deploy", "gateway")
      /\ InitCore[1] = Plain("init", "vault") /\ InitCore[2] = Plain("init", "risk")
      /\ InitCore[3] = Plain("init", "engine") /\ InitCore[4] = Plain("init", "gateway")
  BY DEF DeployCore, InitCore
<1>8. /\ CoreWiring[1] = Call("vault", "engine") /\ CoreWiring[2] = Call("engine", "gateway")
      /\ CoreWiring[3] = Put("gateway", "operator") /\ CoreWiring[4] = Put("gateway", "domain")
      /\ CoreWiring[5] = Put("vault", "collateral") /\ CoreWiring[6] = Call("engine", "insurance")
      /\ CoreMarket[1] = Put("engine", "market") /\ CoreMarket[2] = Put("vault", "market")
  BY DEF CoreWiring, CoreMarket
<1>9. /\ D[1] = DeployCore[1] /\ D[2] = DeployCore[2] /\ D[3] = DeployCore[3] /\ D[4] = DeployCore[4]
      /\ D[5] = InitCore[1] /\ D[6] = InitCore[2] /\ D[7] = InitCore[3] /\ D[8] = InitCore[4]
  BY <1>3 DEF InParts
<1>10. /\ D[9] = CoreWiring[1] /\ D[10] = CoreWiring[2] /\ D[11] = CoreWiring[3] /\ D[12] = CoreWiring[4]
       /\ D[13] = CoreWiring[5] /\ D[14] = CoreWiring[6]
  BY <1>3 DEF InParts
<1>. QED
  BY <1>1, <1>3, <1>7, <1>8, <1>9, <1>10, Zenon DEF D, S, InParts

\* The steps of redeploy-engine-xlm, with which setup-usdc goes on.
EngineDeploys ==
  <<Plain("deploy", "engine"), Plain("deploy", "gateway"), Plain("init", "engine"), Plain("init", "gateway"),
    Call("vault", "engine"), Call("engine", "gateway")>>

LEMMA EngineStepsAre ==
  /\ Plain("deploy", "engine") \in AllSteps /\ Plain("deploy", "gateway") \in AllSteps
  /\ Plain("init", "engine") \in AllSteps /\ Plain("init", "gateway") \in AllSteps
  /\ Call("vault", "engine") \in AllSteps /\ Call("engine", "gateway") \in AllSteps
  /\ Put("engine", "market") \in AllSteps /\ Put("vault", "market") \in AllSteps
  /\ Put("oracle", "feed") \in AllSteps /\ Put("vault", "collateral") \in AllSteps
  /\ Plain("patchMissing", "") \in AllSteps
<1>1. \A op \in {"deploy", "init"}, n \in {"engine", "gateway"} : Plain(op, n) \in AllSteps
  BY AllPlain, NameSetIs DEF PlainOps
<1>2. /\ Call("vault", "engine") \in AllSteps /\ Call("engine", "gateway") \in AllSteps
      /\ Put("engine", "market") \in AllSteps /\ Put("vault", "market") \in AllSteps
      /\ Put("oracle", "feed") \in AllSteps /\ Put("vault", "collateral") \in AllSteps
  BY AllCall, AllPut, NameSetIs DEF Slots
<1>. QED
  BY <1>1, <1>2, AllLocal, Zenon

LEMMA EnginePlanAt ==
  /\ EnginePlan \in Seq(AllSteps) /\ Len(EnginePlan) = 9
  /\ EnginePlan[1] = Plain("deploy", "engine") /\ EnginePlan[2] = Plain("deploy", "gateway")
  /\ EnginePlan[3] = Plain("init", "engine") /\ EnginePlan[4] = Plain("init", "gateway")
  /\ EnginePlan[5] = Call("vault", "engine") /\ EnginePlan[6] = Call("engine", "gateway")
  /\ EnginePlan[7] = Put("engine", "market") /\ EnginePlan[8] = Put("vault", "market")
  /\ EnginePlan[9] = Plain("patchMissing", "")
<1>. DEFINE S == AllSteps
            patch == <<Plain("patchMissing", "")>>
            A == EngineDeploys \o CoreMarket
            D == A \o patch
<1>1. EnginePlan = D
  BY Zenon DEF EnginePlan, EngineDeploys, Deploy, Init_, Plain
<1>2. /\ EngineDeploys \in Seq(S) /\ Len(EngineDeploys) = 6 /\ CoreMarket \in Seq(S) /\ Len(CoreMarket) = 2
      /\ patch \in Seq(S) /\ Len(patch) = 1 /\ patch[1] = Plain("patchMissing", "")
  <2>0. /\ \A a \in S : <<a>> \in Seq(S) /\ Len(<<a>>) = 1 /\ <<a>>[1] = a
        /\ \A a, b \in S : <<a, b>> \in Seq(S) /\ Len(<<a, b>>) = 2
        /\ \A a, b, c, d, e, f \in S : <<a, b, c, d, e, f>> \in Seq(S) /\ Len(<<a, b, c, d, e, f>>) = 6
    <3>. HIDE DEF S
    <3>. QED
      OBVIOUS
  <2>1. EngineDeploys \in Seq(S) /\ Len(EngineDeploys) = 6
    BY <2>0, EngineStepsAre, Zenon DEF EngineDeploys
  <2>2. CoreMarket \in Seq(S) /\ Len(CoreMarket) = 2
    BY <2>0, EngineStepsAre, Zenon DEF CoreMarket
  <2>. QED
    BY <2>0, <2>1, <2>2, EngineStepsAre, Zenon
<1>. HIDE DEF S, patch
<1>3. A \in Seq(S) /\ Glues(A, EngineDeploys, CoreMarket, 6, 2)
  BY <1>2, Glued
<1>. HIDE DEF A
<1>4. D \in Seq(S) /\ Glues(D, A, patch, 8, 1)
  <2>1. Len(A) = 8
    BY <1>3 DEF Glues
  <2>. QED
    BY <1>2, <1>3, <2>1, Glued
<1>. HIDE DEF D
<1>5. \A i \in 1..8 : D[i] = A[i]
  BY <1>4 DEF Glues
<1>6. \A i \in 1..6 : D[i] = EngineDeploys[i]
  BY <1>3, <1>5 DEF Glues
<1>7. D[7] = CoreMarket[1] /\ D[8] = CoreMarket[2] /\ D[9] = patch[1] /\ Len(D) = 9
  <2>0. 1 \in 1..2 /\ 2 \in 1..2 /\ 1 \in 1..1 /\ 7 \in 1..8 /\ 8 \in 1..8 /\ 7 = 6 + 1 /\ 8 = 6 + 2 /\ 9 = 8 + 1
    OBVIOUS
  <2>1. A[7] = CoreMarket[1] /\ A[8] = CoreMarket[2]
    BY <1>3, <2>0, Zenon DEF Glues
  <2>2. D[9] = patch[1] /\ Len(D) = 9
    BY <1>4, <2>0, Zenon DEF Glues
  <2>. QED
    BY <2>0, <2>1, <2>2, <1>5, Zenon
<1>8. /\ EngineDeploys[1] = Plain("deploy", "engine") /\ EngineDeploys[2] = Plain("deploy", "gateway")
      /\ EngineDeploys[3] = Plain("init", "engine") /\ EngineDeploys[4] = Plain("init", "gateway")
      /\ EngineDeploys[5] = Call("vault", "engine") /\ EngineDeploys[6] = Call("engine", "gateway")
      /\ CoreMarket[1] = Put("engine", "market") /\ CoreMarket[2] = Put("vault", "market")
  BY DEF EngineDeploys, CoreMarket
<1>9. /\ D[1] = EngineDeploys[1] /\ D[2] = EngineDeploys[2] /\ D[3] = EngineDeploys[3]
      /\ D[4] = EngineDeploys[4] /\ D[5] = EngineDeploys[5] /\ D[6] = EngineDeploys[6]
  BY <1>6
<1>. QED
  BY <1>1, <1>2, <1>4, <1>7, <1>8, <1>9, Zenon DEF S

\* The steps of setup-usdc: the feed and the collateral of USDC, and a new engine.
LEMMA SetupUsdcPlanAt ==
  /\ SetupUsdcPlan \in Seq(AllSteps) /\ DOMAIN SetupUsdcPlan = 1..11
  /\ SetupUsdcPlan[1] = Put("oracle", "feed") /\ SetupUsdcPlan[2] = Put("vault", "collateral")
  /\ \A i \in 1..9 : SetupUsdcPlan[2 + i] = EnginePlan[i]
<1>. DEFINE S == AllSteps
            usdc == <<Put("oracle", "feed"), Put("vault", "collateral")>>
            D == usdc \o EnginePlan
<1>1. SetupUsdcPlan = D
  BY DEF SetupUsdcPlan
<1>2. usdc \in Seq(S) /\ Len(usdc) = 2 /\ usdc[1] = Put("oracle", "feed") /\ usdc[2] = Put("vault", "collateral")
  <2>0. \A a, b \in S : <<a, b>> \in Seq(S) /\ Len(<<a, b>>) = 2 /\ <<a, b>>[1] = a /\ <<a, b>>[2] = b
    <3>. HIDE DEF S
    <3>. QED
      OBVIOUS
  <2>. QED
    BY <2>0, EngineStepsAre, Zenon
<1>3. EnginePlan \in Seq(S) /\ Len(EnginePlan) = 9
  BY EnginePlanAt
<1>. HIDE DEF S, usdc
<1>4. D \in Seq(S) /\ Glues(D, usdc, EnginePlan, 2, 9)
  BY <1>2, <1>3, Glued
<1>. HIDE DEF D
<1>5. D[1] = usdc[1] /\ D[2] = usdc[2] /\ DOMAIN D = 1..11
  BY <1>4 DEF Glues
<1>6. \A i \in 1..9 : D[2 + i] = EnginePlan[i]
  BY <1>4, Zenon DEF Glues
<1>. QED
  BY <1>1, <1>2, <1>4, <1>5, <1>6, Zenon DEF S

\* What a step may be that comes before the deployment of n: a later deployment does not undo it.
Before(st, n) ==
  \/ st.op = "deploy" /\ st.name # n
  \/ st.op = "set" /\ st.slot \notin Core

\* The steps that the core of a new engine needs.
Needs(s) ==
  {Plain("deploy", "engine"), Plain("deploy", "gateway"), Plain("init", "engine"), Plain("init", "gateway"),
   Call("vault", "engine"), Call("engine", "gateway")}
    \cup (IF s = "redeploy-core" THEN {Plain("deploy", "vault"), Plain("init", "vault")} ELSE {})

\* The order of the steps of a script s that puts up a new engine.
BuildsInOrder(plan, s) ==
  /\ plan \in Seq(AllSteps)
  /\ \A i, j \in DOMAIN plan : i < j /\ plan[j].op = "deploy" => Before(plan[i], plan[j].name)
  /\ \A st \in Needs(s) : \E i \in DOMAIN plan :
       plan[i] = st /\ \A j \in DOMAIN plan : plan[j].op \in LocalOps => i < j
  /\ \A j \in DOMAIN plan : plan[j].op \in LocalOps => j + 1 \notin DOMAIN plan
  /\ \A j \in DOMAIN plan :
       IF s = "redeploy-core"
       THEN plan[j].op = "set" /\ plan[j].slot \in Core =>
              \E i \in DOMAIN plan : i < j /\ plan[i] = Plain("deploy", plan[j].name)
       ELSE plan[j].op = "deploy" => plan[j].name # "vault"

LEMMA StepFields ==
  /\ \A op, n : /\ Plain(op, n).op = op /\ Plain(op, n).name = n
  /\ \A n, s : /\ Call(n, s).op = "set" /\ Call(n, s).name = n /\ Call(n, s).slot = s
               /\ Put(n, s).op = "set" /\ Put(n, s).name = n /\ Put(n, s).slot = s
BY DEF Plain, Call, Put, Step

LEMMA CoreBuilds == BuildsInOrder(Plan("redeploy-core"), "redeploy-core")
<1>. DEFINE plan == Plan("redeploy-core")
<1>1. DOMAIN plan = 1..17 /\ plan \in Seq(AllSteps)
  BY CorePlanAt
<1>2. /\ plan[1] = Plain("deploy", "vault") /\ plan[2] = Plain("deploy", "risk")
      /\ plan[3] = Plain("deploy", "engine") /\ plan[4] = Plain("deploy", "gateway")
      /\ plan[5] = Plain("init", "vault") /\ plan[6] = Plain("init", "risk")
      /\ plan[7] = Plain("init", "engine") /\ plan[8] = Plain("init", "gateway")
      /\ plan[9] = Call("vault", "engine") /\ plan[10] = Call("engine", "gateway")
  BY CorePlanAt
<1>3. /\ plan[11] = Put("gateway", "operator") /\ plan[12] = Put("gateway", "domain")
      /\ plan[13] = Put("vault", "collateral") /\ plan[14] = Call("engine", "insurance")
      /\ plan[15] = Put("engine", "market") /\ plan[16] = Put("vault", "market")
  BY CorePlanAt
<1>14. plan[17] = Plain("patch", "")
  BY CorePlanAt
<1>. HIDE DEF plan
<1>4. /\ plan[1].op = "deploy" /\ plan[2].op = "deploy" /\ plan[3].op = "deploy" /\ plan[4].op = "deploy"
      /\ plan[1].name = "vault" /\ plan[2].name = "risk" /\ plan[3].name = "engine" /\ plan[4].name = "gateway"
  BY <1>2, StepFields
<1>5. /\ plan[5].op = "init" /\ plan[6].op = "init" /\ plan[7].op = "init" /\ plan[8].op = "init"
      /\ plan[9].op = "set" /\ plan[10].op = "set" /\ plan[11].op = "set" /\ plan[12].op = "set"
      /\ plan[13].op = "set" /\ plan[14].op = "set" /\ plan[15].op = "set" /\ plan[16].op = "set"
      /\ plan[17].op = "patch"
  <2>1. plan[5].op = "init" /\ plan[6].op = "init" /\ plan[7].op = "init" /\ plan[8].op = "init"
    BY <1>2, StepFields
  <2>2. plan[9].op = "set" /\ plan[10].op = "set"
    BY <1>2, StepFields
  <2>3. plan[11].op = "set" /\ plan[12].op = "set" /\ plan[13].op = "set" /\ plan[14].op = "set"
    BY <1>3, StepFields
  <2>4. plan[15].op = "set" /\ plan[16].op = "set"
    BY <1>3, StepFields
  <2>5. plan[17].op = "patch"
    BY <1>14, StepFields
  <2>. QED
    BY <2>1, <2>2, <2>3, <2>4, <2>5
<1>6. /\ plan[11].slot \notin Core /\ plan[12].slot \notin Core /\ plan[13].slot \notin Core
      /\ plan[14].slot \notin Core /\ plan[15].slot \notin Core /\ plan[16].slot \notin Core
      /\ plan[9].name = "vault" /\ plan[10].name = "engine"
  <2>1. plan[11].slot = "operator" /\ plan[12].slot = "domain" /\ plan[13].slot = "collateral"
    BY <1>3, StepFields
  <2>2. plan[14].slot = "insurance" /\ plan[15].slot = "market" /\ plan[16].slot = "market"
    BY <1>3, StepFields
  <2>3. plan[9].name = "vault" /\ plan[10].name = "engine"
    BY <1>2, StepFields
  <2>. QED
    BY <2>1, <2>2, <2>3 DEF Core
<1>7. \A i \in 1..17 : plan[i].op = "deploy" => i \in 1..4
  BY <1>5
<1>8. \A i \in 1..17 : plan[i].op \in LocalOps => i = 17
  BY <1>4, <1>5 DEF LocalOps
<1>9. \A i \in 1..17 : plan[i].op = "set" /\ plan[i].slot \in Core => i \in {9, 10}
  BY <1>4, <1>5, <1>6
<1>10. \A i, j \in DOMAIN plan : i < j /\ plan[j].op = "deploy" => Before(plan[i], plan[j].name)
  BY <1>1, <1>4, <1>7, SMTT(30) DEF Before
<1>11. \A st \in Needs("redeploy-core") : \E i \in 1..16 : plan[i] = st
  <2>1. Needs("redeploy-core") = {plan[3], plan[4], plan[7], plan[8], plan[9], plan[10], plan[1], plan[5]}
    BY <1>2 DEF Needs
  <2>2. 1 \in 1..16 /\ 3 \in 1..16 /\ 4 \in 1..16 /\ 5 \in 1..16 /\ 7 \in 1..16 /\ 8 \in 1..16 /\ 9 \in 1..16 /\ 10 \in 1..16
    OBVIOUS
  <2>. QED
    BY <2>1, <2>2, Zenon
<1>12. ASSUME NEW st \in Needs("redeploy-core")
       PROVE  \E i \in DOMAIN plan : plan[i] = st /\ \A j \in DOMAIN plan : plan[j].op \in LocalOps => i < j
  <2>1. PICK i \in 1..16 : plan[i] = st
    BY <1>11
  <2>2. \A j \in DOMAIN plan : plan[j].op \in LocalOps => i < j
    BY <1>1, <1>8
  <2>. QED
    BY <1>1, <2>1, <2>2
<1>13. ASSUME NEW j \in DOMAIN plan, plan[j].op = "set", plan[j].slot \in Core
       PROVE  \E i \in DOMAIN plan : i < j /\ plan[i] = Plain("deploy", plan[j].name)
  <2>1. CASE j = 9
    BY <1>1, <1>2, <1>6, <2>1
  <2>2. CASE j = 10
    BY <1>1, <1>2, <1>6, <2>2
  <2>. QED
    BY <1>1, <1>9, <1>13, <2>1, <2>2
<1>15. \A j \in DOMAIN plan : plan[j].op \in LocalOps => j + 1 \notin DOMAIN plan
  BY <1>1, <1>8
<1>. QED
  BY <1>1, <1>10, <1>12, <1>13, <1>15 DEF BuildsInOrder, plan

LEMMA EngineBuilds ==
  ASSUME NEW s \in Relinking
  PROVE  BuildsInOrder(EnginePlan, s)
<1>. DEFINE plan == EnginePlan
<1>0. plan \in Seq(AllSteps) /\ Len(plan) = 9
  BY EnginePlanAt
<1>1. /\ plan[1] = Plain("deploy", "engine") /\ plan[2] = Plain("deploy", "gateway")
      /\ plan[3] = Plain("init", "engine") /\ plan[4] = Plain("init", "gateway")
      /\ plan[5] = Call("vault", "engine") /\ plan[6] = Call("engine", "gateway")
      /\ plan[7] = Put("engine", "market") /\ plan[8] = Put("vault", "market")
  BY EnginePlanAt, Zenon
<1>10. plan[9] = Plain("patchMissing", "")
  BY EnginePlanAt, Zenon
<1>2. s # "redeploy-core"
  BY DEF Relinking
<1>. HIDE DEF plan
<1>11. DOMAIN plan = 1..9
  BY <1>0
<1>3. /\ plan[1].op = "deploy" /\ plan[2].op = "deploy" /\ plan[1].name = "engine" /\ plan[2].name = "gateway"
      /\ plan[3].op = "init" /\ plan[4].op = "init" /\ plan[5].op = "set" /\ plan[6].op = "set"
      /\ plan[7].op = "set" /\ plan[8].op = "set" /\ plan[9].op = "patchMissing"
  <2>1. plan[1].op = "deploy" /\ plan[2].op = "deploy" /\ plan[1].name = "engine" /\ plan[2].name = "gateway"
    BY <1>1, StepFields
  <2>2. plan[3].op = "init" /\ plan[4].op = "init" /\ plan[5].op = "set" /\ plan[6].op = "set"
    BY <1>1, StepFields
  <2>3. plan[7].op = "set" /\ plan[8].op = "set"
    BY <1>1, StepFields
  <2>4. plan[9].op = "patchMissing"
    BY <1>10, StepFields
  <2>. QED
    BY <2>1, <2>2, <2>3, <2>4
<1>4. \A i \in 1..9 : plan[i].op = "deploy" => i \in 1..2
  BY <1>3
<1>5. \A i \in 1..9 : plan[i].op \in LocalOps => i = 9
  BY <1>3 DEF LocalOps
<1>6. \A i, j \in DOMAIN plan : i < j /\ plan[j].op = "deploy" => Before(plan[i], plan[j].name)
  BY <1>11, <1>3, <1>4 DEF Before
<1>7. \A j \in DOMAIN plan : plan[j].op = "deploy" => plan[j].name # "vault"
  BY <1>11, <1>3, <1>4
<1>8. \A st \in Needs(s) : \E i \in 1..8 : plan[i] = st
  <2>1. Needs(s) = {plan[1], plan[2], plan[3], plan[4], plan[5], plan[6]}
    BY <1>1, <1>2 DEF Needs
  <2>2. 1 \in 1..8 /\ 2 \in 1..8 /\ 3 \in 1..8 /\ 4 \in 1..8 /\ 5 \in 1..8 /\ 6 \in 1..8
    OBVIOUS
  <2>. QED
    BY <2>1, <2>2, Zenon
<1>9. ASSUME NEW st \in Needs(s)
      PROVE  \E i \in DOMAIN plan : plan[i] = st /\ \A j \in DOMAIN plan : plan[j].op \in LocalOps => i < j
  <2>1. PICK i \in 1..8 : plan[i] = st
    BY <1>8
  <2>2. \A j \in DOMAIN plan : plan[j].op \in LocalOps => i < j
    BY <1>11, <1>5
  <2>. QED
    BY <1>11, <2>1, <2>2
<1>12. \A j \in DOMAIN plan : plan[j].op \in LocalOps => j + 1 \notin DOMAIN plan
  BY <1>11, <1>5
<1>. QED
  BY <1>0, <1>2, <1>6, <1>7, <1>9, <1>12 DEF BuildsInOrder, plan

LEMMA SetupUsdcBuilds == BuildsInOrder(SetupUsdcPlan, "setup-usdc")
<1>. DEFINE plan == SetupUsdcPlan
            engine == EnginePlan
<1>1. BuildsInOrder(engine, "setup-usdc")
  BY EngineBuilds DEF Relinking
<1>2. DOMAIN engine = 1..9
  <2>1. engine \in Seq(AllSteps) /\ Len(engine) = 9
    BY EnginePlanAt
  <2>. HIDE DEF engine
  <2>. QED
    BY <2>1
<1>3. /\ plan \in Seq(AllSteps) /\ DOMAIN plan = 1..11
      /\ plan[1] = Put("oracle", "feed") /\ plan[2] = Put("vault", "collateral")
      /\ \A i \in 1..9 : plan[2 + i] = engine[i]
  BY SetupUsdcPlanAt, Zenon
<1>. HIDE DEF plan, engine
<1>4. /\ plan[1].op = "set" /\ plan[1].slot = "feed" /\ plan[2].op = "set" /\ plan[2].slot = "collateral"
  BY <1>3, StepFields
<1>5. ASSUME NEW i \in DOMAIN plan, i > 2
      PROVE  i - 2 \in DOMAIN engine /\ plan[i] = engine[i - 2]
  <2>1. i - 2 \in 1..9 /\ i = 2 + (i - 2)
    BY <1>3, <1>5
  <2>. QED
    BY <1>2, <1>3, <2>1
<1>6. \A i \in DOMAIN plan : i <= 2 => plan[i].op = "set" /\ plan[i].slot \notin Core
  BY <1>3, <1>4 DEF Core
<1>7. ASSUME NEW i \in DOMAIN plan, NEW j \in DOMAIN plan, i < j, plan[j].op = "deploy"
      PROVE  Before(plan[i], plan[j].name)
  <2>1. CASE i <= 2
    BY <1>6, <2>1 DEF Before
  <2>2. CASE i > 2
    <3>1. i \in Int /\ j \in Int /\ j > 2 /\ i - 2 < j - 2
      BY <1>3, <1>7, <2>2
    <3>. QED
      BY <1>1, <1>5, <1>7, <2>2, <3>1 DEF BuildsInOrder
  <2>. QED
    BY <1>3, <2>1, <2>2
<1>8. ASSUME NEW st \in Needs("setup-usdc")
      PROVE  \E i \in DOMAIN plan : plan[i] = st /\ \A j \in DOMAIN plan : plan[j].op \in LocalOps => i < j
  <2>1. PICK i \in DOMAIN engine : engine[i] = st /\ \A j \in DOMAIN engine : engine[j].op \in LocalOps => i < j
    BY <1>1 DEF BuildsInOrder
  <2>2. 2 + i \in DOMAIN plan /\ plan[2 + i] = st
    BY <1>2, <1>3, <2>1
  <2>3. ASSUME NEW j \in DOMAIN plan, plan[j].op \in LocalOps
        PROVE  2 + i < j
    <3>1. j > 2
      BY <1>3, <1>6, <2>3 DEF LocalOps
    <3>2. i < j - 2
      BY <1>5, <2>1, <2>3, <3>1
    <3>. QED
      BY <1>2, <1>3, <3>2
  <2>. QED
    BY <2>2, <2>3
<1>9. ASSUME NEW j \in DOMAIN plan, plan[j].op = "deploy"
      PROVE  plan[j].name # "vault"
  <2>1. j > 2
    BY <1>3, <1>6, <1>9
  <2>. QED
    BY <1>1, <1>5, <1>9, <2>1 DEF BuildsInOrder
<1>10. ASSUME NEW j \in DOMAIN plan, plan[j].op \in LocalOps
       PROVE  j + 1 \notin DOMAIN plan
  <2>1. j > 2
    BY <1>3, <1>6, <1>10 DEF LocalOps
  <2>2. j - 2 \in 1..9 /\ engine[j - 2].op \in LocalOps
    BY <1>2, <1>5, <1>10, <2>1
  <2>3. (j - 2) + 1 \notin 1..9
    BY <1>1, <1>2, <2>2 DEF BuildsInOrder
  <2>. QED
    BY <1>3, <2>2, <2>3
<1>. QED
  BY <1>3, <1>7, <1>8, <1>9, <1>10 DEF BuildsInOrder, plan

LEMMA Builds ==
  ASSUME NEW s \in Builders
  PROVE  BuildsInOrder(Plan(s), s)
BY CoreBuilds, EngineBuilds, SetupUsdcBuilds DEF Builders, Relinking, Plan
-----------------------------------------------------------------------------
(* The core of the services while the testnet scripts put up another one. *)

\* Addresses under their names.
Named(c) == c \in [NameSet -> Addresses] /\ \A n \in NameSet : c[n].name = n
Agree(c, d) == \A n \in Core : c[n] = d[n]

\* The instances of c are there, initialized, and wired as CoreStaysWired says.
CoreLive(c) == \A n \in Core : c[n] \in inst /\ admin[c[n]] # "none"
Ready(c) == CoreLive(c) /\ CoreWired(c)

\* The effect of a step of a script that has the addresses ids, while the services have c: a
\* deployment gives a fresh instance, initialize and the wiring calls store references of the core.
EffectOf(st, ids, c, live, stored, owner) ==
  LET a == ids[st.name] IN
  /\ st.op = "deploy" /\ st.name \in Core => a \in live /\ a # c[st.name]
  /\ st.op = "init" /\ st.name \in Core =>
       owner[a] # "none" /\ \A s \in Core : <<s, s>> \in InitRefs(st.name) => stored[a][s] = ids[s]
  /\ st.op = "set" /\ st.name \in Core /\ st.slot \in Core =>
       owner[a] # "none" /\ stored[a][st.slot] = ids[st.slot]

\* What changes between two states of the chain, seen from a script with the addresses ids:
\* instances and admins stay, and an initialized contract keeps its references or gets those of ids.
Evolves(ids, live, stored, owner, live2, stored2, owner2) ==
  /\ live \subseteq live2
  /\ \A a \in Addresses : owner[a] # "none" =>
       /\ owner2[a] # "none"
       /\ \A s \in Core : stored2[a][s] = stored[a][s] \/ (a = ids[a.name] /\ stored2[a][s] = ids[s])

LEMMA EffectKept ==
  ASSUME NEW st \in AllSteps, NEW ids, NEW c, NEW live, NEW stored, NEW owner, NEW live2, NEW stored2, NEW owner2,
         Named(ids), EffectOf(st, ids, c, live, stored, owner),
         Evolves(ids, live, stored, owner, live2, stored2, owner2)
  PROVE  EffectOf(st, ids, c, live2, stored2, owner2)
<1>. DEFINE a == ids[st.name]
<1>1. st.op \in {"deploy", "init", "set"} => a \in Addresses
  BY DEF AllSteps, ContractOps, Named
<1>2. ASSUME NEW s \in Core, stored[a][s] = ids[s], owner[a] # "none", a \in Addresses
      PROVE  stored2[a][s] = ids[s] /\ owner2[a] # "none"
  BY <1>2 DEF Evolves
<1>3. ASSUME a \in Addresses, owner[a] # "none"
      PROVE  owner2[a] # "none"
  BY <1>3 DEF Evolves
<1>4. live \subseteq live2
  BY DEF Evolves
<1>. HIDE DEF a
<1>. QED
  BY <1>1, <1>2, <1>3, <1>4 DEF EffectOf, a

\* A later deployment of n does not undo a step that may come before it.
LEMMA EffectBefore ==
  ASSUME NEW st \in AllSteps, NEW n \in NameSet, NEW x, NEW ids, NEW c, NEW live, NEW stored, NEW owner,
         Named(ids), Before(st, n), EffectOf(st, ids, c, live, stored, owner)
  PROVE  EffectOf(st, [ids EXCEPT ![n] = x], c, live, stored, owner)
<1>1. CASE st.op = "deploy" /\ st.name # n
  <2>1. st.name \in NameSet
    BY <1>1 DEF AllSteps, ContractOps
  <2>2. [ids EXCEPT ![n] = x][st.name] = ids[st.name]
    BY <1>1, <2>1 DEF Named
  <2>. QED
    BY <1>1, <2>2 DEF EffectOf
<1>2. CASE st.op = "set" /\ st.slot \notin Core
  BY <1>2 DEF EffectOf
<1>. QED
  BY <1>1, <1>2 DEF Before

\* A core is ready when the steps it needs have been done.
LEMMA NeedsMakeReady ==
  ASSUME NEW s \in Builders, NEW ids, Named(ids), Named(config), CoreLive(config),
         s \in Relinking => ids["vault"] = config["vault"],
         \A st \in Needs(s) : EffectOf(st, ids, config, inst, slot, admin)
  PROVE  Ready(ids) /\ ids["engine"] # config["engine"]
<1>. DEFINE done(st) == EffectOf(st, ids, config, inst, slot, admin)
<1>1. /\ done(Plain("deploy", "engine")) /\ done(Plain("deploy", "gateway"))
      /\ done(Plain("init", "engine")) /\ done(Plain("init", "gateway"))
      /\ done(Call("vault", "engine")) /\ done(Call("engine", "gateway"))
      /\ s = "redeploy-core" => done(Plain("deploy", "vault")) /\ done(Plain("init", "vault"))
  BY DEF Needs
<1>2. /\ "vault" \in Core /\ "engine" \in Core /\ "gateway" \in Core
      /\ <<"vault", "vault">> \in InitRefs("engine") /\ <<"engine", "engine">> \in InitRefs("gateway")
  BY DEF Core, InitRefs
<1>3. ASSUME NEW n \in Core, done(Plain("deploy", n))
      PROVE  ids[n] \in inst /\ ids[n] # config[n]
  BY <1>3, StepFields DEF EffectOf
<1>4. ASSUME NEW n \in Core, done(Plain("init", n))
      PROVE  admin[ids[n]] # "none" /\ \A r \in Core : <<r, r>> \in InitRefs(n) => slot[ids[n]][r] = ids[r]
  BY <1>4, StepFields DEF EffectOf
<1>5. ASSUME NEW n \in Core, NEW r \in Core, done(Call(n, r))
      PROVE  slot[ids[n]][r] = ids[r]
  BY <1>5, StepFields DEF EffectOf
<1>. HIDE DEF done
<1>6. CoreWired(ids)
  BY <1>1, <1>2, <1>4, <1>5, Zenon DEF CoreWired
<1>7. CoreLive(ids)
  <2>1. /\ ids["engine"] \in inst /\ admin[ids["engine"]] # "none"
        /\ ids["gateway"] \in inst /\ admin[ids["gateway"]] # "none"
    BY <1>1, <1>2, <1>3, <1>4, Zenon
  <2>2. CASE s = "redeploy-core"
    <3>1. ids["vault"] \in inst /\ admin[ids["vault"]] # "none"
      BY <1>1, <1>2, <1>3, <1>4, <2>2, Zenon
    <3>. QED
      BY <2>1, <3>1 DEF CoreLive, Core
  <2>3. CASE s \in Relinking
    <3>1. ids["vault"] \in inst /\ admin[ids["vault"]] # "none"
      BY <1>2, <2>3, Zenon DEF CoreLive
    <3>. QED
      BY <2>1, <3>1 DEF CoreLive, Core
  <2>. QED
    BY <2>2, <2>3 DEF Builders
<1>. QED
  BY <1>1, <1>2, <1>3, <1>6, <1>7 DEF Ready

\* What the scripts and the transactions name.
ChainShape == DOMAIN slot = Addresses /\ \A a \in Addresses : DOMAIN slot[a] = Slots
TxTyped(t) ==
  /\ t.op \in ContractOps => t.at \in Addresses
  /\ t.op = "set" => t.slot \in Slots /\ t.to = Target(t.slot)
TestTyped == ChainShape /\ Named(config) /\ Named(offer) /\ Named(run.ids) /\ \A t \in txs : TxTyped(t)

\* The transaction t was sent for the step st of the running script.
DoneBy(st) == EffectOf(st, run.ids, config, inst, slot, admin)
SentBy(t, st) ==
  /\ t.op = st.op /\ t.slot = st.slot /\ t.to = st.to
  /\ st.op # "deploy" => t.ids = run.ids
  /\ st.name \in NameSet => t.at = run.ids[st.name]
  /\ st.op = "deploy" /\ st.name \in Core => run.ids[st.name] # config[st.name]
OfStep(t) ==
  /\ t.op = Now.op
  /\ t.op = "set" => t.ids = run.ids /\ t.at = run.ids[t.at.name]

\* A script that puts up a new engine has done the steps before the one at hand. Transactions of
\* the script before it may still land at its first step; from then on there are only its own.
Building ==
  /\ \A i \in DOMAIN Plan(run.script) : i < run.pc => DoneBy(Plan(run.script)[i])
  /\ run.out # "none" \/ run.try # 1 => Active /\ Now.op \notin LocalOps
  /\ run.out = "pending" => SentBy(run.tx, Now)
  /\ run.out = "ok" => txs = {} /\ DoneBy(Now)
  /\ run.out = "none" /\ run.try = 1 /\ run.pc > 1 => txs = {}
  /\ run.pc > 1 => \A t \in txs : OfStep(t)

ScriptInv ==
  /\ run.script \in TestnetScripts \cup {"idle"} /\ run.pc \in Nat \ {0} /\ run.try \in Nat \ {0}
  /\ run.script \in TestnetScripts \ Builders => Agree(run.ids, config)
  /\ run.script \in Relinking => run.script \in ran /\ run.ids["vault"] = config["vault"]
  /\ run.script \in Builders => Building

\* The addresses that the operator may adopt are those of a finished script.
OfferInv ==
  IF offer["engine"] = config["engine"] THEN Agree(offer, config)
  ELSE ~Active /\ txs = {} /\ Ready(offer)

\* A transaction that would change a reference of the core of c.
Relinks(t, c) == t.op = "set" /\ t.slot \in Core /\ \E n \in Core : t.at = c[n]
LiveInv ==
  /\ CoreLive(config)
  /\ ran \cap Relinking = {} => CoreWired(config) /\ \A t \in txs : ~Relinks(t, config)

CoreInv == TestTyped /\ ScriptInv /\ OfferInv /\ LiveInv

LEMMA BuildNow ==
  ASSUME run.script \in Builders, Active
  PROVE  /\ run.pc \in DOMAIN Plan(run.script) /\ Now = Plan(run.script)[run.pc] /\ Now \in AllSteps
<1>1. run.pc \in DOMAIN Plan(run.script) /\ Now = Plan(run.script)[run.pc]
  BY DEF Active, Running, Now
<1>2. Plan(run.script) \in Seq(AllSteps)
  BY Builds DEF BuildsInOrder
<1>. QED
  BY <1>1, <1>2

LEMMA TameNow ==
  ASSUME run.script \in TestnetScripts \ Builders, Active
  PROVE  Now \in TameSteps
<1>1. run.pc \in DOMAIN Plan(run.script) /\ Now = Plan(run.script)[run.pc]
  BY DEF Active, Running, Now
<1>2. Plan(run.script) \in Seq(TameSteps)
  BY TamePlans
<1>. QED
  BY <1>1, <1>2

\* What a landing transaction writes.
LEMMA LandWrites ==
  ASSUME ChainShape, NEW t, TxTyped(t), Land(t) \/ Drop(t)
  PROVE  /\ ChainShape' /\ inst \subseteq inst'
         /\ \A a \in Addresses, s \in Slots :
              \/ slot'[a][s] = slot[a][s]
              \/ a = t.at /\ t.op = "set" /\ s = t.slot /\ slot'[a][s] = Value(t.ids, t.to)
              \/ a = t.at /\ t.op = "init" /\ admin[a] = "none"
<1>1. CASE UNCHANGED <<slot, inst>>
  BY <1>1 DEF ChainShape
<1>2. CASE LandPlain(t) \/ LandDeploy(t)
  BY <1>2 DEF LandPlain, LandDeploy, ChainShape
<1>3. CASE LandSet(t)
  <2>1. /\ slot' = [slot EXCEPT ![t.at][t.slot] = Value(t.ids, t.to)] /\ inst' = inst /\ t.op = "set"
        /\ t.at \in Addresses /\ t.slot \in Slots
    BY <1>3 DEF LandSet, TxTyped, ContractOps
  <2>2. ChainShape'
    BY <2>1 DEF ChainShape
  <2>3. \A a \in Addresses, s \in Slots :
          slot'[a][s] = IF a = t.at /\ s = t.slot THEN Value(t.ids, t.to) ELSE slot[a][s]
    BY <2>1 DEF ChainShape
  <2>. QED
    BY <2>1, <2>2, <2>3
<1>4. CASE LandInit(t)
  <2>. DEFINE stored == [s \in Slots |-> IF RefsOf(t.at.name, s) = {} THEN slot[t.at][s]
                                         ELSE Value(t.ids, RefOf(t.at.name, s))]
  <2>0. slot' = [slot EXCEPT ![t.at] = stored]
    BY <1>4, Zenon DEF LandInit, RefsOf, RefOf
  <2>1. slot' = [slot EXCEPT ![t.at] = stored] /\ DOMAIN stored = Slots
    BY <2>0
  <2>. HIDE DEF stored
  <2>2. inst' = inst /\ t.op = "init" /\ t.at \in Addresses /\ admin[t.at] = "none"
    BY <1>4 DEF LandInit, Initialize, CanInitialize, TxTyped, ContractOps
  <2>3. ChainShape'
    BY <2>1, <2>2 DEF ChainShape
  <2>4. \A a \in Addresses : a # t.at => slot'[a] = slot[a]
    BY <2>1, <2>2 DEF ChainShape
  <2>. QED
    BY <2>2, <2>3, <2>4
<1>. QED
  BY <1>1, <1>2, <1>3, <1>4 DEF Land, Drop, LandDeposit, LandCeremony, chain

LEMMA AdminStays ==
  ASSUME GovInv, [Next]_vars
  PROVE  \A a \in Addresses : admin[a] # "none" => admin'[a] # "none"
<1>1. HandoverStep
  BY NextCalls, CallsKeepTimelock DEF GovInv
<1>. QED
  BY <1>1 DEF HandoverStep

\* What a transaction of the step at hand, or of none, makes of what was done.
LEMMA LandEvolves ==
  ASSUME ChainShape, NEW t, TxTyped(t), OfStep(t), Named(run.ids), Land(t) \/ Drop(t),
         \A a \in Addresses : admin[a] # "none" => admin'[a] # "none"
  PROVE  Evolves(run.ids, inst, slot, admin, inst', slot', admin')
<1>1. ASSUME NEW a \in Addresses, NEW s \in Core, admin[a] # "none", slot'[a][s] # slot[a][s]
      PROVE  a = run.ids[a.name] /\ slot'[a][s] = run.ids[s]
  <2>1. s \in Slots /\ s \in NameSet
    BY CoreNames
  <2>2. a = t.at /\ t.op = "set" /\ s = t.slot /\ slot'[a][s] = Value(t.ids, t.to)
    BY <1>1, <2>1, LandWrites
  <2>3. t.ids = run.ids /\ t.at = run.ids[t.at.name] /\ t.to = s
    BY <2>1, <2>2 DEF OfStep, TxTyped, Target
  <2>. QED
    BY <2>1, <2>2, <2>3 DEF Value
<1>2. inst \subseteq inst'
  BY LandWrites
<1>. QED
  BY <1>1, <1>2 DEF Evolves

\* A transaction of a step that lands has the effect of the step.
LEMMA LandsEffect ==
  ASSUME ChainShape, GovTyped, NEW t, NEW st \in AllSteps, TxTyped(t), SentBy(t, st), Named(run.ids), LandsOk(t)
  PROVE  EffectOf(st, run.ids, config, inst', slot', admin')
<1>. DEFINE a == run.ids[st.name]
<1>1. st.op \in {"deploy", "init", "set"} => st.name \in NameSet /\ t.at = a /\ a \in Addresses /\ a.name = st.name
  BY DEF AllSteps, ContractOps, SentBy, Named
<1>2. t.op = st.op
  BY DEF SentBy
<1>3. CASE st.op = "deploy" /\ st.name \in Core
  <2>1. t.at \in inst'
    BY <1>2, <1>3 DEF LandsOk, LandPlain, LandDeploy, LandInit, LandSet, LandDeposit, LandCeremony
  <2>. QED
    BY <1>1, <1>3, <2>1 DEF EffectOf, SentBy
<1>4. CASE st.op = "init" /\ st.name \in Core
  <2>1. LandInit(t)
    BY <1>2, <1>4 DEF LandsOk, LandPlain, LandDeploy, LandSet, LandDeposit, LandCeremony
  <2>2. t.ids = run.ids /\ t.at = a /\ a \in Addresses /\ a.name = st.name
    BY <1>1, <1>4 DEF SentBy
  <2>3. admin'[a] = "eoa"
    BY <2>1, <2>2 DEF LandInit, Initialize, GovTyped
  <2>4. slot' = [slot EXCEPT ![t.at] = [s \in Slots |->
          IF RefsOf(t.at.name, s) = {} THEN slot[t.at][s] ELSE Value(t.ids, RefOf(t.at.name, s))]]
    BY <2>1, Zenon DEF LandInit, RefsOf, RefOf
  <2>5. \A s \in Slots : slot'[a][s] =
          IF RefsOf(st.name, s) = {} THEN slot[a][s] ELSE Value(run.ids, RefOf(st.name, s))
    BY <2>2, <2>4 DEF ChainShape
  <2>6. ASSUME NEW s \in Core, <<s, s>> \in InitRefs(st.name)
        PROVE  slot'[a][s] = run.ids[s]
    <3>1. s \in Slots /\ s \in NameSet /\ st.name \in NameSet
      BY <1>4, CoreNames
    <3>2. RefsOf(st.name, s) # {}
      BY <2>6 DEF RefsOf
    <3>3. RefOf(st.name, s) = s
      BY <2>6, <3>1, <3>2, RefChosen
    <3>. QED
      BY <2>5, <3>1, <3>2, <3>3 DEF Value
  <2>. QED
    BY <1>4, <2>3, <2>6 DEF EffectOf
<1>5. CASE st.op = "set" /\ st.name \in Core /\ st.slot \in Core
  <2>1. LandSet(t)
    BY <1>2, <1>5 DEF LandsOk, LandPlain, LandDeploy, LandInit, LandDeposit, LandCeremony
  <2>2. t.ids = run.ids /\ t.at = a /\ a \in Addresses /\ t.slot = st.slot /\ t.to = st.slot
    BY <1>1, <1>2, <1>5, CoreNames DEF SentBy, TxTyped, Target
  <2>3. st.slot \in Slots /\ st.slot \in NameSet /\ st.slot # "ttl"
    BY <1>5, CoreNames
  <2>4. slot' = [slot EXCEPT ![a][st.slot] = Value(run.ids, st.slot)] /\ admin' = admin /\ admin[a] = "eoa"
    BY <1>2, <1>5, <2>1, <2>2, <2>3 DEF LandSet, Valid, govVars
  <2>5. slot'[a][st.slot] = run.ids[st.slot]
    BY <2>2, <2>3, <2>4 DEF ChainShape, Value
  <2>. QED
    BY <1>5, <2>4, <2>5 DEF EffectOf
<1>6. CASE /\ ~(st.op = "deploy" /\ st.name \in Core) /\ ~(st.op = "init" /\ st.name \in Core)
           /\ ~(st.op = "set" /\ st.name \in Core /\ st.slot \in Core)
  BY <1>6 DEF EffectOf
<1>. QED
  BY <1>3, <1>4, <1>5, <1>6

\* The network answers a script, or not: what it has done stays done.
LEMMA BuildingStays ==
  ASSUME ScriptInv, run.script \in Builders, Named(run.ids), txs' \subseteq txs, config' = config,
         run'.script = run.script, run'.pc = run.pc, run'.try = run.try, run'.ids = run.ids, run'.tx = run.tx,
         run.pc > 1 \/ run.out = "ok" => Evolves(run.ids, inst, slot, admin, inst', slot', admin'),
         \/ run'.out = run.out
         \/ run.out = "pending" /\ run'.out \in {"gone", "failed"}
         \/ /\ run.out = "pending" /\ run'.out = "ok" /\ txs' = {}
            /\ EffectOf(Now, run.ids, config, inst', slot', admin')
  PROVE  Building'
<1>. DEFINE plan == Plan(run.script)
            i0 == run.pc
            kept(st) == EffectOf(st, run.ids, config, inst', slot', admin')
<1>0. Building /\ run.pc \in Nat \ {0}
  BY DEF ScriptInv
<1>1. plan \in Seq(AllSteps) /\ Plan(run'.script) = plan /\ Now' = Now /\ (Active' <=> Active)
  BY Builds DEF BuildsInOrder, Now, Active, Running
<1>2. ASSUME NEW st \in AllSteps, run.pc > 1 \/ run.out = "ok", DoneBy(st)
      PROVE  kept(st)
  BY <1>2, EffectKept DEF DoneBy
<1>3. \A i \in DOMAIN plan : i < i0 => kept(plan[i])
  <2>. SUFFICES ASSUME NEW i \in DOMAIN plan, i < i0
                PROVE  kept(plan[i])
    OBVIOUS
  <2>1. plan[i] \in AllSteps /\ run.pc > 1
    BY <1>0, <1>1
  <2>2. DoneBy(plan[i])
    BY <1>0 DEF Building
  <2>. QED
    BY <1>2, <2>1, <2>2
<1>4. run.out = "ok" => kept(Now)
  BY <1>0, <1>2, BuildNow DEF Building
<1>. HIDE DEF plan, i0
<1>. QED
  BY <1>0, <1>1, <1>3, <1>4 DEF Building, DoneBy, SentBy, OfStep, plan, i0

\* A script starts: it has done nothing.
LEMMA BuildingStarts ==
  ASSUME run'.script \in Builders, run'.pc = 1, run'.out = "none", run'.try = 1
  PROVE  Building'
<1>1. DOMAIN Plan(run'.script) \subseteq Nat \ {0}
  BY Builds DEF BuildsInOrder
<1>. QED
  BY <1>1 DEF Building

\* It goes on from a step that is done.
LEMMA BuildingMoves ==
  ASSUME ScriptInv, run.script \in Builders, Active, DoneBy(Now), txs = {},
         UNCHANGED <<inst, slot, admin, config, txs>>,
         run'.script = run.script, run'.pc = run.pc + 1, run'.try = 1, run'.ids = run.ids, run'.out = "none"
  PROVE  Building'
<1>. DEFINE plan == Plan(run.script)
<1>1. plan \in Seq(AllSteps) /\ run.pc \in DOMAIN plan /\ Now = plan[run.pc] /\ Plan(run'.script) = plan
  BY Builds, BuildNow DEF BuildsInOrder
<1>2. Building
  BY DEF ScriptInv
<1>3. \A i \in DOMAIN plan : i < run.pc + 1 => i < run.pc \/ i = run.pc
  BY <1>1
<1>. HIDE DEF plan
<1>4. \A i \in DOMAIN plan : i < run.pc + 1 => DoneBy(plan[i])
  BY <1>1, <1>2, <1>3 DEF Building, plan
<1>. QED
  BY <1>1, <1>4 DEF Building, DoneBy

\* It tries a step again.
LEMMA BuildingRetries ==
  ASSUME ScriptInv, run.script \in Builders, Active, Now.op \notin LocalOps,
         UNCHANGED <<inst, slot, admin, config, txs>>,
         run'.script = run.script, run'.pc = run.pc, run'.try = run.try + 1, run'.ids = run.ids, run'.out = "none"
  PROVE  Building'
<1>1. Building /\ run.try \in Nat \ {0}
  BY DEF ScriptInv
<1>2. Now' = Now /\ (Active' <=> Active) /\ Plan(run'.script) = Plan(run.script)
  BY DEF Now, Active, Running
<1>3. run'.try # 1
  BY <1>1
<1>. QED
  BY <1>1, <1>2, <1>3 DEF Building, DoneBy, OfStep

\* It sends the transaction t of the step at hand; a deployment chooses a fresh address.
LEMMA BuildingSends ==
  ASSUME ScriptInv, run.script \in Builders, Active, Now.op \notin LocalOps, run.out = "none", Named(run.ids),
         UNCHANGED <<inst, slot, admin, config>>, NEW t, txs' = txs \cup {t}, SentBy(t, Now)',
         run'.script = run.script, run'.pc = run.pc, run'.out = "pending", run'.tx = t, Named(run'.ids),
         run'.ids = IF Now.op = "deploy" THEN [run.ids EXCEPT ![Now.name] = t.at] ELSE run.ids
  PROVE  Building'
<1>. DEFINE plan == Plan(run.script)
            i0 == run.pc
<1>1. Building
  BY DEF ScriptInv
<1>2. /\ plan \in Seq(AllSteps) /\ i0 \in DOMAIN plan /\ Now = plan[i0] /\ Now \in AllSteps
      /\ Plan(run'.script) = plan /\ Now' = Now /\ (Active' <=> Active)
  BY Builds, BuildNow DEF BuildsInOrder, Now, Active, Running
<1>3. ASSUME NEW i \in DOMAIN plan, i < i0
      PROVE  EffectOf(plan[i], run'.ids, config, inst, slot, admin)
  <2>1. EffectOf(plan[i], run.ids, config, inst, slot, admin) /\ plan[i] \in AllSteps
    BY <1>1, <1>2, <1>3 DEF Building, DoneBy
  <2>2. CASE Now.op = "deploy"
    <3>1. Now.name \in NameSet
      BY <1>2, <2>2 DEF AllSteps, ContractOps
    <3>2. Before(plan[i], Now.name)
      BY <1>2, <1>3, <2>2, Builds DEF BuildsInOrder
    <3>. QED
      BY <2>1, <2>2, <3>1, <3>2, EffectBefore
  <2>. QED
    BY <2>1, <2>2
<1>4. ASSUME NEW u \in txs', run.pc > 1
      PROVE  OfStep(u)'
  <2>1. CASE u = t
    <3>1. Now.op = "set" => Now.name \in NameSet
      BY <1>2 DEF AllSteps, ContractOps
    <3>. QED
      BY <1>2, <2>1, <3>1 DEF OfStep, SentBy, Named
  <2>2. CASE u \in txs
    BY <1>1, <1>2, <1>4, <2>2 DEF Building, OfStep
  <2>. QED
    BY <2>1, <2>2
<1>. HIDE DEF plan, i0
<1>. QED
  BY <1>2, <1>3, <1>4 DEF Building, DoneBy, plan, i0

\* A script that puts up a new engine has made a core that is ready when it reaches its last,
\* local, step or its end.
LEMMA FinishedIsReady ==
  ASSUME CoreInv, run.script \in Builders, ~Active \/ Now.op \in LocalOps
  PROVE  Ready(run.ids) /\ run.ids["engine"] # config["engine"] /\ txs = {}
<1>. DEFINE plan == Plan(run.script)
<1>1. BuildsInOrder(plan, run.script)
  BY Builds
<1>2. Building /\ run.pc \in Nat \ {0}
  BY DEF CoreInv, ScriptInv
<1>3. plan \in Seq(AllSteps)
  BY <1>1 DEF BuildsInOrder
<1>4. Active => run.pc \in DOMAIN plan /\ plan[run.pc] = Now
  BY BuildNow
<1>5. ~Active => run.pc \notin DOMAIN plan
  BY DEF Active, Running
<1>. HIDE DEF plan
<1>6. ASSUME NEW st \in Needs(run.script)
      PROVE  run.pc > 1 /\ EffectOf(st, run.ids, config, inst, slot, admin)
  <2>1. PICK i \in DOMAIN plan : plan[i] = st /\ \A j \in DOMAIN plan : plan[j].op \in LocalOps => i < j
    BY <1>1 DEF BuildsInOrder
  <2>2. i < run.pc
    <3>1. CASE Active
      BY <1>4, <2>1, <3>1
    <3>2. CASE ~Active
      BY <1>2, <1>3, <1>5, <3>2
    <3>. QED
      BY <3>1, <3>2
  <2>3. run.pc > 1
    BY <1>2, <1>3, <2>2
  <2>. QED
    BY <1>2, <2>1, <2>2, <2>3 DEF Building, DoneBy, plan
<1>7. run.pc > 1
  BY <1>6 DEF Needs
<1>8. txs = {}
  BY <1>2, <1>7 DEF Building
<1>. QED
  BY <1>6, <1>8, NeedsMakeReady DEF CoreInv, TestTyped, LiveInv, ScriptInv

LEMMA IdleIs == ~Running("idle") /\ "idle" \notin TestnetScripts \cup Builders
BY DEF Running, Plan, TestnetScripts, Builders, Relinking

\* A running script is a script of the testnet, and the services have been offered nothing new.
LEMMA RunningScript ==
  ASSUME CoreInv, Active
  PROVE  run.script \in TestnetScripts /\ offer["engine"] = config["engine"] /\ Agree(offer, config)
BY IdleIs DEF CoreInv, ScriptInv, OfferInv, Active

\* The script goes on to its next step.
LEMMA TestGoesOn ==
  ASSUME CoreInv, Active, run'.script = run.script, run'.pc = run.pc + 1, run'.ids = run.ids,
         run'.try \in Nat \ {0}, UNCHANGED <<inst, slot, admin, config, ran, txs>>,
         run.script \in Builders => DoneBy(Now) /\ txs = {} /\ run'.out = "none" /\ run'.try = 1,
         offer' = offer \/ (offer' = run.ids /\ Now.op \in LocalOps)
  PROVE  CoreInv'
<1>1. TestTyped' /\ LiveInv'
  BY DEF CoreInv, TestTyped, LiveInv, ChainShape, CoreLive, CoreWired, Relinks
<1>2. ScriptInv'
  <2>1. run.script \in Builders => Building'
    BY BuildingMoves DEF CoreInv
  <2>. QED
    BY <2>1 DEF CoreInv, ScriptInv, Agree
<1>3. CASE offer' = offer
  BY <1>1, <1>2, <1>3, RunningScript DEF CoreInv, OfferInv, Agree
<1>4. CASE offer' = run.ids /\ Now.op \in LocalOps /\ run.script \in Builders
  <2>1. Ready(run.ids) /\ run.ids["engine"] # config["engine"] /\ txs = {}
    BY <1>4, FinishedIsReady
  <2>2. run.pc \in DOMAIN Plan(run.script) /\ Plan(run.script)[run.pc] = Now
    BY <1>4, BuildNow
  <2>3. run.pc + 1 \notin DOMAIN Plan(run.script)
    BY <1>4, <2>2, Builds DEF BuildsInOrder
  <2>4. ~Active'
    BY <2>3 DEF Active, Running
  <2>5. Ready(run.ids)'
    BY <2>1 DEF Ready, CoreLive, CoreWired
  <2>. QED
    BY <1>1, <1>2, <1>4, <2>1, <2>4, <2>5 DEF CoreInv, OfferInv, Ready, CoreLive, CoreWired
<1>5. CASE offer' = run.ids /\ run.script \notin Builders
  <2>1. Agree(run.ids, config) /\ "engine" \in Core
    BY <1>5, RunningScript DEF CoreInv, ScriptInv, Core
  <2>. QED
    BY <1>1, <1>2, <1>5, <2>1 DEF CoreInv, OfferInv, Agree
<1>. QED
  BY <1>3, <1>4, <1>5

\* The script tries its step again.
LEMMA TestRetries ==
  ASSUME CoreInv, Active, run'.script = run.script, run'.pc = run.pc,
         run'.try = run.try + 1, run'.ids = run.ids, run'.out = "none",
         run.script \in Builders => Now.op \notin LocalOps,
         UNCHANGED <<inst, slot, admin, config, ran, txs, offer>>
  PROVE  CoreInv'
<1>1. TestTyped' /\ LiveInv'
  BY DEF CoreInv, TestTyped, LiveInv, ChainShape, CoreLive, CoreWired, Relinks
<1>2. ScriptInv'
  <2>1. run.script \in Builders => Building'
    BY BuildingRetries DEF CoreInv
  <2>. QED
    BY <2>1 DEF CoreInv, ScriptInv, Agree
<1>. QED
  BY <1>1, <1>2, RunningScript DEF CoreInv, OfferInv, Agree

\* The script ends: it reached its end, or gives up, or is interrupted.
LEMMA TestEnds ==
  ASSUME CoreInv, Die, run.script \in TestnetScripts, UNCHANGED <<inst, slot, admin, config, ran, txs>>,
         offer' = offer \/ (offer' = run.ids /\ (~Active \/ Now.op \in LocalOps))
  PROVE  CoreInv'
<1>1. run'.script = "idle" /\ run'.pc = 1 /\ run'.try = 1 /\ run'.ids = First /\ run'.out = "none"
  BY Dies
<1>2. Named(First)
  BY Firsts DEF Named
<1>3. TestTyped' /\ LiveInv'
  BY <1>1, <1>2 DEF CoreInv, TestTyped, LiveInv, ChainShape, CoreLive, CoreWired, Relinks
<1>4. ScriptInv'
  BY <1>1, IdleIs DEF ScriptInv, Builders
<1>5. ~Active'
  BY <1>1 DEF Active, Running, Plan
<1>7. CASE offer' = offer
  BY <1>3, <1>4, <1>5, <1>7 DEF CoreInv, OfferInv, Agree, Ready, CoreLive, CoreWired
<1>8. CASE offer' = run.ids /\ (~Active \/ Now.op \in LocalOps) /\ run.script \in Builders
  <2>1. Ready(run.ids) /\ run.ids["engine"] # config["engine"] /\ txs = {}
    BY <1>8, FinishedIsReady
  <2>. QED
    BY <1>3, <1>4, <1>5, <1>8, <2>1 DEF CoreInv, OfferInv, Ready, CoreLive, CoreWired
<1>9. CASE offer' = run.ids /\ run.script \notin Builders
  <2>1. Agree(run.ids, config) /\ "engine" \in Core
    BY <1>9 DEF CoreInv, ScriptInv, Core
  <2>. QED
    BY <1>3, <1>4, <1>9, <2>1 DEF CoreInv, OfferInv, Agree
<1>. QED
  BY <1>7, <1>8, <1>9

\* A step fails. The scripts that put up a new engine never go on from a failed step.
LEMMA TestReacts ==
  ASSUME CoreInv, RunFields(run), NEW kind, Active, React(kind),
         run.script \in Builders => Now.op \notin LocalOps,
         UNCHANGED <<inst, slot, admin, config, ran, txs, offer>>
  PROVE  CoreInv'
<1>1. CASE MoveTo(run.pc + 1) /\ run.script \notin Builders
  BY <1>1, Moves, TestGoesOn
<1>2. CASE run' = [run EXCEPT !.try = @ + 1, !.tx = NoTx, !.out = "none"]
  BY <1>2, Retries, TestRetries
<1>3. CASE Die
  BY <1>3, RunningScript, TestEnds
<1>4. run.script \in Builders => Reaction(run.script, Now, kind) # "next" /\ ~AllowFail(run.script, Now.op)
  BY DEF Reaction, AllowFail, Builders, Relinking
<1>. QED
  BY <1>1, <1>2, <1>3, <1>4 DEF React

LEMMA TestLocal ==
  ASSUME CoreInv, RunFields(run), LocalStep
  PROVE  CoreInv'
<1>1. /\ Active /\ Now.op \in LocalOps /\ UNCHANGED <<inst, slot, admin, config, ran, txs>>
      /\ offer' = offer \/ offer' = run.ids
  BY DEF LocalStep, KeepSystem, chain, govVars
<1>2. run.script \in Builders => DoneBy(Now) /\ txs = {} /\ run.out = "none" /\ run.try = 1
  <2>1. run.script \in Builders => run.out = "none" /\ run.try = 1
    BY <1>1 DEF CoreInv, ScriptInv, Building
  <2>2. DoneBy(Now)
    BY <1>1 DEF DoneBy, EffectOf, LocalOps
  <2>. QED
    BY <1>1, <2>1, <2>2, FinishedIsReady
<1>3. CASE Die
  BY <1>1, <1>3, RunningScript, TestEnds
<1>4. CASE MoveTo(run.pc + 1)
  BY <1>1, <1>2, <1>4, Moves, TestGoesOn
<1>5. CASE \E b : run' = [run EXCEPT !.pc = @ + 1, !.bad = b]
  <2>1. run.try \in Nat \ {0}
    BY DEF CoreInv, ScriptInv
  <2>. QED
    BY <1>1, <1>2, <1>5, <2>1, Checks, TestGoesOn
<1>. QED
  BY <1>3, <1>4, <1>5, Zenon DEF LocalStep

LEMMA TestStarts ==
  ASSUME CoreInv, NEW s, Start(s), network = "testnet"
  PROVE  CoreInv'
<1>1. /\ s \in TestnetScripts /\ ran' = ran \cup {s} /\ offer' = config
      /\ inst \subseteq inst' /\ UNCHANGED <<slot, admin, txs, config>>
  BY DEF Start, govVars
<1>2. run'.script = s /\ run'.pc = 1 /\ run'.out = "none" /\ run'.try = 1
  BY ScriptStarts
<1>3. Named(run'.ids) /\ Agree(run'.ids, config) /\ (s # "rewire" => run'.ids = config)
  <2>0. Named(config)
    BY DEF CoreInv, TestTyped
  <2>1. CASE s # "rewire"
    BY <2>0, <2>1, ScriptStarts DEF Agree
  <2>2. CASE s = "rewire"
    <3>1. PICK l \in Fresh("liquidation"), i \in Fresh("insurance") :
            run' = [Idle EXCEPT !.script = s, !.ids = [config EXCEPT !["liquidation"] = l, !["insurance"] = i]]
      BY <2>2, Zenon DEF Start
    <3>2. run'.ids = [config EXCEPT !["liquidation"] = l, !["insurance"] = i]
      BY <3>1 DEF Idle
    <3>3. l \in Addresses /\ l.name = "liquidation" /\ i \in Addresses /\ i.name = "insurance"
      BY DEF Fresh
    <3>. QED
      BY <2>0, <2>2, <3>2, <3>3, CoreNames DEF Named, Agree, Core
  <2>. QED
    BY <2>1, <2>2
<1>4. TestTyped'
  BY <1>1, <1>3 DEF CoreInv, TestTyped, ChainShape, TxTyped
<1>5. ScriptInv'
  <2>1. s \in Relinking => s # "rewire"
    BY DEF Relinking
  <2>2. s \in Builders => Building'
    BY <1>2, BuildingStarts
  <2>. QED
    BY <1>1, <1>2, <1>3, <2>1, <2>2 DEF ScriptInv, Agree
<1>6. OfferInv'
  BY <1>1 DEF OfferInv, Agree
<1>7. LiveInv'
  BY <1>1 DEF CoreInv, LiveInv, CoreLive, CoreWired, Relinks
<1>. QED
  BY <1>4, <1>5, <1>6, <1>7 DEF CoreInv

LEMMA TestAdopts ==
  ASSUME CoreInv, Adopt
  PROVE  CoreInv'
<1>1. /\ run.script = "idle" /\ config' = offer
      /\ ran' = IF offer["engine"] # config["engine"] THEN {} ELSE ran
      /\ UNCHANGED <<inst, slot, admin, txs, run, offer>>
  BY DEF Adopt, chain, govVars
<1>2. TestTyped' /\ OfferInv'
  BY <1>1 DEF CoreInv, TestTyped, ChainShape, TxTyped, OfferInv, Agree
<1>3. ScriptInv'
  BY <1>1, IdleIs DEF CoreInv, ScriptInv, Builders
<1>4. LiveInv'
  <2>1. CASE offer["engine"] = config["engine"]
    <3>1. \A n \in Core : offer[n] = config[n]
      BY <2>1 DEF CoreInv, OfferInv, Agree
    <3>. QED
      BY <1>1, <2>1, <3>1 DEF CoreInv, LiveInv, CoreLive, CoreWired, Relinks, Core
  <2>2. CASE offer["engine"] # config["engine"]
    BY <1>1, <2>2 DEF CoreInv, OfferInv, Ready, LiveInv, CoreLive, CoreWired
  <2>. QED
    BY <2>1, <2>2
<1>. QED
  BY <1>2, <1>3, <1>4 DEF CoreInv

\* A step that a script of the testnet sends never relinks the core of the services, unless the
\* script is one of those that do.
LEMMA StepsDoNotRelink ==
  ASSUME CoreInv, Active, NEW t, SentBy(t, Now), Now.op = "set", ran \cap Relinking = {}
  PROVE  ~Relinks(t, config)
<1>1. Named(run.ids) /\ Named(config) /\ ScriptInv
  BY DEF CoreInv, TestTyped
<1>2. run.script \in TestnetScripts /\ run.script \notin Relinking
  BY RunningScript DEF CoreInv, ScriptInv
<1>3. SUFFICES ASSUME t.slot \in Core, NEW n \in Core, t.at = config[n]
               PROVE  FALSE
  BY DEF Relinks
<1>4. Now \in AllSteps
  BY <1>2, BuildNow, TameNow DEF TameSteps
<1>5. Now.slot \in Core /\ Now.name \in NameSet /\ t.at = run.ids[Now.name]
  BY <1>3, <1>4 DEF SentBy, AllSteps, ContractOps
<1>6. Now.name = n
  BY <1>1, <1>3, <1>5, CoreNames DEF Named
<1>7. CASE run.script \notin Builders
  BY <1>2, <1>5, <1>6, <1>7, TameNow DEF TameSteps
<1>8. CASE run.script = "redeploy-core"
  <2>. DEFINE plan == Plan(run.script)
  <2>1. BuildsInOrder(plan, "redeploy-core") /\ run.script \in Builders
    BY <1>8, Builds DEF Builders
  <2>2. run.pc \in DOMAIN plan /\ plan[run.pc] = Now
    BY <2>1, BuildNow
  <2>. HIDE DEF plan
  <2>3. PICK i \in DOMAIN plan : i < run.pc /\ plan[i] = Plain("deploy", Now.name)
    BY <1>5, <2>1, <2>2 DEF BuildsInOrder
  <2>4. DoneBy(plan[i])
    BY <1>1, <2>1, <2>3 DEF ScriptInv, Building, plan
  <2>5. run.ids[n] # config[n]
    BY <1>6, <2>3, <2>4, StepFields DEF DoneBy, EffectOf
  <2>. QED
    BY <1>3, <1>5, <1>6, <2>5
<1>. QED
  BY <1>2, <1>7, <1>8 DEF Builders

LEMMA TestSubmits ==
  ASSUME CoreInv, RunFields(run), Submit, network = "testnet"
  PROVE  CoreInv'
<1>1. /\ Active /\ Now.op \notin LocalOps /\ run.out = "none"
      /\ UNCHANGED <<inst, slot, admin, config, ran, offer>>
  BY DEF Submit, KeepSystem, chain, govVars
<1>2. run.script \in TestnetScripts /\ offer["engine"] = config["engine"] /\ Agree(offer, config)
  BY <1>1, RunningScript
<1>3. Now \in AllSteps /\ (run.script \notin Builders => Now \in TameSteps)
  BY <1>1, <1>2, BuildNow, TameNow DEF TameSteps
<1>4. PICK a, t, ids :
        /\ a \in AddressOf(Now) /\ t = TxOf(Now, a) /\ txs' = txs \cup {t} /\ run' = Sent(t, ids)
        /\ ids = IF Now.op = "deploy" THEN [run.ids EXCEPT ![Now.name] = a] ELSE run.ids
  BY SubmitSends, Zenon
<1>5. /\ run'.script = run.script /\ run'.pc = run.pc /\ run'.ids = ids /\ run'.tx = t
      /\ run'.out = "pending" /\ run'.try = run.try
  BY <1>4, Sends
<1>6. t.op = Now.op /\ t.at = a /\ t.slot = Now.slot /\ t.to = Now.to /\ t.ids = run.ids
  BY <1>4 DEF TxOf
<1>7. Named(run.ids) /\ Named(config) /\ CoreLive(config)
  BY DEF CoreInv, TestTyped, LiveInv
<1>8. Now.op = "deploy" => Now.name \in NameSet /\ a \in Addresses /\ a.name = Now.name /\ a \notin inst
  <2>1. Now.op = "deploy" => Now.name \in NameSet
    BY <1>3 DEF AllSteps, ContractOps
  <2>2. Now.op = "deploy" => a \in Fresh(Now.name)
    BY <1>4 DEF AddressOf, DeployAddress
  <2>. QED
    BY <2>1, <2>2 DEF Fresh
<1>9. Now.op # "deploy" /\ Now.name \in NameSet => a = run.ids[Now.name]
  BY <1>4 DEF AddressOf
<1>10. Named(ids)
  BY <1>4, <1>7, <1>8 DEF Named
<1>11. /\ Now.op # "deploy" => ids = run.ids
       /\ Now.name \in NameSet => t.at = ids[Now.name]
       /\ Now.op = "deploy" /\ Now.name \in Core => ids[Now.name] # config[Now.name]
  BY <1>4, <1>6, <1>7, <1>8, <1>9 DEF Named, CoreLive
<1>12. TxTyped(t)
  <2>1. Now.op \in ContractOps => Now.name \in NameSet
    BY <1>3 DEF AllSteps
  <2>2. Now.op \in ContractOps => t.at \in Addresses
    BY <1>10, <1>11, <2>1 DEF Named
  <2>. QED
    BY <1>3, <1>6, <2>2 DEF TxTyped, AllSteps
<1>13. TestTyped'
  BY <1>1, <1>4, <1>5, <1>10, <1>12 DEF CoreInv, TestTyped, ChainShape, TxTyped
<1>14. Now' = Now
  BY <1>5 DEF Now
<1>15. SentBy(t, Now)'
  BY <1>1, <1>5, <1>6, <1>11, <1>14 DEF SentBy
<1>16. ScriptInv'
  <2>1. run.script \in Builders => Building'
    BY <1>1, <1>4, <1>5, <1>6, <1>7, <1>10, <1>15, BuildingSends DEF CoreInv
  <2>2. run.script \notin Builders => Agree(ids, config)
    <3>1. CASE Now.op = "deploy" /\ run.script \notin Builders
      <4>1. Now.name \notin Core
        BY <1>3, <3>1 DEF TameSteps
      <4>. QED
        BY <1>2, <1>4, <1>7, <3>1, <4>1, CoreNames DEF CoreInv, ScriptInv, Agree, Named
    <3>. QED
      BY <1>2, <1>11, <3>1 DEF CoreInv, ScriptInv
  <2>3. run.script \in Relinking => ids["vault"] = config["vault"]
    <3>1. CASE run.script \in Relinking /\ Now.op = "deploy"
      <4>1. Now.name # "vault"
        BY <1>1, <3>1, BuildNow, Builds DEF BuildsInOrder, Builders, Relinking
      <4>. QED
        BY <1>4, <1>7, <3>1, <4>1, CoreNames DEF CoreInv, ScriptInv, Named, Core
    <3>. QED
      BY <1>11, <3>1 DEF CoreInv, ScriptInv
  <2>. QED
    BY <1>1, <1>5, <2>1, <2>2, <2>3 DEF CoreInv, ScriptInv, Agree
<1>17. OfferInv'
  BY <1>1, <1>2 DEF OfferInv, Agree
<1>18. LiveInv'
  <2>1. ran \cap Relinking = {} => ~Relinks(t, config)
    <3>1. SentBy(t, Now) \/ Now.op # "set"
      BY <1>6, <1>9 DEF SentBy
    <3>. QED
      BY <1>1, <1>6, <3>1, StepsDoNotRelink DEF Relinks
  <2>. QED
    BY <1>1, <1>4, <2>1 DEF CoreInv, LiveInv, CoreLive, CoreWired, Relinks
<1>. QED
  BY <1>13, <1>16, <1>17, <1>18 DEF CoreInv

\* The network answers a script, or does not.
LEMMA TestAnswered ==
  ASSUME CoreInv, RunFields(run), NEW o, run' = [run EXCEPT !.out = o], txs' \subseteq txs,
         UNCHANGED <<config, offer, ran>>, ChainShape', inst \subseteq inst',
         \A a \in Addresses : admin[a] # "none" => admin'[a] # "none",
         offer["engine"] # config["engine"] => UNCHANGED slot,
         ran \cap Relinking = {} => \A n, s \in Core : slot'[config[n]][s] = slot[config[n]][s],
         run.script \in Builders /\ (run.pc > 1 \/ run.out = "ok")
           => Evolves(run.ids, inst, slot, admin, inst', slot', admin'),
         \/ o = run.out
         \/ run.out = "pending" /\ o \in {"gone", "failed"}
         \/ /\ run.out = "pending" /\ o = "ok" /\ txs' = {}
            /\ run.script \in Builders => EffectOf(Now, run.ids, config, inst', slot', admin')
  PROVE  CoreInv'
<1>1. /\ run'.script = run.script /\ run'.pc = run.pc /\ run'.try = run.try /\ run'.ids = run.ids
      /\ run'.tx = run.tx /\ run'.out = o
  BY Answers
<1>2. TestTyped'
  BY <1>1 DEF CoreInv, TestTyped, TxTyped
<1>3. ScriptInv'
  <2>1. run.script \in Builders => Building'
    BY <1>1, BuildingStays DEF CoreInv, TestTyped
  <2>. QED
    BY <1>1, <2>1 DEF CoreInv, ScriptInv, Agree
<1>5. CoreLive(config)'
  <2>1. \A n \in Core : config[n] \in Addresses
    BY CoreNames DEF CoreInv, TestTyped, Named
  <2>. QED
    BY <2>1 DEF CoreInv, LiveInv, CoreLive
<1>6. LiveInv'
  <2>1. ran \cap Relinking = {} => CoreWired(config)'
    BY DEF CoreInv, LiveInv, CoreWired, Core
  <2>. QED
    BY <1>5, <2>1 DEF CoreInv, LiveInv, Relinks
<1>7. OfferInv'
  <2>1. CASE offer["engine"] = config["engine"]
    BY <2>1 DEF CoreInv, OfferInv, Agree
  <2>2. CASE offer["engine"] # config["engine"]
    <3>1. ~Active' /\ txs' = {}
      BY <1>1, <2>2 DEF CoreInv, OfferInv, Active, Running
    <3>2. \A n \in Core : offer[n] \in Addresses
      BY CoreNames DEF CoreInv, TestTyped, Named
    <3>3. Ready(offer)'
      BY <2>2, <3>2 DEF CoreInv, OfferInv, Ready, CoreLive, CoreWired
    <3>. QED
      BY <2>2, <3>1, <3>3 DEF OfferInv
  <2>. QED
    BY <2>1, <2>2
<1>. QED
  BY <1>2, <1>3, <1>6, <1>7 DEF CoreInv

LEMMA TestNetwork ==
  ASSUME CoreInv, RunFields(run), GovTyped, NEW t \in txs, Land(t) \/ Drop(t),
         \A a \in Addresses : admin[a] # "none" => admin'[a] # "none"
  PROVE  CoreInv'
<1>1. TxTyped(t) /\ ChainShape /\ Named(run.ids) /\ Named(config)
  BY DEF CoreInv, TestTyped
<1>2. /\ ChainShape' /\ inst \subseteq inst'
      /\ \A a \in Addresses, s \in Slots :
           \/ slot'[a][s] = slot[a][s]
           \/ a = t.at /\ t.op = "set" /\ s = t.slot
           \/ a = t.at /\ t.op = "init" /\ admin[a] = "none"
  BY <1>1, LandWrites
<1>3. PICK o : /\ run' = [run EXCEPT !.out = o]
               /\ \/ o = run.out
                  \/ run.out = "pending" /\ o \in {"gone", "failed"}
                  \/ run.out = "pending" /\ o = "ok" /\ run.tx = t /\ LandsOk(t) /\ txs' = {}
  <2>1. CASE Drop(t)
    <3>. DEFINE o == IF run.out = "pending" /\ run.tx = t THEN "gone" ELSE run.out
    <3>1. run' = [run EXCEPT !.out = o]
      BY <2>1, Zenon DEF Drop
    <3>2. CASE run.out = "pending" /\ run.tx = t
      <4>1. o = "gone"
        BY <3>2, Zenon
      <4>. HIDE DEF o
      <4>. QED
        BY <3>1, <3>2, <4>1
    <3>3. CASE ~(run.out = "pending" /\ run.tx = t)
      <4>1. o = run.out
        BY <3>3, Zenon
      <4>. HIDE DEF o
      <4>. QED
        BY <3>1, <4>1
    <3>. QED
      BY <3>2, <3>3
  <2>2. CASE Land(t)
    <3>1. PICK ok : Landed(t, ok) /\ ((ok = TRUE /\ LandsOk(t)) \/ ok = FALSE)
      BY <2>2, Zenon DEF Land, LandsOk
    <3>. DEFINE o == IF run.out # "pending" THEN run.out
                     ELSE IF run.tx # t THEN "gone" ELSE IF ok THEN "ok" ELSE "failed"
    <3>2. run' = [run EXCEPT !.out = o] /\ txs' = {}
      BY <3>1, Zenon DEF Landed
    <3>3. \/ o = run.out
          \/ run.out = "pending" /\ o \in {"gone", "failed"}
          \/ run.out = "pending" /\ o = "ok" /\ run.tx = t /\ LandsOk(t)
      BY <3>1
    <3>. HIDE DEF o
    <3>. QED
      BY <3>2, <3>3
  <2>. QED
    BY <2>1, <2>2
<1>4. txs' \subseteq txs /\ UNCHANGED <<config, offer, ran>>
  BY DEF Land, Landed, Drop
<1>5. offer["engine"] = config["engine"]
  BY DEF CoreInv, OfferInv
<1>6. ASSUME ran \cap Relinking = {}, NEW n \in Core, NEW s \in Core
      PROVE  slot'[config[n]][s] = slot[config[n]][s]
  <2>1. ~Relinks(t, config) /\ admin[config[n]] # "none"
    BY <1>6 DEF CoreInv, LiveInv, CoreLive
  <2>2. config[n] \in Addresses /\ s \in Slots
    BY <1>1, CoreNames DEF Named
  <2>. QED
    BY <1>2, <2>1, <2>2 DEF Relinks
<1>7. ASSUME run.script \in Builders, run.pc > 1 \/ run.out = "ok"
      PROVE  Evolves(run.ids, inst, slot, admin, inst', slot', admin')
  <2>1. OfStep(t)
    BY <1>7 DEF CoreInv, ScriptInv, Building
  <2>. QED
    BY <1>1, <2>1, LandEvolves
<1>8. ASSUME run.script \in Builders, run.out = "pending", run.tx = t, LandsOk(t)
      PROVE  EffectOf(Now, run.ids, config, inst', slot', admin')
  <2>1. SentBy(t, Now) /\ Active
    BY <1>8 DEF CoreInv, ScriptInv, Building
  <2>2. Now \in AllSteps
    BY <1>8, <2>1, BuildNow
  <2>. QED
    BY <1>1, <1>8, <2>1, <2>2, LandsEffect
<1>. QED
  BY <1>2, <1>3, <1>4, <1>5, <1>6, <1>7, <1>8, TestAnswered

\* The calls of the governance admin and of the guardian, and time, leave the contracts as they are.
LEMMA TestAside ==
  ASSUME CoreInv, RunFields(run), NEW o, run' = [run EXCEPT !.out = o], txs' \subseteq txs,
         UNCHANGED <<config, offer, ran, inst, slot, admin>>,
         o = run.out \/ (run.out = "pending" /\ o = "gone")
  PROVE  CoreInv'
<1>1. ChainShape' /\ Evolves(run.ids, inst, slot, admin, inst', slot', admin')
  BY DEF CoreInv, TestTyped, ChainShape, Evolves
<1>. QED
  BY <1>1, TestAnswered

LEMMA CoreNext ==
  ASSUME GovInv, CoreInv, network = "testnet", [Next]_vars
  PROVE  CoreInv'
<1>. RunFields(run) /\ GovTyped
  BY DEF GovInv, TimesTyped
<1>1. CASE \E s \in Scripts : Start(s)
  BY <1>1, TestStarts
<1>2. CASE Skip
  BY <1>2, RunningScript DEF Skip, TestnetScripts
<1>3. CASE LocalStep
  BY <1>3, TestLocal
<1>4. CASE Submit
  BY <1>4, TestSubmits
<1>5. CASE Confirm
  <2>1. /\ Active /\ MoveTo(run.pc + 1) /\ run.out = "ok"
        /\ UNCHANGED <<inst, slot, admin, config, ran, txs, offer>>
    BY <1>5 DEF Confirm, KeepSystem, chain, govVars
  <2>2. run.script \in Builders => DoneBy(Now) /\ txs = {}
    BY <2>1 DEF CoreInv, ScriptInv, Building
  <2>. QED
    BY <2>1, <2>2, Moves, TestGoesOn
<1>6. CASE SimFails \/ FailedOnChain \/ Missed
  <2>1. PICK kind : /\ Active /\ React(kind) /\ (Now.op \notin LocalOps \/ run.out # "none")
                    /\ UNCHANGED <<inst, slot, admin, config, ran, txs, offer>>
    BY <1>6 DEF SimFails, FailedOnChain, Missed, KeepSystem, chain, govVars
  <2>2. run.script \in Builders => Now.op \notin LocalOps
    BY <2>1 DEF CoreInv, ScriptInv, Building
  <2>. QED
    BY <2>1, <2>2, TestReacts
<1>7. CASE Crash \/ Finish
  <2>1. /\ Die /\ UNCHANGED <<inst, slot, admin, config, ran, txs>>
        /\ offer' = offer \/ (offer' = run.ids /\ ~Active)
    BY <1>7 DEF Crash, Finish, KeepSystem, chain, govVars
  <2>2. run.script \in TestnetScripts
    BY <1>7, RunningScript DEF Crash, Finish, CoreInv, ScriptInv
  <2>. QED
    BY <2>1, <2>2, TestEnds
<1>8. CASE Adopt
  BY <1>8, TestAdopts
<1>9. CASE \E t \in txs : Land(t) \/ Drop(t)
  BY <1>9, AdminStays, TestNetwork
<1>10. CASE \E c \in Contracts : CancelProposal(c)
  <2>. DEFINE o == IF run.out = "pending" THEN "gone" ELSE run.out
  <2>1. run' = [run EXCEPT !.out = o]
    BY <1>10, Zenon DEF CancelProposal
  <2>2. txs' = {} /\ UNCHANGED <<config, offer, ran, inst, slot, admin>>
    BY <1>10 DEF CancelProposal, Cancel, chain
  <2>3. o = run.out \/ (run.out = "pending" /\ o = "gone")
    BY Zenon
  <2>. HIDE DEF o
  <2>. QED
    BY <2>1, <2>2, <2>3, TestAside
<1>11. CASE (\E flag \in BOOLEAN : GuardianPause(flag)) \/ Wait \/ UNCHANGED vars
  <2>1. UNCHANGED <<config, offer, ran, inst, slot, admin, txs, run>>
    BY <1>11 DEF GuardianPause, EmergencyPause, Wait, Tick, depVars, chain, govVars, vars
  <2>2. run' = [run EXCEPT !.out = run.out]
    BY <2>1 DEF RunFields
  <2>. QED
    BY <2>1, <2>2, TestAside
<1>. QED
  BY <1>1, <1>2, <1>3, <1>4, <1>5, <1>6, <1>7, <1>8, <1>9, <1>10, <1>11 DEF Next

\* The vault, engine and gateway of the services refer to each other at every moment, until a
\* script is started that gives the live vault a new engine: whatever else is running, was
\* interrupted, retried or lands late (redeploy-core.ts, rewire-liquidation.ts).
THEOREM CoreIsAlwaysWired == Spec => []CoreStaysWired
<1>. DEFINE TestInv == network = "testnet" => CoreInv
<1>1. Init => TestInv
  <2>. SUFFICES ASSUME Init, network = "testnet"
                PROVE  CoreInv
    OBVIOUS
  <2>1. /\ run = Idle /\ txs = {} /\ config = First /\ offer = First /\ ran = {} /\ inst = Range(First)
        /\ slot = [a \in Addresses |-> [s \in Slots |-> IF a \in inst /\ <<a.name, s>> \in Wiring THEN First[s] ELSE None]]
        /\ admin = [a \in Addresses |-> IF a \in inst THEN "eoa" ELSE "none"]
    BY DEF Init, GovInit
  <2>2. /\ run.script = "idle" /\ run.pc = 1 /\ run.try = 1 /\ run.ids = First /\ run.out = "none"
    BY <2>1 DEF Idle
  <2>3. Named(First)
    BY Firsts DEF Named
  <2>4. TestTyped
    BY <2>1, <2>2, <2>3 DEF TestTyped, ChainShape
  <2>5. ScriptInv
    BY <2>2, IdleIs DEF ScriptInv, Builders
  <2>6. OfferInv
    BY <2>1 DEF OfferInv, Agree
  <2>7. \A n \in Core : First[n] \in inst /\ First[n] \in Addresses /\ First[n].name = n /\ admin[First[n]] = "eoa"
    BY <2>1, Firsts, CoreNames DEF Range
  <2>8. CoreLive(config)
    BY <2>1, <2>7 DEF CoreLive
  <2>9. CoreWired(config)
    BY <2>1, <2>7, CoreNames DEF CoreWired, Core, Wiring
  <2>. QED
    BY <2>1, <2>4, <2>5, <2>6, <2>8, <2>9 DEF CoreInv, LiveInv
<1>2. GovInv /\ TestInv /\ [Next]_vars => TestInv'
  BY CoreNext, NetworkStays
<1>3. TestInv => CoreStaysWired
  BY DEF CoreStaysWired, CoreInv, LiveInv, Relinking
<1>. QED
  BY <1>1, <1>2, <1>3, GovInvariant, PTL DEF Spec
=============================================================================
