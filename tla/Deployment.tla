----------------------------- MODULE Deployment -----------------------------
(***************************************************************************)
(* The deployment scripts: mainnet-deploy (checkpointed), the testnet      *)
(* redeploy scripts, rewire-liquidation, the seeding of the insurance fund *)
(* and the governance ceremony.  Every script is a list of steps run by a  *)
(* process that may be stopped at any time; a step is a transaction of one *)
(* account, so it carries the account's next sequence number and lands at  *)
(* most once, possibly after the script stopped waiting for it.            *)
(***************************************************************************)
EXTENDS Governance, Sequences, FiniteSets, SequencesExt

CONSTANTS
  Scripts,      \* the scripts the operator runs
  MaxGen,       \* bound on instances per contract
  MaxStarts,    \* bound on how often the other scripts are started, per network
  MaxFaults,    \* bound on crashes, lost transactions and missed confirmations
  FaultyOps     \* the kinds of step at which a fault may happen

Names == <<"oracle", "vault", "risk", "engine", "gateway", "insurance", "liquidation", "governance">>
NameSet == Range(Names)
Address(n, g) == [name |-> n, gen |-> g]
None == [name |-> "none", gen |-> 0]
Slots == {"oracle", "vault", "engine", "gateway", "insurance", "liquidation", "operator", "domain",
          "collateral", "feed", "market", "guardian", "cap", "ttl"}
Configured == "set"   \* a slot that holds data and no address

----------------------------------------------------------------------------
(* Steps.  "to" is a contract the script knows, the key "eoa", or Configured *)
Step(op, n, s, to) == [op |-> op, name |-> n, slot |-> s, to |-> to]
Deploy(n) == Step("deploy", n, "", "")
Init_(n) == Step("init", n, "", "")
Call(n, s) == Step("set", n, s, s)             \* point slot s at contract s
Put(n, s) == Step("set", n, s, Configured)
Each(op, names) == [i \in DOMAIN names |-> Step(op, names[i], "", "")]

(* what initialize stores besides the admin *)
InitRefs(n) ==
  CASE n = "vault" -> {<<"oracle", "oracle">>, <<"engine", "eoa">>}
    [] n = "engine" -> {<<"oracle", "oracle">>, <<"vault", "vault">>}
    [] n = "gateway" -> {<<"engine", "engine">>}
    [] n = "insurance" -> {<<"liquidation", "liquidation">>}
    [] n = "liquidation" -> {<<"engine", "engine">>, <<"vault", "vault">>, <<"insurance", "insurance">>}
    [] n = "governance" -> {<<"guardian", Configured>>}
    [] OTHER -> {}

Targets == <<"oracle", "vault", "engine", "gateway", "liquidation", "insurance">>
CoreMarket == <<Put("engine", "market"), Put("vault", "market")>>
Ceremony(c) == <<Step("nominate", c, "", ""), Step("queue", c, "", "")>>

MainnetWire ==
  <<Call("vault", "engine"), Call("engine", "gateway"), Put("gateway", "operator"),
    Put("gateway", "domain"), Put("vault", "collateral"), Call("engine", "insurance"),
    Call("engine", "liquidation"), Call("vault", "insurance"), Call("vault", "liquidation"),
    Call("insurance", "vault")>>
MainnetAccounts == <<Step("ops", "", "", "")>>
MainnetUpload == Each("upload", Names)
MainnetInstances == Each("deploy", Names)
MainnetInit == Each("init", Names)
MainnetMarket == <<Put("oracle", "feed")>> \o CoreMarket
MainnetGuards == <<Put("vault", "guardian"), Put("gateway", "guardian"), Put("vault", "cap")>>
MainnetTtl == <<Put("oracle", "ttl"), Put("vault", "ttl"), Put("engine", "ttl"), Put("gateway", "ttl")>>
SeedMarkets == <<Step("seedMarkets", "", "", "")>>
MainnetPlan == MainnetAccounts \o MainnetUpload \o MainnetInstances \o MainnetInit \o MainnetWire
                 \o MainnetMarket \o MainnetGuards \o MainnetTtl \o SeedMarkets
SeedPlan == <<Step("trust", "", "", ""), Step("swap", "", "", ""), Step("deposit", "insurance", "", ""),
              Step("pay", "", "", "")>>
RedeployCoreKeepsVault ==
  Each("deploy", <<"engine", "gateway">>) \o Each("init", <<"engine", "gateway">>)
    \o <<Call("vault", "engine"), Call("engine", "gateway")>> \o CoreMarket \o <<Step("patch", "", "", "")>>
CoreInstances == LET core == <<"vault", "risk", "engine", "gateway">> IN Each("deploy", core) \o Each("init", core)
CoreWiring ==
  <<Call("vault", "engine"), Call("engine", "gateway"), Put("gateway", "operator"),
    Put("gateway", "domain"), Put("vault", "collateral"), Call("engine", "insurance")>>
RedeployCorePlan == CoreInstances \o CoreWiring \o CoreMarket \o <<Step("patch", "", "", "")>>
RedeployOraclePlan == <<Deploy("oracle"), Init_("oracle"), Put("oracle", "feed"), Step("patchMissing", "", "", "")>>
EnginePlan ==
  <<Deploy("engine"), Deploy("gateway"), Init_("engine"), Init_("gateway"),
    Call("vault", "engine"), Call("engine", "gateway")>> \o CoreMarket \o <<Step("patchMissing", "", "", "")>>
SetupUsdcPlan == <<Put("oracle", "feed"), Put("vault", "collateral")>> \o EnginePlan
RewirePlan ==
  <<Init_("insurance"), Call("insurance", "vault"), Init_("liquidation"),
    Call("engine", "liquidation"), Call("engine", "insurance"),
    Call("vault", "liquidation"), Call("vault", "insurance"), Step("deposit", "insurance", "", "")>>
    \o Ceremony("liquidation") \o Ceremony("insurance")

GovernancePhase(s) == Each(s, Targets)      \* nominate, queue or execute, one run each
UpdatePublisherPlan == <<Put("oracle", "feed")>>
VerifyPlan == <<Step("check", "", "", ""), Step("pause", "", "", ""), Step("unpause", "", "", "")>>

Plan(s) ==
  CASE s = "mainnet-deploy" -> MainnetPlan
    [] s = "seed-insurance" -> SeedPlan
    [] s = "redeploy-core" -> RedeployCorePlan
    [] s = "redeploy-oracle" -> RedeployOraclePlan
    [] s = "setup-usdc" -> SetupUsdcPlan
    [] s = "redeploy-engine-xlm" -> EnginePlan
    [] s = "rewire" -> RewirePlan
    [] s = "update-publisher" -> UpdatePublisherPlan
    [] s \in {"nominate", "queue", "execute"} -> GovernancePhase(s)
    [] s = "verify" -> VerifyPlan
    [] OTHER -> <<>>

----------------------------------------------------------------------------
VARIABLES
  network,    \* "mainnet" or "testnet"
  code,       \* uploaded WASMs
  inst,       \* deployed instances
  slot,       \* slot[a][s]: what instance a stores in s
  purse,      \* deployer's USDC on mainnet, in units of one swap
  txs,        \* sent transactions built on the account's current sequence number
  run,        \* the running script: its step, attempt, addresses and last transaction
  file,       \* checkpointed steps of mainnet-deploy (mainnet-deployment.json)
  config,     \* the addresses the services use
  offer,      \* the addresses the last script printed when it reached its end
  ran,        \* scripts started since the services were last given a new engine
  completed,  \* scripts that reported success
  starts, faults

depVars == <<network, code, inst, slot, purse, txs, run, file, config, offer, ran, completed,
             starts, faults>>
vars == <<govVars, depVars>>
chain == <<code, inst, slot, purse>>

Addresses == {Address(n, g) : n \in NameSet, g \in 1..MaxGen}
First == [n \in NameSet |-> Address(n, 1)]
ASSUME DeploymentAssumption == MaxGen \in Nat \ {0} /\ Contracts = Addresses
NoTx == [op |-> "none", at |-> None, slot |-> "", to |-> "", ids |-> First, eta |-> 0]
Idle == [script |-> "idle", pc |-> 1, try |-> 1, ids |-> First, tx |-> NoTx, out |-> "none", eta |-> 0,
         bad |-> FALSE]
LocalOps == {"seedMarkets", "patch", "patchMissing", "check"}
Unset == [s \in Slots |-> None]
Margin == 1

(* what a step that names contract or data "to" stores *)
Value(ids, to) == IF to \in NameSet THEN ids[to] ELSE Address(to, 0)
(* the contracts each contract calls or obeys: what its require_* helpers and clients read *)
Wiring == {<<"vault", "oracle">>, <<"vault", "engine">>, <<"vault", "insurance">>, <<"vault", "liquidation">>,
           <<"engine", "oracle">>, <<"engine", "vault">>, <<"engine", "gateway">>, <<"engine", "insurance">>,
           <<"engine", "liquidation">>, <<"gateway", "engine">>, <<"insurance", "liquidation">>,
           <<"insurance", "vault">>, <<"liquidation", "engine">>, <<"liquidation", "vault">>,
           <<"liquidation", "insurance">>}

Init ==
  /\ \/ /\ network = "mainnet" /\ code = {} /\ inst = {} /\ slot = [a \in Addresses |-> Unset]
        /\ GovInit([a \in Addresses |-> "none"])
     \/ /\ network = "testnet" /\ code = NameSet /\ inst = Range(First)
        /\ slot = [a \in Addresses |-> [s \in Slots |-> IF a \in inst /\ <<a.name, s>> \in Wiring THEN First[s] ELSE None]]
        /\ GovInit([a \in Addresses |-> IF a \in inst THEN "eoa" ELSE "none"])
  /\ purse = 0 /\ txs = {} /\ run = Idle /\ file = {} /\ config = First /\ offer = First
  /\ ran = {} /\ completed = {} /\ starts = 0 /\ faults = 0

----------------------------------------------------------------------------
(* The chain.  A transaction is invalid when its simulation would fail. *)
Valid(t) ==
  CASE t.op = "deploy" -> t.at \notin inst /\ t.at.name \in code
    [] t.op = "init" -> t.at \in inst /\ CanInitialize(t.at)
    [] t.op = "set" -> t.at \in inst /\ (t.slot = "ttl" \/ admin[t.at] = "eoa")
    [] t.op = "deposit" -> t.at \in inst /\ (network = "mainnet" => purse > 0)
    [] t.op = "nominate" -> CanNominate(t.at)
    [] t.op = "queue" -> CanQueue(t.at, t.eta)
    [] t.op = "execute" -> CanExecute(t.at)
    [] t.op \in {"pause", "unpause"} -> network = "testnet"   \* where the deployer is the guardian
    [] OTHER -> TRUE

(* the first transaction with a sequence number to land invalidates the others *)
Landed(t, ok) ==
  /\ txs' = {}
  /\ run' = [run EXCEPT !.out = IF @ # "pending" THEN @
                                ELSE IF run.tx # t THEN "gone" ELSE IF ok THEN "ok" ELSE "failed"]
  /\ UNCHANGED <<network, file, config, offer, ran, completed, starts, faults>>

LandPlain(t) ==
  /\ t.op \in {"ops", "upload", "trust", "swap", "pay"}
  /\ code' = IF t.op = "upload" THEN code \cup {t.at.name} ELSE code
  /\ purse' = IF t.op = "swap" THEN purse + 1 ELSE purse
  /\ UNCHANGED <<govVars, inst, slot>>
LandDeploy(t) ==
  /\ t.op = "deploy" /\ Valid(t)
  /\ inst' = inst \cup {t.at}
  /\ UNCHANGED <<govVars, code, slot, purse>>
LandInit(t) ==
  /\ t.op = "init" /\ t.at \in inst
  /\ Initialize(t.at)
  /\ slot' = [slot EXCEPT ![t.at] = [s \in Slots |->
       LET refs == {r \in InitRefs(t.at.name) : r[1] = s}
       IN IF refs = {} THEN @[s] ELSE Value(t.ids, (CHOOSE r \in refs : TRUE)[2])]]
  /\ UNCHANGED <<code, inst, purse>>
LandSet(t) ==
  /\ t.op = "set" /\ Valid(t)
  /\ slot' = [slot EXCEPT ![t.at][t.slot] = Value(t.ids, t.to)]
  /\ UNCHANGED <<govVars, code, inst, purse>>
LandDeposit(t) ==
  /\ t.op = "deposit" /\ Valid(t)
  /\ purse' = 0
  /\ UNCHANGED <<govVars, code, inst, slot>>
LandCeremony(t) ==
  /\ \/ t.op = "nominate" /\ NominateAdmin(t.at)
     \/ t.op = "queue" /\ Queue(t.at, t.eta)
     \/ t.op = "execute" /\ Execute(t.at)
     \/ t.op \in {"pause", "unpause"} /\ Valid(t) /\ EmergencyPause(t.op = "pause")
  /\ UNCHANGED chain

Land(t) ==
  \/ (LandPlain(t) \/ LandDeploy(t) \/ LandInit(t) \/ LandSet(t) \/ LandDeposit(t) \/ LandCeremony(t)) /\ Landed(t, TRUE)
  \/ ~Valid(t) /\ Landed(t, FALSE) /\ UNCHANGED <<govVars, chain>>

Fault(op) == op \in FaultyOps /\ faults < MaxFaults /\ faults' = faults + 1

(* a transaction that never makes it into a ledger before its time bound *)
Drop(t) ==
  /\ Fault(t.op)
  /\ txs' = txs \ {t}
  /\ run' = [run EXCEPT !.out = IF @ = "pending" /\ run.tx = t THEN "gone" ELSE @]
  /\ UNCHANGED <<govVars, chain, network, file, config, offer, ran, completed, starts>>

----------------------------------------------------------------------------
(* The scripts. *)
Now == Plan(run.script)[run.pc]
Running(s) == run.script = s /\ run.pc \in DOMAIN Plan(s)
Active == Running(run.script)
OnChainUploadsOnly(st) == st.op = "upload" /\ st.name \in code
OnChain(st) == \/ st.op = "upload" /\ st.name \in code
               \/ st.op = "deploy" /\ run.ids[st.name] \in inst
IsCeremony(s, i) == i \in DOMAIN Plan(s) /\ Plan(s)[i].op \in {"nominate", "queue"}

(* move to step i; the time of the proposals is fixed when the ceremony begins *)
MoveTo(i) ==
  run' = [run EXCEPT !.pc = i, !.try = 1, !.tx = NoTx, !.out = "none",
                     !.eta = IF IsCeremony(run.script, i) /\ ~IsCeremony(run.script, i - 1)
                             THEN now + MinDelay + Margin ELSE @]
Die == run' = Idle
Mark == file' = IF run.script = "mainnet-deploy" THEN file \cup {run.pc} ELSE file
KeepSystem == UNCHANGED <<govVars, chain, network, config, ran>>

(* addresses a script starts from: predicted ones on mainnet, the configured ones and fresh   *)
(* insurance and liquidation instances given by the operator to rewire-liquidation on testnet *)
MainnetScripts == {"mainnet-deploy", "seed-insurance", "nominate", "queue", "execute", "verify"}
TestnetScripts == {"redeploy-core", "redeploy-oracle", "setup-usdc", "redeploy-engine-xlm", "rewire",
                   "update-publisher", "nominate", "queue", "execute", "verify"}
Fresh(n) == {a \in Addresses : a.name = n /\ a \notin inst /\ \A t \in txs : t.at # a}
Start(s) ==
  /\ run.script = "idle"
  /\ s \in (IF network = "mainnet" THEN MainnetScripts ELSE TestnetScripts) \cap Scripts
  /\ s = "mainnet-deploy" => s \notin completed
  /\ s = "queue" => "nominate" \in completed      \* the phases of the ceremony are run in order
  /\ s = "execute" => "queue" \in completed
  /\ s \in MainnetScripts \ {"mainnet-deploy"} => network = "testnet" \/ "mainnet-deploy" \in completed
  /\ \/ s # "rewire" /\ run' = [Idle EXCEPT !.script = s, !.ids = config, !.eta = now + MinDelay + Margin]
        /\ UNCHANGED inst
     \/ /\ s = "rewire"
        /\ \E l \in Fresh("liquidation"), i \in Fresh("insurance") :
             /\ run' = [Idle EXCEPT !.script = s, !.ids = [config EXCEPT !["liquidation"] = l, !["insurance"] = i]]
             /\ inst' = inst \cup {l, i}
  /\ ran' = ran \cup {s}
  /\ IF s = "mainnet-deploy" THEN UNCHANGED starts   \* rerun as often as it takes
     ELSE starts < MaxStarts[network] /\ starts' = starts + 1
  /\ offer' = config
  /\ UNCHANGED <<govVars, code, slot, purse, network, txs, file, config, completed, faults>>

(* skipped: checkpointed, or found on chain before the first attempt *)
Skip ==
  /\ Active /\ run.script = "mainnet-deploy" /\ run.out = "none" /\ run.try = 1
  /\ run.pc \in file \/ OnChain(Now)
  /\ Mark /\ MoveTo(run.pc + 1)
  /\ KeepSystem /\ UNCHANGED <<txs, offer, completed, starts, faults>>

(* Steps that are no transaction: the database row, the patch of config files, the check that no   *)
(* target obeys the former admin.  redeploy-core's patterns match nothing in config/index.ts; the *)
(* other scripts read lib/config.ts, which is gone, and end there.                                *)
LocalStep ==
  /\ Active /\ Now.op \in LocalOps /\ run.pc \notin file
  /\ offer' = IF Now.op \in {"patch", "patchMissing"} THEN run.ids ELSE offer
  /\ CASE Now.op = "patchMissing" -> Die
       [] Now.op = "check" -> run' = [run EXCEPT !.pc = @ + 1,
                                       !.bad = \E i \in DOMAIN Targets : CanNominate(run.ids[Targets[i]])]
       [] OTHER -> MoveTo(run.pc + 1)
  /\ Mark
  /\ KeepSystem /\ UNCHANGED <<txs, completed, starts, faults>>

TxOf(st, a) == [op |-> st.op, at |-> a, slot |-> st.slot, to |-> st.to, ids |-> run.ids, eta |-> run.eta]
DeployAnywhere(n) == Fresh(n)
(* a deployment draws a random salt on testnet; the salt of mainnet-deploy is the contract's name *)
DeployAddress(n) == IF network = "mainnet" THEN {First[n]} ELSE Fresh(n)
AddressOf(st) == IF st.op = "deploy" THEN DeployAddress(st.name)
                 ELSE IF st.name \in NameSet THEN {run.ids[st.name]} ELSE {None}

Submit ==
  /\ Active /\ run.out = "none" /\ Now.op \notin LocalOps
  /\ run.script = "mainnet-deploy" => run.pc \notin file /\ (run.try = 1 => ~OnChain(Now))
  /\ \E a \in AddressOf(Now) :
       /\ Valid(TxOf(Now, a))
       /\ txs' = txs \cup {TxOf(Now, a)}
       /\ run' = [run EXCEPT !.tx = TxOf(Now, a), !.out = "pending",
                             !.ids = IF Now.op = "deploy" THEN [@ EXCEPT ![Now.name] = a] ELSE @]
  /\ KeepSystem /\ UNCHANGED <<file, offer, completed, starts, faults>>

Confirm ==
  /\ Active /\ run.out = "ok"
  /\ Mark /\ MoveTo(run.pc + 1)
  /\ KeepSystem /\ UNCHANGED <<txs, offer, completed, starts, faults>>

(* What a script does when a step fails in simulation ("sim"), on chain ("chain") or is not seen *)
(* to be confirmed ("missed").                                                                   *)
InitError(n) == IF n = "risk" THEN 5 ELSE 12     \* CoreError::InvalidConfig, AlreadyInitialized
Tolerated == {3}                                 \* allowFailCodes of Step 4
AllowFail(s, op) == s = "rewire" /\ op \in {"init", "queue"}
ReactionUnconfirmedIsDone(s, st, kind) == IF kind = "missed" THEN "next" ELSE "die"
DeployReaction(st, kind) ==
  CASE st.op \in {"upload", "deploy"} -> IF OnChain(st) THEN "next" ELSE "retry"
    [] st.op = "init" /\ kind = "sim" -> IF InitError(st.name) \in Tolerated THEN "next" ELSE "die"
    [] st.op = "ops" /\ kind = "missed" -> "next"
    [] st.op \notin {"upload", "deploy", "ops"} /\ kind = "missed" -> "retry"
    [] OTHER -> "die"
Reaction(s, st, kind) ==
  CASE s = "mainnet-deploy" -> DeployReaction(st, kind)
    [] s = "redeploy-core" -> IF kind = "missed" THEN "retry" ELSE "die"
    [] s = "rewire" -> IF AllowFail(s, st.op) /\ kind = "sim" THEN "next" ELSE "retry"
    [] s = "seed-insurance" /\ st.op = "deposit" -> "retry"
    [] s = "execute" -> "next"
    [] OTHER -> "die"
Attempts(s, op) ==
  CASE s = "mainnet-deploy" -> 3
    [] s = "redeploy-core" -> IF op = "deploy" THEN 5 ELSE 2
    [] s = "rewire" -> 4
    [] s = "seed-insurance" /\ op = "deposit" -> 2
    [] OTHER -> 1

React(kind) ==
  LET r == Reaction(run.script, Now, kind) IN
  \/ r = "next" /\ Mark /\ MoveTo(run.pc + 1)
  \/ /\ r = "retry" /\ run.try < Attempts(run.script, Now.op)
     /\ run' = [run EXCEPT !.try = @ + 1, !.tx = NoTx, !.out = "none"]
     /\ UNCHANGED file
  \/ /\ r = "retry" /\ run.try = Attempts(run.script, Now.op)
     /\ IF AllowFail(run.script, Now.op) THEN MoveTo(run.pc + 1) ELSE Die
     /\ UNCHANGED file
  \/ r = "die" /\ Die /\ UNCHANGED file

SimFails ==
  /\ Active /\ run.out = "none" /\ Now.op \notin LocalOps
  /\ run.script = "mainnet-deploy" => run.pc \notin file /\ (run.try = 1 => ~OnChain(Now))
  /\ \A a \in AddressOf(Now) : ~Valid(TxOf(Now, a))
  /\ AddressOf(Now) # {}
  /\ React("sim")
  /\ KeepSystem /\ UNCHANGED <<txs, offer, completed, starts, faults>>
FailedOnChain ==
  /\ Active /\ run.out = "failed" /\ React("chain")
  /\ KeepSystem /\ UNCHANGED <<txs, offer, completed, starts, faults>>
(* the polls end, or throw, without an answer: the transaction was dropped, or is late, or landed unseen *)
Missed ==
  /\ Active
  /\ \/ run.out = "gone" /\ UNCHANGED faults
     \/ run.out \in {"pending", "ok"} /\ Fault(Now.op)
  /\ React("missed")
  /\ KeepSystem /\ UNCHANGED <<txs, offer, completed, starts>>

Crash ==
  /\ Active /\ Fault(Now.op) /\ Die
  /\ KeepSystem /\ UNCHANGED <<txs, file, offer, completed, starts>>

Finish ==
  /\ run.script # "idle" /\ ~Active
  /\ Die
  /\ completed' = IF run.bad THEN completed ELSE completed \cup {run.script}
  /\ offer' = run.ids
  /\ KeepSystem /\ UNCHANGED <<txs, file, starts, faults>>

(* the operator gives the services the addresses the script printed *)
Adopt ==
  /\ run.script = "idle" /\ offer # config
  /\ config' = offer
  /\ ran' = IF offer["engine"] # config["engine"] THEN {} ELSE ran
  /\ UNCHANGED <<govVars, chain, network, txs, run, file, offer, completed, starts, faults>>

(* the governance admin cancels a proposal, the guardian pauses: calls of their own *)
CancelProposal(c) ==
  /\ Fault("cancel") /\ Cancel(c)
  /\ txs' = {}
  /\ run' = [run EXCEPT !.out = IF @ = "pending" THEN "gone" ELSE @]
  /\ UNCHANGED <<chain, network, file, config, offer, ran, completed, starts>>
GuardianPause(flag) ==
  /\ Fault("guardian") /\ EmergencyPause(flag) /\ paused # flag
  /\ UNCHANGED <<chain, network, txs, run, file, config, offer, ran, completed, starts>>

(* time matters from the first proposal on; a slow queue phase counts as a fault of "queue" steps *)
Wait ==
  /\ \E c \in Contracts : proposal[c].status # "absent"
  /\ run.script \in {"queue", "rewire"} => "queue" \in FaultyOps
  /\ Tick /\ UNCHANGED depVars

Progress == Skip \/ LocalStep \/ Submit \/ Confirm \/ SimFails \/ FailedOnChain \/ Finish
              \/ (UNCHANGED faults /\ Missed)

Next ==
  \/ \E s \in Scripts : Start(s)
  \/ Skip \/ LocalStep \/ Submit \/ Confirm \/ SimFails \/ FailedOnChain \/ Missed \/ Crash \/ Finish \/ Adopt
  \/ \E t \in txs : Land(t) \/ Drop(t)
  \/ \E c \in Contracts : CancelProposal(c)
  \/ \E flag \in BOOLEAN : GuardianPause(flag)
  \/ Wait

Spec == Init /\ [][Next]_vars
(* A started script goes on, the network includes what was sent, and the operator reruns mainnet-deploy *)
(* until it reports success.                                                                            *)
FairSpec == /\ Spec /\ WF_vars(Progress) /\ WF_vars(\E t \in txs : Land(t)) /\ WF_vars(Start("mainnet-deploy"))
----------------------------------------------------------------------------
(* A checkpoint of mainnet-deploy (mark, saveState) is written only for a step whose effect is on chain,  *)
(* whatever was interrupted, dropped or seen late; the ops accounts are the one step of which the code    *)
(* does not ensure it.                                                                                    *)
EffectHolds(st) ==
  CASE st.op = "upload" -> st.name \in code
    [] st.op = "deploy" -> First[st.name] \in inst
    [] st.op = "init" -> admin[First[st.name]] # "none"
    [] st.op = "set" -> slot[First[st.name]][st.slot] = Value(First, st.to)
    [] OTHER -> TRUE
MarkedIsDone == \A i \in file : EffectHolds(MainnetPlan[i])

(* When mainnet-deploy reports success every contract refers to the others,                               *)
(* and no second instance of a contract was created on the way.                                           *)
CompletedIsWired ==
  "mainnet-deploy" \in completed =>
    /\ inst = Range(First)
    /\ \A w \in Wiring : slot[First[w[1]]][w[2]] = First[w[2]]

(* The vault, engine and gateway that the services use refer to each other at every moment, also while    *)
(* redeploy-core or rewire-liquidation runs or was interrupted; only the scripts that give a live vault a *)
(* new engine break this, until the new addresses are adopted.                                            *)
CoreWired(c) ==
  /\ slot[c["vault"]]["engine"] = c["engine"] /\ slot[c["engine"]]["vault"] = c["vault"]
  /\ slot[c["engine"]]["gateway"] = c["gateway"] /\ slot[c["gateway"]]["engine"] = c["engine"]
CoreStaysWired ==
  network = "testnet" /\ ran \cap {"setup-usdc", "redeploy-engine-xlm"} = {} => CoreWired(config)

(* Governance becomes admin of a contract only by a proposal that waited at least the timelock after it   *)
(* was queued, and never of a contract it was not nominated for.                                          *)
HandoverTimelocked ==
  [][\A c \in Contracts : admin'[c] # admin[c] /\ admin[c] # "none" =>
        /\ admin'[c] = "governance" /\ nominee[c] = "governance" /\ ~paused
        /\ proposal[c].status = "Queued" /\ now >= queuedAt[c] + MinDelay]_vars

(* mainnet-deploy is resume-safe: rerun after every interruption, it reports success in the end.          *)
DeployCompletes == [](network = "mainnet" => <>("mainnet-deploy" \in completed))
=============================================================================
