----------------------------- MODULE Governance -----------------------------
(***************************************************************************)
(* The admin role of every contract and its timelocked transfer to the     *)
(* perp-governance contract.  Every contract has an admin and, between     *)
(* nominate_admin and accept_admin, a nominee.  perp-governance holds      *)
(* proposals; the ones that matter here call accept_admin on a contract,   *)
(* so a proposal is named by its target (proposalId hashes the target).    *)
(* A call that fails, in the contract or in the one it invokes, reverts    *)
(* everything it wrote: each action is enabled only when the call succeeds.*)
(***************************************************************************)
EXTENDS Integers

CONSTANTS
  Contracts,    \* the instances that can be deployed
  MinDelay,     \* the timelock of perp-governance
  MaxTime       \* bound on the ledger time

ASSUME GovernanceAssumption == MinDelay \in Nat \ {0} /\ MaxTime \in Nat

VARIABLES
  now,        \* ledger timestamp
  admin,      \* admin[c]: DataKey::Admin, "none" before initialize
  nominee,    \* nominee[c]: DataKey::PendingAdmin
  proposal,   \* proposal[c]: status and eta of the accept_admin proposal of c
  paused,     \* DataKey::Paused of perp-governance
  queuedAt    \* history: when the proposal of c was queued

govVars == <<now, admin, nominee, proposal, paused, queuedAt>>

GovInit(owner) ==
  /\ now = 0
  /\ admin = owner
  /\ nominee = [c \in Contracts |-> "none"]
  /\ proposal = [c \in Contracts |-> [status |-> "absent", eta |-> 0]]
  /\ paused = FALSE
  /\ queuedAt = [c \in Contracts |-> 0]

(* initialize: the first caller names the admin; AlreadyInitialized afterwards. *)
CanInitialize(c) == admin[c] = "none"
Initialize(c) ==
  /\ CanInitialize(c)
  /\ admin' = [admin EXCEPT ![c] = "eoa"]
  /\ UNCHANGED <<now, nominee, proposal, paused, queuedAt>>

CanNominate(c) == admin[c] = "eoa"
NominateAdmin(c) ==
  /\ CanNominate(c)
  /\ nominee' = [nominee EXCEPT ![c] = "governance"]
  /\ UNCHANGED <<now, admin, proposal, paused, queuedAt>>

(* queue, called by the admin of perp-governance *)
CanQueue(c, eta) == proposal[c].status = "absent" /\ eta >= now + MinDelay
Queue(c, eta) ==
  /\ CanQueue(c, eta)
  /\ proposal' = [proposal EXCEPT ![c] = [status |-> "Queued", eta |-> eta]]
  /\ queuedAt' = [queuedAt EXCEPT ![c] = now]
  /\ UNCHANGED <<now, admin, nominee, paused>>

(* execute invokes accept_admin on the target, which succeeds only when      *)
(* perp-governance is the nominee; the mark and the call are one transaction *)
CanExecuteEarly(c) == ~paused /\ proposal[c].status = "Queued" /\ nominee[c] = "governance"
CanExecute(c) ==
  /\ ~paused
  /\ proposal[c].status = "Queued"
  /\ now >= proposal[c].eta
  /\ nominee[c] = "governance"
Execute(c) ==
  /\ CanExecute(c)
  /\ proposal' = [proposal EXCEPT ![c].status = "Executed"]
  /\ admin' = [admin EXCEPT ![c] = nominee[c]]
  /\ nominee' = [nominee EXCEPT ![c] = "none"]
  /\ UNCHANGED <<now, paused, queuedAt>>

Cancel(c) ==
  /\ proposal[c].status = "Queued"
  /\ proposal' = [proposal EXCEPT ![c].status = "Cancelled"]
  /\ UNCHANGED <<now, admin, nominee, paused, queuedAt>>

(* emergency_pause by the guardian, which vetoes every execution *)
EmergencyPause(flag) ==
  /\ paused' = flag
  /\ UNCHANGED <<now, admin, nominee, proposal, queuedAt>>

Tick ==
  /\ now < MaxTime
  /\ now' = now + 1
  /\ UNCHANGED <<admin, nominee, proposal, paused, queuedAt>>
=============================================================================
