------------------------------- MODULE Monitor ------------------------------
(***************************************************************************)
(* scripts/monitor.ts: rounds of checks on a timer that does not wait for  *)
(* the previous round, and the alerts: one when a check starts to fail, a  *)
(* reminder every hour, a notice when it recovers.                         *)
(***************************************************************************)
EXTENDS Integers, FiniteSets, FiniteSetsExt

CONSTANTS
  Checks,      \* the checks, numbered in the order of their results
  Rounds,      \* rounds that may be under way at once
  MaxFlips,    \* bound on services failing and recovering
  MaxLost      \* bound on posts that fail

VARIABLES
  broken,     \* services that do not work
  round,      \* round[r]: results still to be processed, and the alert being posted
  failing,    \* alertStates: the checks known to fail
  due,        \* failing checks last alerted an hour ago or more
  shown,      \* shown[c]: the last alert about c that was delivered
  flips, lost

monitorVars == <<broken, round, failing, due, shown, flips, lost>>
NoRound == [bad |-> {}, todo |-> {}, post |-> "none"]
MonitorInit ==
  /\ broken = {} /\ round = [r \in Rounds |-> NoRound] /\ failing = {} /\ due = {}
  /\ shown = [c \in Checks |-> "none"] /\ flips = 0 /\ lost = 0

(* Promise.all of the checks, each of them turned into a result *)
RunChecks(r) ==
  /\ round[r].todo = {} /\ round' = [round EXCEPT ![r] = [bad |-> broken, todo |-> Checks, post |-> "none"]]
  /\ UNCHANGED <<broken, failing, due, shown, flips, lost>>
(* processAlerts for one result: the state changes before the post is awaited *)
RemindsNever(c) == FALSE
Reminds(c) == c \in due
AlertFor(c, bad) ==
  CASE c \in bad /\ c \notin failing -> "red"
    [] c \in bad /\ Reminds(c) -> "red"
    [] c \notin bad /\ c \in failing -> "green"
    [] OTHER -> "none"
Process(r) ==
  LET c == Min(round[r].todo)
      alert == AlertFor(c, round[r].bad) IN
  /\ round[r].todo # {} /\ round[r].post = "none"
  /\ failing' = IF c \in round[r].bad THEN failing \cup {c} ELSE failing \ {c}
  /\ due' = IF alert = "none" THEN due ELSE due \ {c}
  /\ round' = IF alert = "none" THEN [round EXCEPT ![r].todo = @ \ {c}] ELSE [round EXCEPT ![r].post = alert]
  /\ UNCHANGED <<broken, shown, flips, lost>>
(* postAlert swallows its errors *)
PostAlert(r) ==
  LET c == Min(round[r].todo) IN
  /\ round[r].post # "none"
  /\ round' = [round EXCEPT ![r].todo = @ \ {c}, ![r].post = "none"]
  /\ \/ shown' = [shown EXCEPT ![c] = round[r].post] /\ UNCHANGED lost
     \/ lost < MaxLost /\ lost' = lost + 1 /\ UNCHANGED shown
  /\ UNCHANGED <<broken, failing, due, flips>>
Hour(c) == c \in failing \ due /\ due' = due \cup {c} /\ UNCHANGED <<broken, round, failing, shown, flips, lost>>
Flip(c) ==
  /\ flips < MaxFlips /\ flips' = flips + 1
  /\ broken' = IF c \in broken THEN broken \ {c} ELSE broken \cup {c}
  /\ UNCHANGED <<round, failing, due, shown, lost>>

RoundStep(r) == RunChecks(r) \/ Process(r) \/ PostAlert(r)
MonitorNext ==
  \/ \E r \in Rounds : RoundStep(r)
  \/ \E c \in Checks : Hour(c) \/ Flip(c)
----------------------------------------------------------------------------
(* A service that stays broken comes to be shown as failing, although rounds overlap, their results are   *)
(* processed in any order and posts are lost.                                                             *)
OutageReported == \A c \in Checks : <>[](c \in broken) => <>[](shown[c] = "red")
=============================================================================
