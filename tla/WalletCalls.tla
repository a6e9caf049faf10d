---------------------------- MODULE WalletCalls -----------------------------
(***************************************************************************)
(* Contract calls from the browser (invokeContract): read the account's    *)
(* sequence number, build with a time bound, simulate, let the wallet      *)
(* sign, send, poll.  The caller learns that the call succeeded or failed, *)
(* or gives it up: after 30 polls ("timeout") or when a request throws     *)
(* ("lost").  The time bound is set by the browser's clock and judged by   *)
(* the ledger's close time, and the two need not agree; so no clock here   *)
(* says when a transaction is void: one given up may have landed, may land *)
(* at any later time, or never.  All calls are made for one account.       *)
(***************************************************************************)
EXTENDS Integers, FiniteSets

CONSTANT Callers   \* the places of the page that make calls, each one at a time

VARIABLES
  sequence,   \* the account's sequence number on the ledger
  call,       \* call[c]: the last call of c
  landed,     \* landed[c]: the transaction of c's last call is on the ledger: "no", "ok" or "failed"
  given,      \* given[c]: sequence numbers of earlier transactions of c that it gave up before they landed
  moved       \* history: moved[c]: transactions of c that took effect since it last built one

callVars == <<sequence, call, landed, given, moved>>

Stages == {"idle", "built", "sent", "ok", "failed", "timeout", "lost", "error"}
Ended(stage) == [stage |-> stage, seq |-> 0]

CallsInit ==
  /\ sequence = 0
  /\ call = [c \in Callers |-> Ended("idle")] /\ landed = [c \in Callers |-> "no"]
  /\ given = [c \in Callers |-> {}] /\ moved = [c \in Callers |-> 0]

Busy(c) == call[c].stage \in {"built", "sent"}
GivenUp(c) == call[c].stage \in {"timeout", "lost"} /\ landed[c] = "no"

(* getAccount: the number after the last one used on the ledger *)
NextSequenceLocal(c) == IF call[c].stage \in {"timeout", "lost"} THEN call[c].seq + 1 ELSE sequence + 1
NextSequence(c) == sequence + 1
(* getAccount, build and simulateTransaction; a call whose simulation fails throws *)
Invoke(c) ==
  /\ ~Busy(c)
  /\ \/ /\ call' = [call EXCEPT ![c] = [stage |-> "built", seq |-> NextSequence(c)]]
        /\ moved' = [moved EXCEPT ![c] = 0]
     \/ call' = [call EXCEPT ![c] = Ended("error")] /\ UNCHANGED moved
  /\ landed' = [landed EXCEPT ![c] = "no"]
  /\ given' = [given EXCEPT ![c] = @ \cup IF GivenUp(c) THEN {call[c].seq} ELSE {}]
  /\ UNCHANGED sequence

(* The wallet signs, which takes its time, and the transaction is sent: a used sequence number is refused, and *)
(* when the answer is lost the caller gives up what the node may have taken.                                   *)
Send(c) ==
  /\ call[c].stage = "built"
  /\ IF call[c].seq = sequence + 1
     THEN \E stage \in {"sent", "lost"} : call' = [call EXCEPT ![c].stage = stage]
     ELSE call' = [call EXCEPT ![c] = Ended("error")]
  /\ UNCHANGED <<sequence, landed, given, moved>>
Reject(c) ==
  /\ call[c].stage = "built" /\ call' = [call EXCEPT ![c] = Ended("error")]
  /\ UNCHANGED <<sequence, landed, given, moved>>

(* A poll tells what has landed; the node may not know of it yet, up to the last poll, or the request throws. *)
Poll(c) ==
  /\ call[c].stage = "sent"
  /\ \/ landed[c] # "no" /\ call' = [call EXCEPT ![c] = Ended(landed[c])]
     \/ \E stage \in {"timeout", "lost"} : call' = [call EXCEPT ![c].stage = stage]
  /\ UNCHANGED <<sequence, landed, given, moved>>

(* The ledger: what is sent lands in the order of the sequence numbers, or never. *)
CanLand(c) == call[c].stage \in {"sent", "timeout", "lost"} /\ landed[c] = "no" /\ call[c].seq = sequence + 1
TakesEffect(c, result) == moved' = IF result = "ok" THEN [moved EXCEPT ![c] = @ + 1] ELSE moved
Lands(c, result) ==
  /\ CanLand(c)
  /\ sequence' = sequence + 1 /\ landed' = [landed EXCEPT ![c] = result] /\ TakesEffect(c, result)
  /\ UNCHANGED <<call, given>>
LandsLate(c, result) ==
  /\ sequence + 1 \in given[c]
  /\ sequence' = sequence + 1 /\ TakesEffect(c, result)
  /\ UNCHANGED <<call, landed, given>>

(* From the moment a call is built until the caller builds its next one, at most one of all the transactions  *)
(* it ever made takes effect, the ones it gave up and that land late included: a retry after "timeout" or a   *)
(* lost answer never doubles what was still on its way.  (What had landed unseen before the retry was built   *)
(* is repeated: the page does not look.)                                                                      *)
RetryNeverDoubles == \A c \in Callers : moved[c] <= 1
=============================================================================
