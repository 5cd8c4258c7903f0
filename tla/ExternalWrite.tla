---------------------------- MODULE ExternalWrite ----------------------------
(***************************************************************************)
(* What the execution of a run promises about its consequential steps,     *)
(* without workers, deliveries, sessions or requests: an action is         *)
(* reviewed, its single authority is spent in durable storage, and only    *)
(* then is the provider called, once, with a reviewed action; a result is  *)
(* recorded for a spent authority only, and nothing is ever called after   *)
(* that.  A crash is a step that never comes: an authority may stay spent  *)
(* for ever without a call, and a call without a result.                   *)
(*                                                                         *)
(* The promise is the one of orchestrator.py's call loop (the dispatched   *)
(* attempt is committed before the provider is called) and of              *)
(* autonomous_delivery.py's ledger (a dispatched write is never retried).  *)
(***************************************************************************)
EXTENDS Naturals

CONSTANTS Writes, Actions

VARIABLES
  reviewed,   \* the actions that may go out, by write
  spent,      \* the writes whose authority has been used
  sent,       \* the actions that went out, by write
  calls,      \* provider calls, by write
  recorded    \* the writes with a recorded result

vars == <<reviewed, spent, sent, calls, recorded>>

Init == /\ reviewed = [s \in Writes |-> {}] /\ sent = [s \in Writes |-> {}]
        /\ calls = [s \in Writes |-> 0] /\ spent = {} /\ recorded = {}

Review(s) ==
  /\ \E a \in Actions : reviewed' = [reviewed EXCEPT ![s] = @ \cup {a}]
  /\ UNCHANGED <<spent, sent, calls, recorded>>

Spend(s) ==
  /\ reviewed[s] # {} /\ s \notin spent /\ s \notin recorded
  /\ spent' = spent \cup {s}
  /\ UNCHANGED <<reviewed, sent, calls, recorded>>

Call(s) ==
  /\ s \in spent /\ s \notin recorded /\ calls[s] = 0
  /\ \E a \in reviewed[s] : sent' = [sent EXCEPT ![s] = {a}]
  /\ calls' = [calls EXCEPT ![s] = 1]
  /\ UNCHANGED <<reviewed, spent, recorded>>

\* The provider answered, or a later read confirmed the effect.
Record(s) ==
  /\ s \in spent /\ recorded' = recorded \cup {s}
  /\ UNCHANGED <<reviewed, spent, sent, calls>>

Next == \E s \in Writes : Review(s) \/ Spend(s) \/ Call(s) \/ Record(s)

Spec == Init /\ [][Next]_vars
==============================================================================
