---------------------------- MODULE VersionStatus -----------------------------
(***************************************************************************)
(* What VersionLifecycle shows of a codebase to whoever looks at its rows, *)
(* with no webhooks, Lambda, tasks, requests or buckets: the diagram of    *)
(* the status of a version, when a version is paid for, and what it may be *)
(* built on.                                                               *)
(*                                                                         *)
(*   CONNECTING --> CONNECTED --> GENERATING <--> GENERATION_COMPLETE      *)
(*       |                         |      ^  <--> GENERATION_ERROR         *)
(*       v                         |      |  <--> INSUFFICIENT_BALANCE     *)
(*   CONNECTION_FAILED <-----------'      '-- (pushed on a generated one)  *)
(***************************************************************************)
CONSTANTS Version, NoVersion

VARIABLES asset,      (* the codebase: "none", "present" or "deleted"       *)
          status,     (* status[v], "none" if it has no row                 *)
          base,       (* base[v]: the version v was pushed on, or NoVersion *)
          connected,  (* the versions whose nodes are there                 *)
          documented, (* the versions whose documents are there             *)
          paid        (* the versions debited                               *)

vars == <<asset, status, base, connected, documented, paid>>

Ordered == {"GENERATING", "GENERATION_COMPLETE", "GENERATION_ERROR",
            "INSUFFICIENT_BALANCE"}

Init ==
  /\ asset = "none"
  /\ status = [v \in Version |-> "none"]
  /\ base = [v \in Version |-> NoVersion]
  /\ connected = {} /\ documented = {} /\ paid = {}

Add(v) ==
  /\ asset = "none" /\ asset' = "present"
  /\ status' = [status EXCEPT ![v] = "CONNECTING"]
  /\ UNCHANGED <<base, connected, documented, paid>>

(* A version is pushed on one that is connected, and generates at once     *)
(* only if that one was to be generated.                                   *)
Push(v, p) ==
  /\ asset = "present" /\ status[v] = "none" /\ p \in connected
  /\ base' = [base EXCEPT ![v] = p]
  /\ \/ status' = [status EXCEPT ![v] = "CONNECTING"]
     \/ status[p] \in Ordered /\ status' = [status EXCEPT ![v] = "GENERATING"]
  /\ UNCHANGED <<asset, connected, documented, paid>>

Connect(v) ==
  /\ v \notin connected /\ connected' = connected \cup {v}
  /\ \/ /\ status[v] = "CONNECTING"
        /\ status' = [status EXCEPT ![v] = "CONNECTED"]
     \/ status[v] = "GENERATING" /\ UNCHANGED status
  /\ UNCHANGED <<asset, base, documented, paid>>

(* Final: a failed connection is not tried again.                          *)
Reject(v) ==
  /\ v \notin connected /\ status[v] \in {"CONNECTING", "GENERATING"}
  /\ status' = [status EXCEPT ![v] = "CONNECTION_FAILED"]
  /\ UNCHANGED <<asset, base, connected, documented, paid>>

(* The debit does not look whether the codebase is still there.            *)
Pay(v) ==
  /\ v \in connected \/ asset = "deleted"
  /\ paid' = paid \cup {v}
  /\ UNCHANGED <<asset, status, base, connected, documented>>

(* The first version of a codebase, and one pushed before it was           *)
(* generated, is paid for; the others build on one that was.               *)
Due(v) == v \in paid \/ base[v] # NoVersion

Order(v) ==
  /\ v \in connected /\ status[v] \in {"CONNECTED"} \cup Ordered /\ Due(v)
  /\ status' = [status EXCEPT ![v] = "GENERATING"]
  /\ UNCHANGED <<asset, base, connected, documented, paid>>

Document(v) ==
  /\ v \in connected /\ status[v] \in Ordered /\ Due(v)
  /\ documented' = documented \cup {v}
  /\ UNCHANGED <<asset, status, base, connected, paid>>

(* A generation ends well only with the documents there, and ends for want *)
(* of balance only if it builds on another version.                        *)
End(v, s) ==
  /\ v \in connected /\ status[v] \in Ordered
  /\ s = "GENERATION_COMPLETE" => v \in documented
  /\ s = "INSUFFICIENT_BALANCE" => base[v] # NoVersion
  /\ status' = [status EXCEPT ![v] = s]
  /\ UNCHANGED <<asset, base, connected, documented, paid>>

Remove ==
  /\ asset = "present" /\ asset' = "deleted"
  /\ status' = [v \in Version |-> "none"]
  /\ base' = [v \in Version |-> NoVersion]
  /\ connected' = {} /\ documented' = {}
  /\ UNCHANGED paid

Next ==
  \/ \E v \in Version :
       \/ Add(v) \/ Connect(v) \/ Reject(v) \/ Pay(v) \/ Order(v) \/ Document(v)
       \/ \E p \in Version : Push(v, p)
       \/ \E s \in Ordered \ {"GENERATING"} : End(v, s)
  \/ Remove

Spec == Init /\ [][Next]_vars
==============================================================================
