---------------------------- MODULE PowerOracle ----------------------------
(***************************************************************************)
(* What Pacemaker needs from a fence device, and what the header of        *)
(* tools/redfish-ec2/redfish_ec2.py promises: a query may answer "Off"     *)
(* only at an instant at which the machine cannot write, may answer "On"   *)
(* at any time, and a switch affects no machine but the one it names and   *)
(* never claims to have cut the power.  RedfishShim implements this.       *)
(***************************************************************************)
CONSTANTS Machines, Nobody, Clients

VARIABLES
    up,         \* the machines that can write to shared state
    asked,      \* the machine the client has a request about, or Nobody
    kind,       \* whether that request is a "query" or a "switch"
    said        \* the answer, "none" while there is none

vars == <<up, asked, kind, said>>

Init ==
    /\ up    = {}
    /\ asked = [c \in Clients |-> Nobody]
    /\ kind  = [c \in Clients |-> "query"]
    /\ said  = [c \in Clients |-> "none"]

Ask(c) ==
    /\ asked[c] = Nobody
    /\ \E m \in Machines, k \in {"query", "switch"} :
          /\ asked' = [asked EXCEPT ![c] = m]
          /\ kind' = [kind EXCEPT ![c] = k]
    /\ UNCHANGED <<up, said>>

Pending(c) == asked[c] # Nobody /\ said[c] = "none"

Say(c, a) ==
    /\ said' = [said EXCEPT ![c] = a]
    /\ UNCHANGED <<asked, kind>>

AnswerQuery(c) ==
    /\ Pending(c)
    /\ kind[c] = "query"
    /\ \E a \in {"On", "Off", "error"} :
          /\ a = "Off" => asked[c] \notin up
          /\ Say(c, a)
    /\ UNCHANGED up

\* Switching on takes effect at once, switching off only begins.
AnswerSwitch(c) ==
    /\ Pending(c)
    /\ kind[c] = "switch"
    /\ \E a \in {"accepted", "error"} : Say(c, a)
    /\ up' \in {up, up \cup {asked[c]}}

\* The client has its answer.
Finish(c) ==
    /\ said[c] # "none"
    /\ asked' = [asked EXCEPT ![c] = Nobody]
    /\ kind' = [kind EXCEPT ![c] = "query"]
    /\ said' = [said EXCEPT ![c] = "none"]
    /\ UNCHANGED up

\* Power comes and goes on its own schedule: a stop completes, a boot starts.
PowerChange(m) ==
    /\ up' \in {up \cup {m}, up \ {m}}
    /\ UNCHANGED <<asked, kind, said>>

\* The device restarts and every request is lost.
Lose ==
    /\ asked' = [c \in Clients |-> Nobody]
    /\ kind' = [c \in Clients |-> "query"]
    /\ said' = [c \in Clients |-> "none"]
    /\ UNCHANGED up

Next ==
    \/ \E c \in Clients : Ask(c) \/ AnswerQuery(c) \/ AnswerSwitch(c) \/ Finish(c)
    \/ \E m \in Machines : PowerChange(m)
    \/ Lose

Spec == Init /\ [][Next]_vars
=============================================================================
