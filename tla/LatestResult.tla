---------------------------- MODULE LatestResult ----------------------------
(***************************************************************************)
(* What the analyzer promises the readers of /api/state: for each camera   *)
(* it watches the latest outcome, one frame's in one piece, and a later    *)
(* outcome is a later frame's.  A frame that was looked at may stay        *)
(* unseen; none is shown twice.  A restart forgets the outcomes and not    *)
(* the order of the frames.                                                *)
(***************************************************************************)
EXTENDS Streams

VARIABLES
    latest,     \* by camera, the outcome shown
    sent        \* by camera, the latest frame ever shown

Verdicts == {"PASS", "FAIL"}

Absent  == [score |-> 0, verdict |-> "absent"]
Waiting == [score |-> 0, verdict |-> "none"]
Outcome == [score : Frames, verdict : Verdicts] \cup {Absent, Waiting}

Init ==
    /\ latest = [c \in Cameras |-> Absent]
    /\ sent = [c \in Cameras |-> 0]

\* A watcher begins.
Register(c) ==
    /\ latest[c] = Absent
    /\ latest' = [latest EXCEPT ![c] = Waiting]
    /\ UNCHANGED sent

Publish(c) ==
    /\ latest[c] # Absent
    /\ \E n \in Frames, v \in Verdicts :
          /\ n > sent[c]
          /\ latest' = [latest EXCEPT ![c] = [score |-> n, verdict |-> v]]
          /\ sent' = [sent EXCEPT ![c] = n]

Forget ==
    /\ latest' = [c \in Cameras |-> Absent]
    /\ UNCHANGED sent

Next == Forget \/ \E c \in Cameras : Register(c) \/ Publish(c)

Spec == Init /\ [][Next]_<<latest, sent>>
=============================================================================
