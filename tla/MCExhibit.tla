------------------------------ MODULE MCExhibit ------------------------------
(* Two lines of three cameras; a run over both, one that asks for more of   *)
(* one line, and one that fails half-way.  A pick of the second is rounded  *)
(* down.                                                                    *)
EXTENDS Exhibit

MCNames      == <<"capsules", "pcb1">>
MCConfigured == {<<>>, <<"pcb1">>}
MCSources    == [normal |-> 6, anomaly |-> 2]
MCCalls ==
    {[categories |-> <<"capsules", "pcb1">>, count |-> [normal |-> 2, anomaly |-> 1]],
     [categories |-> <<"pcb1">>, count |-> [normal |-> 4, anomaly |-> 1]],
     [categories |-> <<"pcb1">>, count |-> [normal |-> 1, anomaly |-> 0]]}
MCRoundedDown == {<<2, 6, 4>>}
=============================================================================
