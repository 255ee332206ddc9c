------------------------------ MODULE Streams ------------------------------
(***************************************************************************)
(* The cameras and the frames that their streams deliver, each known by    *)
(* its number in the stream.                                               *)
(***************************************************************************)
EXTENDS Naturals

CONSTANTS
    Cameras,
    MaxFrames       \* frames a stream delivers

ASSUME FramesAssumption == MaxFrames \in Nat \ {0}

Frames == 1..MaxFrames
=============================================================================
