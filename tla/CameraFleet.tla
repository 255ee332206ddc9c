----------------------------- MODULE CameraFleet -----------------------------
(***************************************************************************)
(* app/camera-sim/entrypoint.sh: the streams that the simulated cameras    *)
(* publish.  A stream's name carries its category and its number; each is  *)
(* published by a process of its own that starts ffmpeg again when it      *)
(* ends.                                                                   *)
(***************************************************************************)
EXTENDS Naturals, Sequences

CONSTANTS
    Videos,     \* the categories of the image's videos, in the order of their names
    CAMERAS

\* CATEGORIES if it is set, else a line for every video.
Lines(configured) == IF configured # <<>> THEN configured ELSE Videos

\* Line ci, counted from 0, has one camera more while ci is less than the remainder.
Count(categories, ci) ==
    CAMERAS \div Len(categories) + (IF ci < CAMERAS % Len(categories) THEN 1 ELSE 0)

\* The container ends, with every stream it has begun, if a line has no video.
Published(configured) ==
    LET categories == Lines(configured) IN
    IF \E k \in 1..Len(categories) : \A j \in 1..Len(Videos) : Videos[j] # categories[k] THEN {}
    ELSE UNION {{<<categories[ci + 1], i>> : i \in 1..Count(categories, ci)}
                   : ci \in 0..(Len(categories) - 1)}
=============================================================================
