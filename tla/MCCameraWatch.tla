---------------------------- MODULE MCCameraWatch ----------------------------
(* Two cameras of one device, one of which delivers a frame more.          *)
EXTENDS CameraWatch

CONSTANTS c1, c2

TwoCameras == {c1, c2}
OneMore    == [c \in TwoCameras |-> IF c = c1 THEN 2 ELSE 1]
=============================================================================
