--------------------------- MODULE MCGpuAccounting ---------------------------
(* Cameras taking turns on the device while the timer rolls up.            *)
EXTENDS GpuAccounting
=============================================================================
