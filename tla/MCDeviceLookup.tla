--------------------------- MODULE MCDeviceLookup ---------------------------
(* Small instances of DeviceLookup for TLC. *)
EXTENDS DeviceLookup, TLC

CONSTANTS t1, t2, t3, i1, i2

ThreeTasks == {t1, t2, t3}
TwoImeis == {i1, i2}
=============================================================================
