---------------------------- MODULE MCTabletSdk ----------------------------
(* TabletSdk with INSERT statements of up to two VALUES rows and a caller *)
(* making three calls, so a call can follow a failed one with the same    *)
(* status object.                                                          *)
EXTENDS TabletSdk
=============================================================================
