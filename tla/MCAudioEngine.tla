--------------------------- MODULE MCAudioEngine ----------------------------
(* Three devices: one within the ceiling, one that can be brought under it,  *)
(* one that cannot.                                                          *)
EXTENDS AudioEngine

MCOffered == [builtin |-> {1}, interface |-> {2, 3}, dxd |-> {3}]
MCDevices == DOMAIN MCOffered
=============================================================================
