------------------------------ MODULE MCSkeleton ------------------------------
(* Model values for TLC: three builds of the server.                          *)
EXTENDS Skeleton

=============================================================================
