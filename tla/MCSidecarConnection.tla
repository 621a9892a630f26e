------------------------ MODULE MCSidecarConnection ------------------------
(* Two sessions in a row on one connection.                                *)
EXTENDS SidecarConnection
=============================================================================
