------------------------------ MODULE MCSifRpc ------------------------------
(* Three clients for the run of SifRpc: one that is bound to LOADFILE and to *)
(* the CDVD's N commands in turn, one of the N commands, one of FILEIO.      *)
EXTENDS SifRpc, TLC

CONSTANTS c1, c2, c3

ThreeClients == {c1, c2, c3}
ThreeUses == c1 :> {"LOADFILE", "CDVD_NCMD"} @@ c2 :> {"CDVD_NCMD"} @@ c3 :> {"FILEIO"}
=============================================================================
