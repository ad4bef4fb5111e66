--------------------------- MODULE MCRemoteServer ---------------------------
(* Small instances of RemoteServer for TLC. *)
EXTENDS RemoteServer, TLC

MCCodes       == {-1, 0, 1}
MCControl     == {0}
MCLocalCodes  == {1}
MCRemoteCodes == {-1}
MCRemoteOnly  == {-1, 0}
MCNone        == {}
TaskSymmetry  == Permutations(Tasks)
=============================================================================
