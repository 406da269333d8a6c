--------------------------- MODULE MCSyncService ----------------------------
(* A small instance of SyncService: one remote player with two characters;  *)
(* the default profile, and one that falls back to UDP because STRPM runs   *)
(* without the bridge that is required.                                     *)
EXTENDS SyncService

CONSTANTS p, ada, bo, bare, sword

MCCharacters == [q \in {p} |-> {ada, bo}]
MCLooks == {bare, sword}
MCHoles == [look \in MCLooks |-> {bare} \ {look}]
MCStr == [networkEnabled |-> TRUE, mode |-> "STR", udpFallback |-> FALSE,
          requireStrBridge |-> TRUE, strpm |-> "bridge", suppress |-> FALSE]
MCFallback == [networkEnabled |-> TRUE, mode |-> "Auto", udpFallback |-> TRUE,
               requireStrBridge |-> TRUE, strpm |-> "other", suppress |-> TRUE]
MCProfiles == {MCStr, MCFallback}
=============================================================================
