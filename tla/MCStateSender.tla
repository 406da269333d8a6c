--------------------------- MODULE MCStateSender ---------------------------
(* Small instances of StateSender. *)
EXTENDS StateSender, TLC

CONSTANTS m1, m2, big

MCPayloads == {m1, m2, big}
MCOversize == {big}
=============================================================================
