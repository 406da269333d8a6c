--------------------------- MODULE MCLocalPipeline ---------------------------
(* A small instance of LocalPipeline: two slots, a form of a plugin and one *)
(* created in the session.                                                  *)
EXTENDS LocalPipeline, TLC

CONSTANTS sword, conjured

MCForms == {sword, conjured}
MCDynamic == {conjured}
\* States with a Custom Item stand for those above the size limit.
MCOversize == {state \in States : \E o \in state.objects : o.slot = None}
=============================================================================
