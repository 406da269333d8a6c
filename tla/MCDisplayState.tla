--------------------------- MODULE MCDisplayState ---------------------------
(* Small instances of DisplayState: two slots; attachment nodes of both kinds *)
(* and one that IED did not name, without an anchor.                          *)
EXTENDS DisplayState, TLC

CONSTANTS Spine, Mov, Hip

Attach(prefix, node, anchor) == [prefix |-> prefix, node |-> node, anchor |-> anchor]

MCHolder == <<Attach("R", Hip, Mov), Attach("P", Spine, None), Attach("other", Hip, None)>>
=============================================================================
