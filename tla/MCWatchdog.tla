----------------------------- MODULE MCWatchdog -----------------------------
(* Small instances of Watchdog: three items at two places, the first and    *)
(* the last of one form at one attachment in different poses; the pose Tiny *)
(* has a scale below the clamp.                                             *)
EXTENDS Watchdog, TLC

CONSTANTS Waist, Hand, Tiny, Smallest

MCItems == 1..3
MCPlaces == 1..2
MCPlace == <<1, 2, 1>>
MCPoses == {Waist, Hand, Tiny, Smallest, Default}
MCPose == <<Waist, Hand, Tiny>>
MCClamped == [t \in MCPoses |-> IF t = Tiny THEN Smallest ELSE t]
=============================================================================
