-------------------------- MODULE MCRemoteDisplay --------------------------
(* Small instances of RemoteDisplay: contents alternate from one version to *)
(* the next, so that a sender returns to a state it has shown before.       *)
EXTENDS RemoteDisplay, TLC

CONSTANTS Helmet, NoHelmet

MCContents == {Helmet, NoHelmet}
MCContent == [v \in 1..MaxVersion |-> IF v % 2 = 1 THEN NoHelmet ELSE Helmet]
Symmetry == Permutations(Conns) \cup Permutations(Proxies)
=============================================================================
