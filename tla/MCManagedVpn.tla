---------------------------- MODULE MCManagedVpn ----------------------------
(* Small instances of the VPN manager for TLC.                              *)
EXTENDS ManagedVpn, TLC

CONSTANTS n1, n2

Manual(n, p) == [selection |-> "manual", manualIP |-> n, manualProtocol |-> p]
AutoOnly == {Automatic}
ManualOnly == {Manual(n1, None)}
AutoOrManual == {Automatic, Manual(n1, None)}

OneNode == [n \in Nodes |-> IF n = n1 THEN Protocols ELSE {}]
OtherNode == [n \in Nodes |-> IF n = n2 THEN Protocols ELSE {}]
AllNodes == [n \in Nodes |-> Protocols]

OneNodeStore == {OneNode}
FullStore == {AllNodes}
NoSnapshots == {}
ShrinkingSnapshots == {OneNode, OtherNode}

Symmetry == Permutations(Tasks) \cup Permutations(Sessions)
=============================================================================
