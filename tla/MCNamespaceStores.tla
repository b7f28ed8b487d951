------------------------- MODULE MCNamespaceStores -------------------------
(* Small instances of NamespaceStores. *)
EXTENDS NamespaceStores, TLC

MCOne == {{ns} : ns \in Namespaces}
MCAny == MCOne \cup {Namespaces}

Symmetry == Permutations(Clients) \cup Permutations(Namespaces \ {DefaultNamespace})
=============================================================================
