---------------------------- MODULE MCSharedBuffer ----------------------------
(* Instances of SharedBuffer for TLC. *)
EXTENDS SharedBuffer, TLC

(* Every update, and updates of one part each. *)
AllRanges == (SUBSET Parts) \ {{}}
OnePart   == {{p} : p \in Parts}

(* Contexts, storages and parts are alike: Spec and the invariants name    *)
(* none of them, and nothing is chosen by an order among them.             *)
Symmetry == Permutations(Contexts) \cup Permutations(Storages) \cup Permutations(Parts)

=============================================================================
