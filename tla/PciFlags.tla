------------------------------ MODULE PciFlags ------------------------------
(***************************************************************************)
(* Collision and confusion of physical cell ids: a cell collides with a    *)
(* handover neighbor that has its PCI, and is confused by two handover     *)
(* neighbors that have the same PCI.  These are the flags that             *)
(* setCollisionConfusionFromFile finds (module PciCheck) and keeps in the  *)
(* CellDetails table (module CellTables).                                  *)
(***************************************************************************)
EXTENDS Naturals, FiniteSets

Flags == [collision : BOOLEAN, confusion : BOOLEAN]

NoFlags == [collision |-> FALSE, confusion |-> FALSE]

\* The flags of a cell with PCI own and the neighbors nbrs, whose PCIs are pciOf.
Conflicts(own, pciOf, nbrs) ==
    [collision |-> \E n \in nbrs : pciOf[n] = own,
     confusion |-> \E m, n \in nbrs : m # n /\ pciOf[m] = pciOf[n]]

HasIssue(f) == f.collision \/ f.confusion

=============================================================================
