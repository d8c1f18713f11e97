----------------------------- MODULE MCCapability -----------------------------
(* A family for TLC: the idle task 1, its child 2, the child's child 3 and     *)
(* grandchild 4.  2 and 3 run programs.  2 is given a capability that may be   *)
(* shared and duplicated, 3 one that may be neither: it can only be moved.     *)
EXTENDS Capability, TLC

MCParent == (1 :> 0) @@ (2 :> 1) @@ (3 :> 2) @@ (4 :> 3)

Phys(perms, from, to) == [perms |-> perms, kind |-> "MapPhysical", from |-> from, to |-> to]
Other(perms, kind)    == [perms |-> perms, kind |-> kind, from |-> 0, to |-> 0]

MCBootCaps ==
  (1 :> <<>>) @@ (4 :> <<>>) @@
  (2 :> <<Phys({"DUPLICATE", "SHAREABLE"}, 0, 1)>>) @@
  (3 :> <<Other({}, "ProcessSpawn")>>)
===============================================================================
