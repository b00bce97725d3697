----------------------------- MODULE IovaSpace -----------------------------
(***************************************************************************)
(* What the buffer-object half of the driver promises to the engine: the   *)
(* ANE address space is shared out to buffer objects, an address to one    *)
(* buffer object at a time, and a buffer object keeps the addresses it was *)
(* given until it gives all of them back.                                  *)
(*                                                                         *)
(* AneBo implements this specification (drm_mm nodes, DART entries, the    *)
(* iommu_lock and the error paths are not visible here), and AneSubmit     *)
(* relies on it.                                                           *)
(***************************************************************************)
CONSTANTS Bos,      \* buffer objects
          Iovas     \* pages of the device address space

VARIABLE grants     \* grants[b]: the pages b occupies, {} if it has none

Init == grants = [b \in Bos |-> {}]

(* BO_INIT succeeds: b gets unused pages. *)
Grant(b, R) ==
  /\ grants[b] = {}
  /\ R # {}
  /\ \A other \in Bos : grants[other] \cap R = {}
  /\ grants' = [grants EXCEPT ![b] = R]

(* BO_FREE: b gives back all it has. *)
Revoke(b) ==
  /\ grants[b] # {}
  /\ grants' = [grants EXCEPT ![b] = {}]

Next == \E b \in Bos :
          \/ \E R \in SUBSET Iovas : Grant(b, R)
          \/ Revoke(b)

Spec == Init /\ [][Next]_grants
=============================================================================
