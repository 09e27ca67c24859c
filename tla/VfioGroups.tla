----------------------------- MODULE VfioGroups -----------------------------
(***************************************************************************)
(* How the daemon gets hold of a card and lets go of it: the registry of   *)
(* shared IOMMU groups (vfio.c) and the BAR backend's open, attach, DMA    *)
(* setup, teardown and close (backend_bar.c).  Opens and closes run on the *)
(* main thread only, so each is a function from one state of the registry  *)
(* and the kernel to the next; `fault` names the call of it that fails.    *)
(*                                                                         *)
(* The state is the record s:                                              *)
(*   groups    the registry g_vfio_groups; a slot with refcount 0 is free  *)
(*   held      the kernel: groups whose fd the process holds open          *)
(*   maps      the kernel: DMA mappings, [group, iova, card]               *)
(*   conflict  history: the kernel refused a call because of something the *)
(*             process itself still holds                                  *)
(***************************************************************************)
EXTENDS Integers, FiniteSets, FiniteSetsExt

CONSTANTS Cards,            \* the configured cards, 1..n in config order
          GroupOf,          \* card -> its IOMMU group
          HAS_DMA,          \* cards whose bitstream has the DMA slow path
          PW_VFIO_MAX_GROUPS

IOVA_BASE == 1              \* PW_VFIO_IOVA_BASE, in units of one DMA pool
Slots == 1..PW_VFIO_MAX_GROUPS
NoGroup == -1
FreeSlot == [group_no |-> NoGroup, refcount |-> 0, iova_next |-> 0]

ASSUME GroupsAssumption == /\ Cards \subseteq Nat \ {0} /\ IsFiniteSet(Cards)
                           /\ GroupOf \in [Cards -> Nat]
                           /\ HAS_DMA \subseteq Cards
                           /\ PW_VFIO_MAX_GROUPS \in Nat \ {0}

NothingHeld == [groups |-> [i \in Slots |-> FreeSlot], held |-> {}, maps |-> {},
                conflict |-> FALSE]

\* What can fail: the group fd (not bound, not viable, no container), the
\* device fd, the BAR (region, mmap), the attach (memory, undersized BAR),
\* the IOMMU mapping, and the rest of the DMA setup (BAR1, pool, memory).
Faults == {"none", "group", "device", "region", "attach", "map", "dma"}

vfio_group_find(s, grp) ==
  {i \in Slots : s.groups[i].refcount > 0 /\ s.groups[i].group_no = grp}
vfio_group_free_slot(s) == {i \in Slots : s.groups[i].refcount = 0}
-----------------------------------------------------------------------------
\* pw_vfio_close: the last card out closes the group and its container, and
\* with the container go its mappings.
pw_vfio_close(s, i) ==
  LET g == s.groups[i]
  IN  IF g.refcount = 1
      THEN [s EXCEPT !.groups[i] = FreeSlot, !.held = @ \ {g.group_no},
                     !.maps = {m \in @ : m.group # g.group_no}]
      ELSE [s EXCEPT !.groups[i].refcount = @ - 1]

\* Opening a group and its container into registry slot i.
open_group(s, i, grp) ==
  IF grp \in s.held THEN [s EXCEPT !.conflict = TRUE]       \* EBUSY
  ELSE [s EXCEPT !.groups[i] = [group_no |-> grp, refcount |-> 0, iova_next |-> 0],
                 !.held = @ \union {grp}]

Failed(s) == [s |-> s, slot |-> 0]

\* pw_vfio_open_bar: a failure leaves the registry as it was.
pw_vfio_open_bar(s, c, fault) ==
  LET grp == GroupOf[c]
      found == vfio_group_find(s, grp)
      free == vfio_group_free_slot(s)
      i == IF found # {} THEN Min(found) ELSE Min(free)
      opened == IF found # {} THEN s ELSE open_group(s, i, grp)
  IN  IF found = {} /\ (free = {} \/ fault = "group") THEN Failed(s)
      ELSE IF opened.conflict THEN Failed(opened)
      ELSE IF fault = "device" THEN Failed(s)   \* tears down a group just opened
      ELSE LET taken == [opened EXCEPT !.groups[i].refcount = @ + 1]
           IN  IF fault = "region" THEN Failed(pw_vfio_close(taken, i))
               ELSE [s |-> taken, slot |-> i]

\* pw_vfio_map_dma: a bump allocator per container; a failed map does not
\* move it, an unmap does not move it back.
MutMap(s, i, c, fault) ==   \* a bump allocator per handle
  LET grp == s.groups[i].group_no
      iova == IOVA_BASE
  IN  IF fault = "map" THEN s
      ELSE IF \E m \in s.maps : m.group = grp /\ m.iova = iova
           THEN [s EXCEPT !.conflict = TRUE]
      ELSE [s EXCEPT !.maps = @ \union {[group |-> grp, iova |-> iova, card |-> c]},
                     !.groups[i].iova_next = iova + 1]

pw_vfio_map_dma(s, i, c, fault) ==
  LET grp == s.groups[i].group_no
      iova == IF s.groups[i].iova_next = 0 THEN IOVA_BASE ELSE s.groups[i].iova_next
  IN  IF fault = "map" THEN s
      ELSE IF \E m \in s.maps : m.group = grp /\ m.iova = iova
           THEN [s EXCEPT !.conflict = TRUE]                \* EEXIST
      ELSE [s EXCEPT !.maps = @ \union {[group |-> grp, iova |-> iova, card |-> c]},
                     !.groups[i].iova_next = iova + 1]

Mapped(s, c) == \E m \in s.maps : m.card = c
pw_vfio_unmap_dma(s, c) == [s EXCEPT !.maps = {m \in @ : m.card # c}]

\* dma_setup: BAR1, the pool, its mapping, the state; backs out of what it did.
\* The memory for the state can run out after the pool is mapped.
dma_setup(s, i, c, fault) ==
  LET mapped == pw_vfio_map_dma(s, i, c, fault)
  IN  IF fault = "dma" THEN {s, pw_vfio_unmap_dma(mapped, c)} ELSE {mapped}
-----------------------------------------------------------------------------
\* An open backend: which mapping owns it, its registry slot, its DMA pool.
Closed == [open |-> FALSE, path |-> "none", slot |-> 0, pool |-> FALSE]
Sysfs == [open |-> TRUE, path |-> "sysfs", slot |-> 0, pool |-> FALSE]
Fake == [open |-> TRUE, path |-> "fake", slot |-> 0, pool |-> FALSE]
Vfio(i, pool) == [open |-> TRUE, path |-> "vfio", slot |-> i, pool |-> pool]

MutAttach(s, i, c, fault) ==    \* a failed DMA setup keeps the mapping open
  IF fault = "attach" THEN {[s |-> pw_vfio_close(s, i), b |-> Closed]}
  ELSE IF c \notin HAS_DMA THEN {[s |-> s, b |-> Vfio(i, FALSE)]}
  ELSE {IF Mapped(t, c) THEN [s |-> t, b |-> Vfio(i, TRUE)] ELSE [s |-> t, b |-> Closed]
        : t \in dma_setup(s, i, c, fault)}

\* bar_backend_attach on a vfio mapping: a DMA bitstream whose DMA path does
\* not come up is an error, there is no other slow path.
attach_vfio(s, i, c, fault) ==
  IF fault = "attach" THEN {[s |-> pw_vfio_close(s, i), b |-> Closed]}
  ELSE IF c \notin HAS_DMA THEN {[s |-> s, b |-> Vfio(i, FALSE)]}
  ELSE {IF Mapped(t, c) THEN [s |-> t, b |-> Vfio(i, TRUE)]
        ELSE [s |-> pw_vfio_close(t, i), b |-> Closed] : t \in dma_setup(s, i, c, fault)}

open_vfio(s, c, fault) ==
  LET r == pw_vfio_open_bar(s, c, fault)
  IN  IF r.slot = 0 THEN {[s |-> r.s, b |-> Closed]} ELSE attach_vfio(r.s, r.slot, c, fault)

\* pw_bar_backend_open: PW_BACKEND forces a path; else the sysfs mapping
\* first, and vfio when that is denied or its attach rejected (sysfs = FALSE).
\* A sysfs mapping cannot carry the DMA path.
pw_bar_backend_open(s, c, force, sysfs, fault) ==
  IF force # "vfio" /\ sysfs /\ c \notin HAS_DMA THEN {[s |-> s, b |-> Sysfs]}
  ELSE IF force = "sysfs" THEN {[s |-> s, b |-> Closed]}
  ELSE open_vfio(s, c, fault)

\* bar_close, dma_teardown included: an unmap that fails is not noticed.
bar_close(s, c, b) ==
  IF b.path # "vfio" THEN {s}
  ELSE {pw_vfio_close(t, b.slot) : t \in IF b.pool THEN {s, pw_vfio_unmap_dma(s, c)} ELSE {s}}
=============================================================================
