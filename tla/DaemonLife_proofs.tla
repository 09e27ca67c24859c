--------------------------- MODULE DaemonLife_proofs ---------------------------
(***************************************************************************)
(* Proofs about one life of packetwyrmd: the registry of shared IOMMU      *)
(* groups stays exact through every open, attach, unmap and close, and     *)
(* what the threads use is released only after they are joined.            *)
(***************************************************************************)
EXTENDS DaemonLife, FiniteSetTheorems, WellFoundedInduction, TLAPS

(* A leaf goes to SMT, then to Zenon, and to Z3 with a fresh translation last. *)
USE SMTT(30), Zenon, Z3T(30)

\* The least element of a set of naturals, where a loop of main is next.
LEMMA MinIs ==
  ASSUME NEW S \in SUBSET Nat, S # {}
  PROVE  Min(S) \in S /\ \A y \in S : Min(S) <= y
<1>1. PICK x \in S : \A y \in S : ~(<<y, x>> \in OpToRel(<, Nat))
  BY Zenon, WFMin, NatLessThanWellFounded
<1>2. ASSUME NEW y \in S PROVE x <= y
  <2>1. OpToRel(<, Nat) = {p \in Nat \X Nat : p[1] < p[2]}
    BY Zenon DEF OpToRel
  <2>2. ~(y < x)
    BY Zenon, <1>1, <2>1
  <2> QED  BY <2>2
<1> QED  BY Zenon, <1>2 DEF Min
-----------------------------------------------------------------------------
(***************************************************************************)
(* The registry.  H is the set of cards that hold a reference and sl their *)
(* slots: a slot counts its holders, a group has one slot, the process     *)
(* holds the groups of its holders, and the bump allocator of a group is   *)
(* beyond every mapping of its container, also those whose card is closed. *)
(***************************************************************************)
IsSlot(g) ==
  /\ g = [group_no |-> g.group_no, refcount |-> g.refcount, iova_next |-> g.iova_next]
  /\ g.iova_next \in Nat
IsOs(s) ==
  /\ s = [groups |-> s.groups, held |-> s.held, maps |-> s.maps, conflict |-> s.conflict]
  /\ s.groups = [i \in Slots |-> s.groups[i]]
Holders(H, sl, i) == {c \in H : sl[c] = i}

Counted(s, H, sl) ==
  \A i \in Slots : IsSlot(s.groups[i]) /\ s.groups[i].refcount = Cardinality(Holders(H, sl, i))
Placed(s, H, sl) ==
  /\ \A c \in H : sl[c] \in Slots /\ s.groups[sl[c]].group_no = GroupOf[c]
  /\ \A c, d \in H : GroupOf[c] = GroupOf[d] => sl[c] = sl[d]
Beyond(s, H, sl) ==
  \A m \in s.maps : /\ m.iova \in Nat /\ m.card \in Cards /\ m.group = GroupOf[m.card]
                    /\ \E c \in H : m.group = GroupOf[c] /\ m.iova < s.groups[sl[c]].iova_next

Registry(s, H, sl) ==
  /\ IsOs(s) /\ ~s.conflict
  /\ Counted(s, H, sl) /\ Placed(s, H, sl) /\ Beyond(s, H, sl)
  /\ s.held = {GroupOf[c] : c \in H}

\* Whoever of H had a mapping has one still.
Keeps(s, t, H) == \A d \in H : Mapped(s, d) => Mapped(t, d)

LEMMA SlotNumbers == Slots \in SUBSET Nat /\ 0 \notin Slots /\ GroupOf \in [Cards -> Nat]
BY GroupsAssumption DEF Slots

LEMMA HoldersFinite ==
  ASSUME NEW H \in SUBSET Cards, NEW sl, NEW i
  PROVE  /\ IsFiniteSet(Holders(H, sl, i)) /\ Cardinality(Holders(H, sl, i)) \in Nat
         /\ Cardinality(Holders(H, sl, i)) = 0 <=> Holders(H, sl, i) = {}
         /\ \A c : Holders(H, sl, i) = {c} => Cardinality(Holders(H, sl, i)) = 1
         /\ \A c \in Holders(H, sl, i) :
              Cardinality(Holders(H, sl, i)) = 1 => Holders(H, sl, i) = {c}
<1> DEFINE T == Holders(H, sl, i)
<1>1. T \in SUBSET Cards
  BY DEF Holders
<1>2. IsFiniteSet(T)
  BY <1>1, FS_Subset, GroupsAssumption
<1>3. Cardinality(T) \in Nat
  BY <1>2, FS_CardinalityType
<1>4. Cardinality(T) = 0 <=> T = {}
  BY <1>2, FS_EmptySet
<1>5. ASSUME NEW c \in T, Cardinality(T) = 1 PROVE T = {c}
  BY <1>2, <1>5, FS_Singleton
<1>6. ASSUME NEW c, T = {c} PROVE Cardinality(T) = 1
  BY <1>6, FS_Singleton
<1> HIDE DEF T
<1>7. /\ IsFiniteSet(T) /\ Cardinality(T) \in Nat
      /\ Cardinality(T) = 0 <=> T = {}
      /\ \A c : T = {c} => Cardinality(T) = 1
      /\ \A c \in T : Cardinality(T) = 1 => T = {c}
  BY <1>2, <1>3, <1>4, <1>5, <1>6
<1> QED  BY <1>7 DEF T

\* What one holder more, or less, does to the counts.
LEMMA OneLess ==
  ASSUME NEW H \in SUBSET Cards, NEW sl, NEW i, NEW c \in H
  PROVE  Cardinality(Holders(H \ {c}, sl, i)) =
           IF sl[c] = i THEN Cardinality(Holders(H, sl, i)) - 1 ELSE Cardinality(Holders(H, sl, i))
<1>1. CASE sl[c] = i
  <2>1. Holders(H \ {c}, sl, i) = Holders(H, sl, i) \ {c} /\ c \in Holders(H, sl, i)
    BY <1>1 DEF Holders
  <2>2. IsFiniteSet(Holders(H, sl, i))
    BY HoldersFinite
  <2>3. Cardinality(Holders(H, sl, i) \ {c}) = Cardinality(Holders(H, sl, i)) - 1
    BY <2>1, <2>2, FS_RemoveElement
  <2> QED  BY <1>1, <2>1, <2>3
<1>2. CASE sl[c] # i
  BY <1>2 DEF Holders
<1> QED  BY <1>1, <1>2

LEMMA OneMore ==
  ASSUME NEW H \in SUBSET Cards, NEW sl, NEW i, NEW c \in Cards \ H
  PROVE  Cardinality(Holders(H \cup {c}, sl, i)) =
           IF sl[c] = i THEN Cardinality(Holders(H, sl, i)) + 1 ELSE Cardinality(Holders(H, sl, i))
<1>1. CASE sl[c] = i
  <2>1. Holders(H \cup {c}, sl, i) = Holders(H, sl, i) \cup {c} /\ c \notin Holders(H, sl, i)
    BY <1>1 DEF Holders
  <2>2. IsFiniteSet(Holders(H, sl, i))
    BY HoldersFinite
  <2>3. Cardinality(Holders(H, sl, i) \cup {c}) = Cardinality(Holders(H, sl, i)) + 1
    BY Zenon, <2>1, <2>2, FS_AddElement
  <2> QED  BY <1>1, <2>1, <2>3
<1>2. CASE sl[c] # i
  BY <1>2 DEF Holders
<1> QED  BY <1>1, <1>2

\* A slot is in use exactly when someone holds it.
LEMMA InUse ==
  ASSUME NEW s, NEW H \in SUBSET Cards, NEW sl, Registry(s, H, sl), NEW i \in Slots
  PROVE  /\ s.groups[i].refcount \in Nat
         /\ s.groups[i].refcount > 0 <=> \E c \in H : sl[c] = i
<1>1. s.groups[i].refcount = Cardinality(Holders(H, sl, i))
  BY DEF Registry, Counted
<1>2. s.groups[i].refcount \in Nat
  BY <1>1, HoldersFinite
<1>3. s.groups[i].refcount > 0 <=> Holders(H, sl, i) # {}
  <2>1. Cardinality(Holders(H, sl, i)) = 0 <=> Holders(H, sl, i) = {}
    BY Zenon, HoldersFinite
  <2> QED  BY <1>1, <1>2, <2>1
<1>4. Holders(H, sl, i) # {} <=> \E c \in H : sl[c] = i
  BY DEF Holders
<1> QED  BY <1>2, <1>3, <1>4

\* Only the slots of the holders matter.
LEMMA SameSlots ==
  ASSUME NEW s, NEW H \in SUBSET Cards, NEW sl, NEW sl2, Registry(s, H, sl),
         \A c \in H : sl2[c] = sl[c]
  PROVE  Registry(s, H, sl2)
<1>1. ASSUME NEW i PROVE Holders(H, sl2, i) = Holders(H, sl, i)
  BY DEF Holders
<1>2. Counted(s, H, sl2)
  BY <1>1 DEF Registry, Counted
<1>3. Placed(s, H, sl2)
  BY DEF Registry, Placed
<1>4. Beyond(s, H, sl2)
  BY DEF Registry, Beyond
<1> QED  BY <1>2, <1>3, <1>4 DEF Registry

\* pw_vfio_close gives one reference back.
LEMMA ClosingShape ==
  ASSUME NEW s, IsOs(s), NEW i \in Slots, IsSlot(s.groups[i])
  PROVE  /\ IsOs(pw_vfio_close(s, i)) /\ pw_vfio_close(s, i).conflict = s.conflict
         /\ \A j \in Slots : j # i => pw_vfio_close(s, i).groups[j] = s.groups[j]
<1>1. CASE s.groups[i].refcount = 1
  BY Zenon, <1>1 DEF pw_vfio_close, IsOs, IsSlot
<1>2. CASE s.groups[i].refcount # 1
  BY <1>2 DEF pw_vfio_close, IsOs, IsSlot
<1> QED  BY <1>1, <1>2

LEMMA LastOut ==
  ASSUME NEW s, IsOs(s), NEW i \in Slots, s.groups[i].refcount = 1
  PROVE  /\ pw_vfio_close(s, i).groups[i] = FreeSlot
         /\ pw_vfio_close(s, i).held = s.held \ {s.groups[i].group_no}
         /\ pw_vfio_close(s, i).maps = {m \in s.maps : m.group # s.groups[i].group_no}
BY DEF pw_vfio_close, IsOs

LEMMA NotLastOut ==
  ASSUME NEW s, IsOs(s), NEW i \in Slots, IsSlot(s.groups[i]), s.groups[i].refcount # 1
  PROVE  /\ pw_vfio_close(s, i).groups[i] =
              [group_no |-> s.groups[i].group_no, refcount |-> s.groups[i].refcount - 1,
               iova_next |-> s.groups[i].iova_next]
         /\ pw_vfio_close(s, i).held = s.held /\ pw_vfio_close(s, i).maps = s.maps
BY DEF pw_vfio_close, IsOs, IsSlot

LEMMA Closing ==
  ASSUME NEW s, NEW H \in SUBSET Cards, NEW sl, Registry(s, H, sl), NEW c \in H
  PROVE  /\ Registry(pw_vfio_close(s, sl[c]), H \ {c}, sl)
         /\ Keeps(s, pw_vfio_close(s, sl[c]), H \ {c})
<1> DEFINE i == sl[c]
           t == pw_vfio_close(s, i)
           n == s.groups[i].refcount
           G == H \ {c}
<1>1. i \in Slots /\ s.groups[i].group_no = GroupOf[c]
  BY DEF Registry, Placed
<1>2. IsOs(s) /\ IsSlot(s.groups[i]) /\ ~s.conflict
  BY <1>1 DEF Registry, Counted
<1>0. t = pw_vfio_close(s, i) /\ n = s.groups[i].refcount
  OBVIOUS
<1> HIDE DEF t, n, i
<1>3. /\ IsOs(t) /\ ~t.conflict
      /\ \A j \in Slots : j # i => t.groups[j] = s.groups[j]
  BY <1>0, <1>1, <1>2, ClosingShape
<1>4. n = 1 => /\ t.groups[i] = FreeSlot /\ t.held = s.held \ {GroupOf[c]}
               /\ t.maps = {m \in s.maps : m.group # GroupOf[c]}
  <2> SUFFICES ASSUME n = 1
               PROVE  /\ t.groups[i] = FreeSlot /\ t.held = s.held \ {GroupOf[c]}
                      /\ t.maps = {m \in s.maps : m.group # GroupOf[c]}
    OBVIOUS
  <2>1. s.groups[i].refcount = 1
    BY <1>0
  <2>2. /\ t.groups[i] = FreeSlot /\ t.held = s.held \ {s.groups[i].group_no}
        /\ t.maps = {m \in s.maps : m.group # s.groups[i].group_no}
    <3>1. /\ pw_vfio_close(s, i).groups[i] = FreeSlot
          /\ pw_vfio_close(s, i).held = s.held \ {s.groups[i].group_no}
          /\ pw_vfio_close(s, i).maps = {m \in s.maps : m.group # s.groups[i].group_no}
      BY <1>1, <1>2, <2>1, LastOut
    <3> QED  BY <3>1 DEF t
  <2> QED  BY <1>1, <2>2, Zenon
<1>5. n # 1 => /\ t.groups[i] = [group_no |-> GroupOf[c], refcount |-> n - 1,
                                 iova_next |-> s.groups[i].iova_next]
               /\ t.held = s.held /\ t.maps = s.maps
  BY <1>0, <1>1, <1>2, NotLastOut
<1>6. /\ n \in Nat /\ n > 0
      /\ n = 1 => \A d \in H : sl[d] = i => d = c
  <2>1. sl[c] = i
    BY DEF i
  <2>2. n \in Nat
    BY <1>0, <1>1, InUse
  <2>3. n > 0
    BY <1>0, <1>1, <2>1, InUse
  <2>4. ASSUME n = 1, NEW d \in H, sl[d] = i PROVE d = c
    <3>1. Cardinality(Holders(H, sl, i)) = 1
      BY Zenon, <1>0, <1>1, <2>4 DEF Registry, Counted
    <3>2. c \in Holders(H, sl, i) /\ d \in Holders(H, sl, i)
      BY <2>1, <2>4 DEF Holders
    <3>3. Holders(H, sl, i) = {c}
      BY <3>1, <3>2, HoldersFinite
    <3> QED  BY <3>2, <3>3
  <2> QED  BY <2>2, <2>3, <2>4
<1>7. \A d \in G : sl[d] \in Slots /\ s.groups[sl[d]].group_no = GroupOf[d]
  BY DEF Registry, Placed
<1>8. \A d, e \in H : GroupOf[d] = GroupOf[e] => sl[d] = sl[e]
  BY DEF Registry, Placed
<1>9. n # 1 => \E d \in G : sl[d] = i
  <2>1. SUFFICES ASSUME ~\E d \in G : sl[d] = i PROVE n = 1
    OBVIOUS
  <2>2. Holders(H, sl, i) = {c}
    BY <2>1 DEF Holders, i
  <2>3. n = Cardinality(Holders(H, sl, i))
    BY <1>0, <1>1 DEF Registry, Counted
  <2> QED  BY Zenon, <2>2, <2>3, HoldersFinite
<1>10. Counted(t, G, sl)
  <2> SUFFICES ASSUME NEW j \in Slots
               PROVE  IsSlot(t.groups[j]) /\ t.groups[j].refcount = Cardinality(Holders(G, sl, j))
    BY DEF Counted
  <2>1. s.groups[j].refcount = Cardinality(Holders(H, sl, j)) /\ IsSlot(s.groups[j])
    BY DEF Registry, Counted
  <2>2. CASE j # i
    <3>1. Cardinality(Holders(G, sl, j)) = Cardinality(Holders(H, sl, j))
      BY <2>2, OneLess DEF i
    <3> QED  BY <1>3, <2>1, <2>2, <3>1
  <2>3. CASE j = i
    <3>1. Cardinality(Holders(G, sl, j)) = n - 1
      BY <2>1, <2>3, OneLess DEF i, n
    <3>2. CASE n = 1
      BY <1>4, <2>3, <3>1, <3>2 DEF FreeSlot, IsSlot
    <3>3. CASE n # 1
      <4>1. s.groups[i].iova_next \in Nat
        BY <2>1, <2>3 DEF IsSlot
      <4> QED  BY <1>5, <2>3, <3>1, <3>3, <4>1 DEF IsSlot
    <3> QED  BY <3>2, <3>3
  <2> QED  BY <2>2, <2>3
<1>11. \A d \in G : t.groups[sl[d]].group_no = s.groups[sl[d]].group_no
                    /\ t.groups[sl[d]].iova_next = s.groups[sl[d]].iova_next
  <2> SUFFICES ASSUME NEW d \in G
               PROVE  t.groups[sl[d]].group_no = s.groups[sl[d]].group_no
                      /\ t.groups[sl[d]].iova_next = s.groups[sl[d]].iova_next
    OBVIOUS
  <2>1. CASE sl[d] # i
    BY <1>3, <1>7, <2>1
  <2>2. CASE sl[d] = i
    BY <1>1, <1>5, <1>6, <2>2
  <2> QED  BY <2>1, <2>2
<1>12. Placed(t, G, sl)
  BY <1>7, <1>8, <1>11 DEF Placed
<1>13. t.held = {GroupOf[d] : d \in G}
  <2>1. s.held = {GroupOf[d] : d \in H}
    BY DEF Registry
  <2>2. CASE n = 1
    <3>1. \A d \in G : GroupOf[d] # GroupOf[c]
      BY <1>6, <1>8, <2>2 DEF i
    <3> QED  BY <1>4, <2>1, <2>2, <3>1
  <2>3. CASE n # 1
    <3>1. PICK d \in G : sl[d] = i
      BY <1>9, <2>3
    <3>2. GroupOf[d] = GroupOf[c]
      BY <1>1, <1>7, <3>1
    <3> QED  BY <1>5, <2>1, <2>3, <3>2
  <2> QED  BY <2>2, <2>3
<1>14. Beyond(t, G, sl)
  <2> SUFFICES ASSUME NEW m \in t.maps
               PROVE  /\ m.iova \in Nat /\ m.card \in Cards /\ m.group = GroupOf[m.card]
                      /\ \E d \in G : m.group = GroupOf[d] /\ m.iova < t.groups[sl[d]].iova_next
    BY DEF Beyond
  <2>1. m \in s.maps /\ (n = 1 => m.group # GroupOf[c])
    BY <1>4, <1>5
  <2>2. /\ m.iova \in Nat /\ m.card \in Cards /\ m.group = GroupOf[m.card]
        /\ \E d \in H : m.group = GroupOf[d] /\ m.iova < s.groups[sl[d]].iova_next
    BY <2>1 DEF Registry, Beyond
  <2>3. PICK d \in H : m.group = GroupOf[d] /\ m.iova < s.groups[sl[d]].iova_next
    BY Zenon, <2>2
  <2>4. CASE d # c
    BY <1>11, <2>2, <2>3, <2>4
  <2>5. CASE d = c
    <3>1. PICK e \in G : sl[e] = i
      BY <1>9, <2>1, <2>3, <2>5
    <3>2. GroupOf[e] = GroupOf[d] /\ sl[e] = sl[d]
      BY <1>1, <1>7, <2>5, <3>1 DEF i
    <3> QED  BY <1>11, <2>2, <2>3, <3>2
  <2> QED  BY <2>4, <2>5
<1>15. Keeps(s, t, G)
  <2> SUFFICES ASSUME NEW d \in G, NEW m \in s.maps, m.card = d PROVE m \in t.maps
    BY DEF Keeps, Mapped
  <2>1. m.group = GroupOf[d]
    BY DEF Registry, Beyond
  <2>2. n = 1 => GroupOf[d] # GroupOf[c]
    BY <1>6, <1>8 DEF i
  <2> QED  BY <1>4, <1>5, <2>1, <2>2
<1>16. Registry(t, G, sl)
  BY <1>3, <1>10, <1>12, <1>13, <1>14 DEF Registry
<1> QED  BY <1>15, <1>16 DEF t, i

\* An unmap takes nothing from another card.
LEMMA Unmapping ==
  ASSUME NEW s, NEW H, NEW sl, Registry(s, H, sl), NEW c
  PROVE  /\ Registry(pw_vfio_unmap_dma(s, c), H, sl)
         /\ Keeps(s, pw_vfio_unmap_dma(s, c), H \ {c})
<1> DEFINE t == pw_vfio_unmap_dma(s, c)
<1>1. IsOs(s)
  BY DEF Registry
<1>2. /\ IsOs(t) /\ t.groups = s.groups /\ t.held = s.held /\ t.conflict = s.conflict
      /\ t.maps = {m \in s.maps : m.card # c}
  <2>1. t = [groups |-> s.groups, held |-> s.held, conflict |-> s.conflict,
             maps |-> {m \in s.maps : m.card # c}]
    BY <1>1 DEF pw_vfio_unmap_dma, IsOs
  <2> HIDE DEF t
  <2>2. /\ t.groups = s.groups /\ t.held = s.held /\ t.conflict = s.conflict
        /\ t.maps = {m \in s.maps : m.card # c}
    BY <2>1
  <2> QED  BY <1>1, <2>1, <2>2 DEF IsOs
<1> HIDE DEF t
<1>3. Counted(t, H, sl) /\ Placed(t, H, sl)
  BY <1>2 DEF Registry, Counted, Placed
<1>4. Beyond(t, H, sl)
  BY <1>2 DEF Registry, Beyond
<1>5. Keeps(s, t, H \ {c})
  BY <1>2 DEF Keeps, Mapped
<1>6. Registry(t, H, sl)
  BY <1>2, <1>3, <1>4 DEF Registry
<1> QED  BY <1>5, <1>6 DEF t

\* A slot whose next address is past n.
Advanced(g, n) == [group_no |-> g.group_no, refcount |-> g.refcount, iova_next |-> n + 1]

LEMMA SlotAdvanced ==
  ASSUME NEW g, IsSlot(g), NEW n \in Nat, g.iova_next <= n
  PROVE  /\ IsSlot(Advanced(g, n))
         /\ Advanced(g, n).refcount = g.refcount /\ Advanced(g, n).group_no = g.group_no
         /\ Advanced(g, n).iova_next \in Nat /\ g.iova_next \in Nat
         /\ g.iova_next <= Advanced(g, n).iova_next
<1>1. /\ Advanced(g, n).refcount = g.refcount /\ Advanced(g, n).group_no = g.group_no
      /\ Advanced(g, n).iova_next = n + 1
  BY DEF Advanced
<1>2. g.iova_next \in Nat /\ n + 1 \in Nat /\ g.iova_next <= n + 1
  BY DEF IsSlot
<1>3. IsSlot(Advanced(g, n))
  BY Zenon, <1>1, <1>2 DEF IsSlot, Advanced
<1> QED  BY Zenon, <1>1, <1>2, <1>3

\* pw_vfio_map_dma: the address after every mapping of the container is free.
LEMMA Mapping ==
  ASSUME NEW s, NEW H \in SUBSET Cards, NEW sl, Registry(s, H, sl), NEW c \in H, NEW fault
  PROVE  /\ Registry(pw_vfio_map_dma(s, sl[c], c, fault), H, sl)
         /\ Keeps(s, pw_vfio_map_dma(s, sl[c], c, fault), H)
<1> DEFINE i == sl[c]
           g == s.groups[i]
           iova == IF g.iova_next = 0 THEN IOVA_BASE ELSE g.iova_next
           e == [group |-> GroupOf[c], iova |-> iova, card |-> c]
           t == [s EXCEPT !.maps = @ \union {e}, !.groups[i].iova_next = iova + 1]
<1>1. i \in Slots /\ g.group_no = GroupOf[c]
  BY DEF Registry, Placed
<1>2. IsOs(s) /\ IsSlot(g) /\ ~s.conflict
  BY <1>1 DEF Registry, Counted
<1>3. iova \in Nat /\ g.iova_next \in Nat /\ g.iova_next <= iova
  BY <1>2 DEF IsSlot, IOVA_BASE
<1>4. ASSUME NEW m \in s.maps, m.group = GroupOf[c] PROVE m.iova < g.iova_next
  <2>1. PICK d \in H : m.group = GroupOf[d] /\ m.iova < s.groups[sl[d]].iova_next
    BY DEF Registry, Beyond
  <2>2. sl[d] = sl[c]
    BY Zenon, <1>4, <2>1 DEF Registry, Placed
  <2> QED  BY <2>1, <2>2
<1>5. ~\E m \in s.maps : m.group = GroupOf[c] /\ m.iova = iova
  <2> SUFFICES ASSUME NEW m \in s.maps, m.group = GroupOf[c], m.iova = iova PROVE FALSE
    OBVIOUS
  <2>1. m.iova < g.iova_next
    BY <1>4
  <2> QED  BY <1>3, <2>1
<1>6. pw_vfio_map_dma(s, i, c, fault) = IF fault = "map" THEN s ELSE t
  BY <1>1, <1>5 DEF pw_vfio_map_dma
<1>7. /\ IsOs(t) /\ ~t.conflict /\ t.held = s.held /\ t.maps = s.maps \cup {e}
      /\ \A j \in Slots : j # i => t.groups[j] = s.groups[j]
      /\ t.groups[i] = [group_no |-> g.group_no, refcount |-> g.refcount, iova_next |-> iova + 1]
  <2> DEFINE h == [group_no |-> g.group_no, refcount |-> g.refcount, iova_next |-> iova + 1]
             gs == [s.groups EXCEPT ![i] = h]
  <2>1. [g EXCEPT !.iova_next = iova + 1] = h
    BY <1>2 DEF IsSlot
  <2> HIDE DEF e, iova
  <2>2. t = [groups |-> gs, held |-> s.held, maps |-> s.maps \cup {e}, conflict |-> s.conflict]
    <3>1. t = [s EXCEPT !.maps = s.maps \cup {e}, !.groups = gs]
      BY Zenon, <1>1, <1>2, <2>1 DEF IsOs
    <3> HIDE DEF gs, t
    <3> QED  BY Zenon, <1>2, <3>1 DEF IsOs
  <2>3. /\ gs = [j \in Slots |-> gs[j]] /\ gs[i] = h
        /\ \A j \in Slots : j # i => gs[j] = s.groups[j]
    BY <1>1, <1>2 DEF IsOs
  <2> HIDE DEF t, h, gs, e
  <2>4. t.groups = gs /\ t.held = s.held /\ t.maps = s.maps \cup {e} /\ t.conflict = s.conflict
    BY <2>2
  <2>5. IsOs(t)
    BY <2>2, <2>3, <2>4 DEF IsOs
  <2> QED  BY <1>2, <2>3, <2>4, <2>5 DEF h
<1>8. e.iova = iova /\ e.card = c /\ e.group = GroupOf[c]
  OBVIOUS
<1> HIDE DEF t, iova, e
<1>9. /\ \A j \in Slots : IsSlot(t.groups[j]) /\ t.groups[j].refcount = s.groups[j].refcount
                          /\ t.groups[j].group_no = s.groups[j].group_no
                          /\ t.groups[j].iova_next \in Nat /\ s.groups[j].iova_next \in Nat
                          /\ s.groups[j].iova_next <= t.groups[j].iova_next
  <2> SUFFICES ASSUME NEW j \in Slots
               PROVE  IsSlot(t.groups[j]) /\ t.groups[j].refcount = s.groups[j].refcount
                          /\ t.groups[j].group_no = s.groups[j].group_no
                          /\ t.groups[j].iova_next \in Nat /\ s.groups[j].iova_next \in Nat
                          /\ s.groups[j].iova_next <= t.groups[j].iova_next
    OBVIOUS
  <2>1. IsSlot(s.groups[j])
    BY DEF Registry, Counted
  <2>2. CASE j = i
    <3>1. s.groups[j] = g /\ t.groups[j] = Advanced(g, iova)
      BY Zenon, <1>7, <2>2 DEF Advanced
    <3> HIDE DEF g
    <3>2. IsSlot(g)
      BY Zenon, <2>1, <3>1
    <3>3. /\ IsSlot(Advanced(g, iova))
          /\ Advanced(g, iova).refcount = g.refcount /\ Advanced(g, iova).group_no = g.group_no
          /\ Advanced(g, iova).iova_next \in Nat /\ g.iova_next \in Nat
          /\ g.iova_next <= Advanced(g, iova).iova_next
      BY <1>3, <3>2, SlotAdvanced
    <3> QED  BY Zenon, <3>1, <3>3
  <2>3. CASE j # i
    BY <1>7, <2>1, <2>3 DEF IsSlot
  <2> QED  BY <2>2, <2>3
<1>10. Counted(t, H, sl)
  BY <1>9 DEF Registry, Counted
<1>11. Placed(t, H, sl)
  BY <1>9 DEF Registry, Placed
<1>12. Beyond(t, H, sl)
  <2> SUFFICES ASSUME NEW m \in t.maps
               PROVE  /\ m.iova \in Nat /\ m.card \in Cards /\ m.group = GroupOf[m.card]
                      /\ \E d \in H : m.group = GroupOf[d] /\ m.iova < t.groups[sl[d]].iova_next
    BY DEF Beyond
  <2>1. CASE m = e
    <3>1. t.groups[sl[c]].iova_next = iova + 1
      BY <1>7
    <3> QED  BY <1>3, <1>8, <2>1, <3>1
  <2>2. CASE m \in s.maps
    <3>1. m.iova \in Nat /\ m.card \in Cards /\ m.group = GroupOf[m.card]
      BY <2>2 DEF Registry, Beyond
    <3>2. PICK d \in H : m.group = GroupOf[d] /\ m.iova < s.groups[sl[d]].iova_next
      BY <2>2 DEF Registry, Beyond
    <3>3. sl[d] \in Slots
      BY DEF Registry, Placed
    <3>4. m.iova < t.groups[sl[d]].iova_next
      BY <1>9, <3>1, <3>2, <3>3
    <3> QED  BY <3>1, <3>2, <3>4
  <2> QED  BY <1>7, <2>1, <2>2
<1>13. Registry(t, H, sl)
  BY <1>7, <1>10, <1>11, <1>12 DEF Registry
<1>14. Keeps(s, t, H) /\ Keeps(s, s, H)
  BY <1>7 DEF Keeps, Mapped
<1> QED  BY <1>6, <1>13, <1>14

\* One reference more on slot i, where u is the registry once the group is open.
GroupOpen(s, H, sl, c, i, u) ==
  /\ i \in Slots /\ IsOs(u) /\ ~u.conflict /\ u.maps = s.maps
  /\ u.held = s.held \cup {GroupOf[c]}
  /\ \A j \in Slots : j # i => u.groups[j] = s.groups[j]
  /\ IsSlot(u.groups[i]) /\ u.groups[i].group_no = GroupOf[c]
  /\ u.groups[i].refcount = s.groups[i].refcount
  /\ \A d \in H : sl[d] = i => u.groups[i].iova_next = s.groups[i].iova_next
  /\ \A d \in H : GroupOf[d] = GroupOf[c] <=> sl[d] = i
Took(u, i) == [u EXCEPT !.groups[i].refcount = @ + 1]

LEMMA Taking ==
  ASSUME NEW s, NEW H \in SUBSET Cards, NEW sl, Registry(s, H, sl), sl = [d \in Cards |-> sl[d]],
         NEW c \in Cards \ H, NEW i, NEW u, GroupOpen(s, H, sl, c, i, u)
  PROVE  Registry(Took(u, i), H \cup {c}, [sl EXCEPT ![c] = i]) /\ Took(u, i).maps = s.maps
<1>0. /\ i \in Slots /\ IsOs(u) /\ ~u.conflict /\ u.maps = s.maps
      /\ u.held = s.held \cup {GroupOf[c]}
      /\ \A j \in Slots : j # i => u.groups[j] = s.groups[j]
      /\ IsSlot(u.groups[i]) /\ u.groups[i].group_no = GroupOf[c]
      /\ u.groups[i].refcount = s.groups[i].refcount
      /\ \A d \in H : sl[d] = i => u.groups[i].iova_next = s.groups[i].iova_next
      /\ \A d \in H : GroupOf[d] = GroupOf[c] <=> sl[d] = i
  BY Zenon DEF GroupOpen
<1> DEFINE t == [u EXCEPT !.groups[i].refcount = @ + 1]
           g == u.groups[i]
           h == [group_no |-> g.group_no, refcount |-> g.refcount + 1, iova_next |-> g.iova_next]
           gs == [u.groups EXCEPT ![i] = h]
           k == [sl EXCEPT ![c] = i]
           K == H \cup {c}
<1>1. /\ t.groups = gs /\ t.held = u.held /\ t.maps = s.maps /\ ~t.conflict /\ IsOs(t)
  <2>1. [g EXCEPT !.refcount = g.refcount + 1] = h
    BY <1>0 DEF IsSlot
  <2>2. t = [u EXCEPT !.groups = gs]
    BY <1>0, <2>1 DEF IsOs
  <2>3. gs = [j \in Slots |-> gs[j]]
    BY <1>0 DEF IsOs
  <2> HIDE DEF t, gs
  <2>4. t = [groups |-> gs, held |-> u.held, maps |-> u.maps, conflict |-> u.conflict]
    BY Zenon, <1>0, <2>2 DEF IsOs
  <2>5. t.groups = gs /\ t.held = u.held /\ t.maps = u.maps /\ t.conflict = u.conflict
    BY <2>4
  <2> QED  BY <1>0, <2>3, <2>4, <2>5 DEF IsOs
<1>2. /\ gs[i] = h /\ h.group_no = GroupOf[c] /\ h.refcount = s.groups[i].refcount + 1
      /\ h.iova_next = g.iova_next /\ h.iova_next \in Nat
  BY <1>0 DEF IsOs, IsSlot
<1>3. \A j \in Slots : j # i => gs[j] = s.groups[j]
  BY <1>0 DEF IsOs
<1>4. /\ \A d \in H : k[d] = sl[d]
      /\ k[c] = i
  OBVIOUS
<1>5. \A d \in H : sl[d] \in Slots /\ s.groups[sl[d]].group_no = GroupOf[d]
  BY DEF Registry, Placed
<1>6. \A d, e \in H : GroupOf[d] = GroupOf[e] => sl[d] = sl[e]
  BY DEF Registry, Placed
<1>7. IsSlot(h)
  BY <1>2 DEF IsSlot
<1> HIDE DEF t, gs, h, k
<1>8. Counted(t, K, k)
  <2> SUFFICES ASSUME NEW j \in Slots
               PROVE  IsSlot(gs[j]) /\ gs[j].refcount = Cardinality(Holders(K, k, j))
    BY <1>1 DEF Counted
  <2>1. s.groups[j].refcount = Cardinality(Holders(H, sl, j)) /\ IsSlot(s.groups[j])
    BY DEF Registry, Counted
  <2>2. Holders(H, k, j) = Holders(H, sl, j)
    BY <1>4 DEF Holders
  <2>3. Cardinality(Holders(K, k, j)) =
          IF k[c] = j THEN Cardinality(Holders(H, k, j)) + 1 ELSE Cardinality(Holders(H, k, j))
    BY OneMore
  <2>4. CASE j = i
    BY <1>0, <1>2, <1>4, <1>7, <2>1, <2>2, <2>3, <2>4
  <2>5. CASE j # i
    BY <1>3, <1>4, <2>1, <2>2, <2>3, <2>5
  <2> QED  BY <2>4, <2>5
<1>9. \A d \in H : gs[sl[d]].group_no = GroupOf[d] /\ gs[sl[d]].iova_next = s.groups[sl[d]].iova_next
  <2> SUFFICES ASSUME NEW d \in H
               PROVE  gs[sl[d]].group_no = GroupOf[d] /\ gs[sl[d]].iova_next = s.groups[sl[d]].iova_next
    OBVIOUS
  <2>1. CASE sl[d] = i
    BY <1>0, <1>2, <2>1
  <2>2. CASE sl[d] # i
    BY <1>3, <1>5, <2>2
  <2> QED  BY <2>1, <2>2
<1>10. Placed(t, K, k)
  <2>1. \A d \in K : k[d] \in Slots /\ t.groups[k[d]].group_no = GroupOf[d]
    BY <1>0, <1>1, <1>2, <1>4, <1>5, <1>9
  <2>2. ASSUME NEW d \in K, NEW e \in K, GroupOf[d] = GroupOf[e] PROVE k[d] = k[e]
    <3>1. CASE d = c
      BY <1>0, <1>4, <2>2, <3>1
    <3>2. CASE e = c
      BY <1>0, <1>4, <2>2, <3>2
    <3>3. CASE d \in H /\ e \in H
      BY <1>4, <1>6, <2>2, <3>3
    <3> QED  BY <2>2, <3>1, <3>2, <3>3
  <2> QED  BY <2>1, <2>2 DEF Placed
<1>11. Beyond(t, K, k)
  <2> SUFFICES ASSUME NEW m \in s.maps
               PROVE  /\ m.iova \in Nat /\ m.card \in Cards /\ m.group = GroupOf[m.card]
                      /\ \E d \in K : m.group = GroupOf[d] /\ m.iova < gs[k[d]].iova_next
    BY <1>1 DEF Beyond
  <2>1. m.iova \in Nat /\ m.card \in Cards /\ m.group = GroupOf[m.card]
    BY DEF Registry, Beyond
  <2>2. PICK d \in H : m.group = GroupOf[d] /\ m.iova < s.groups[sl[d]].iova_next
    BY DEF Registry, Beyond
  <2>3. m.iova < gs[k[d]].iova_next
    BY <1>4, <1>9, <2>2
  <2> QED  BY <2>1, <2>2, <2>3
<1>12. t.held = {GroupOf[d] : d \in K}
  <2>1. s.held = {GroupOf[d] : d \in H}
    BY DEF Registry
  <2> QED  BY <1>0, <1>1, <2>1
<1>13. Registry(t, K, k)
  BY <1>1, <1>8, <1>10, <1>11, <1>12 DEF Registry
<1> QED  BY <1>1, <1>13 DEF t, k, Took

\* A group that is not open yet: no holder has it, so the kernel lets it go.
LEMMA OpeningGroup ==
  ASSUME NEW s, NEW H \in SUBSET Cards, NEW sl, Registry(s, H, sl), NEW c \in Cards,
         vfio_group_find(s, GroupOf[c]) = {}, NEW i \in vfio_group_free_slot(s)
  PROVE  GroupOpen(s, H, sl, c, i, open_group(s, i, GroupOf[c]))
<1> DEFINE h == [group_no |-> GroupOf[c], refcount |-> 0, iova_next |-> 0]
           gs == [s.groups EXCEPT ![i] = h]
           u == open_group(s, i, GroupOf[c])
<1>1. i \in Slots /\ s.groups[i].refcount = 0 /\ IsOs(s) /\ ~s.conflict
  BY DEF vfio_group_free_slot, Registry
<1>2. ASSUME NEW d \in H PROVE sl[d] # i /\ GroupOf[d] # GroupOf[c]
  <2>1. sl[d] \in Slots /\ s.groups[sl[d]].group_no = GroupOf[d]
    BY DEF Registry, Placed
  <2>2. s.groups[sl[d]].refcount > 0
    BY Zenon, <2>1, InUse
  <2>3. sl[d] # i
    BY <1>1, <2>2
  <2>4. sl[d] \notin vfio_group_find(s, GroupOf[c])
    OBVIOUS
  <2> QED  BY <2>1, <2>2, <2>3, <2>4 DEF vfio_group_find
<1>3. GroupOf[c] \notin s.held
  BY <1>2 DEF Registry
<1>4. u = [s EXCEPT !.groups = gs, !.held = s.held \cup {GroupOf[c]}]
  BY <1>1, <1>3 DEF open_group, IsOs
<1>5. /\ gs = [j \in Slots |-> gs[j]] /\ gs[i] = h
      /\ \A j \in Slots : j # i => gs[j] = s.groups[j]
  BY <1>1 DEF IsOs
<1>6. IsSlot(h) /\ h.group_no = GroupOf[c] /\ h.refcount = 0
  BY DEF IsSlot
<1> HIDE DEF u, gs, h
<1>7. u = [groups |-> gs, held |-> s.held \cup {GroupOf[c]}, maps |-> s.maps, conflict |-> s.conflict]
  BY Zenon, <1>1, <1>4 DEF IsOs
<1>8. /\ u.groups = gs /\ u.held = s.held \cup {GroupOf[c]} /\ u.maps = s.maps
      /\ u.conflict = s.conflict
  BY <1>7
<1>9. IsOs(u)
  BY <1>5, <1>7, <1>8 DEF IsOs
<1>10. /\ IsOs(u) /\ ~u.conflict /\ u.maps = s.maps /\ u.held = s.held \cup {GroupOf[c]}
       /\ \A j \in Slots : j # i => u.groups[j] = s.groups[j]
       /\ IsSlot(u.groups[i]) /\ u.groups[i].group_no = GroupOf[c]
       /\ u.groups[i].refcount = s.groups[i].refcount
       /\ \A d \in H : sl[d] # i /\ GroupOf[d] # GroupOf[c]
  BY <1>1, <1>2, <1>5, <1>6, <1>8, <1>9
<1> QED  BY <1>1, <1>10 DEF u, GroupOpen

\* A group that is open: its slot is the one of every holder of the group.
LEMMA FoundGroup ==
  ASSUME NEW s, NEW H \in SUBSET Cards, NEW sl, Registry(s, H, sl), NEW c \in Cards,
         NEW i \in vfio_group_find(s, GroupOf[c])
  PROVE  GroupOpen(s, H, sl, c, i, s)
<1>1. i \in Slots /\ s.groups[i].group_no = GroupOf[c] /\ s.groups[i].refcount > 0
  BY DEF vfio_group_find
<1>2. PICK e \in H : sl[e] = i
  BY <1>1, InUse
<1>3. \A d \in H : sl[d] \in Slots /\ s.groups[sl[d]].group_no = GroupOf[d]
  BY DEF Registry, Placed
<1>4. \A d \in H : GroupOf[d] = GroupOf[e] => sl[d] = sl[e]
  BY DEF Registry, Placed
<1>5. GroupOf[e] = GroupOf[c]
  BY <1>1, <1>2, <1>3
<1>6. \A d \in H : GroupOf[d] = GroupOf[c] <=> sl[d] = i
  BY <1>1, <1>2, <1>3, <1>4, <1>5
<1>7. s.held = {GroupOf[d] : d \in H}
  BY DEF Registry
<1>8. IsOs(s) /\ ~s.conflict /\ IsSlot(s.groups[i])
  BY <1>1 DEF Registry, Counted
<1>9. s.held = s.held \cup {GroupOf[c]}
  BY <1>5, <1>7
<1> QED  BY <1>1, <1>6, <1>8, <1>9 DEF GroupOpen

\* pw_vfio_open_bar: one holder more, or the registry as it was.
LEMMA OpeningBar ==
  ASSUME NEW s, NEW H \in SUBSET Cards, NEW sl, Registry(s, H, sl), sl = [d \in Cards |-> sl[d]],
         NEW c \in Cards \ H, NEW fault, NEW r, r = pw_vfio_open_bar(s, c, fault)
  PROVE  \/ r.slot = 0 /\ Registry(r.s, H, sl) /\ Keeps(s, r.s, H)
         \/ /\ r.slot \in Slots /\ Registry(r.s, H \cup {c}, [sl EXCEPT ![c] = r.slot])
            /\ Keeps(s, r.s, H)
<1> DEFINE grp == GroupOf[c]
           found == vfio_group_find(s, grp)
           free == vfio_group_free_slot(s)
           i == IF found # {} THEN Min(found) ELSE Min(free)
           opened == IF found # {} THEN s ELSE open_group(s, i, grp)
           taken == Took(opened, i)
           k == [sl EXCEPT ![c] = i]
           K == H \cup {c}
<1>1. found \in SUBSET Nat /\ free \in SUBSET Nat
  BY SlotNumbers DEF vfio_group_find, vfio_group_free_slot
<1>2. Keeps(s, s, H) /\ 0 \notin Slots
  BY SlotNumbers DEF Keeps
<1>3. CASE found = {} /\ (free = {} \/ fault = "group")
  <2>1. r = Failed(s)
    BY <1>3 DEF pw_vfio_open_bar
  <2> QED  BY <1>2, <2>1 DEF Failed
<1>4. CASE ~(found = {} /\ (free = {} \/ fault = "group"))
  <2>1. i \in Slots
    <3>1. CASE found # {}
      BY <1>1, <3>1, MinIs DEF vfio_group_find
    <3>2. CASE found = {}
      BY <1>1, <1>4, <3>2, MinIs DEF vfio_group_free_slot
    <3> QED  BY <3>1, <3>2
  <2>2. GroupOpen(s, H, sl, c, i, opened)
    <3>1. CASE found # {}
      <4>1. i \in found /\ opened = s
        BY <1>1, <3>1, MinIs
      <4> HIDE DEF i, opened
      <4> QED  BY <4>1, FoundGroup
    <3>2. CASE found = {}
      <4>1. i \in free /\ opened = open_group(s, i, grp)
        BY <1>1, <1>4, <3>2, MinIs
      <4> HIDE DEF i, opened
      <4> QED  BY <3>2, <4>1, OpeningGroup
    <3> QED  BY <3>1, <3>2
  <2>22. ~opened.conflict /\ Registry(taken, K, k) /\ taken.maps = s.maps
    <3>1. ~opened.conflict
      BY Zenon, <2>2 DEF GroupOpen
    <3> HIDE DEF i, opened
    <3> QED  BY SMTT(30), Z3T(30), <2>2, <3>1, Taking
  <2>3. k[c] = i /\ c \in K /\ K \ {c} = H /\ K \in SUBSET Cards
    BY Zenon
  <2>4. r = IF fault = "device" THEN Failed(s)
            ELSE IF fault = "region" THEN Failed(pw_vfio_close(taken, i))
            ELSE [s |-> taken, slot |-> i]
    <3> HIDE DEF i, taken
    <3> QED  BY Zenon, <1>4, <2>22 DEF pw_vfio_open_bar, taken, i, Took
  <2> HIDE DEF taken, opened, i, k
  <2>5. Registry(pw_vfio_close(taken, i), H, k) /\ Keeps(taken, pw_vfio_close(taken, i), H)
    BY <2>22, <2>3, Closing
  <2>6. Registry(pw_vfio_close(taken, i), H, sl)
    <3>1. \A d \in H : sl[d] = k[d]
      BY DEF k
    <3> QED  BY <2>5, <3>1, SameSlots
  <2>7. Keeps(s, taken, H) /\ Keeps(s, pw_vfio_close(taken, i), H)
    BY <2>22, <2>5 DEF Keeps, Mapped
  <2>8. CASE fault = "device"
    BY <1>2, <2>4, <2>8 DEF Failed
  <2>9. CASE fault = "region"
    BY <2>4, <2>6, <2>7, <2>9 DEF Failed
  <2>10. CASE fault \notin {"device", "region"}
    <3>1. r.s = taken /\ r.slot = i
      BY <2>4, <2>10
    <3>2. Registry(r.s, K, [sl EXCEPT ![c] = r.slot])
      BY <2>22, <3>1 DEF k
    <3> QED  BY <2>1, <2>7, <3>1, <3>2
  <2> QED  BY <2>8, <2>9, <2>10
<1> QED  BY <1>3, <1>4

\* dma_setup: the mapping, or the registry as it was but for the allocator.
LEMMA SettingUp ==
  ASSUME NEW s, NEW H \in SUBSET Cards, NEW sl, Registry(s, H, sl), NEW c \in H, NEW fault,
         NEW t \in dma_setup(s, sl[c], c, fault)
  PROVE  Registry(t, H, sl) /\ Keeps(s, t, H \ {c})
<1> DEFINE m == pw_vfio_map_dma(s, sl[c], c, fault)
<1>1. Registry(m, H, sl) /\ Keeps(s, m, H)
  BY Mapping
<1>2. t \in {s, m, pw_vfio_unmap_dma(m, c)}
  BY DEF dma_setup
<1> HIDE DEF m
<1>3. Registry(pw_vfio_unmap_dma(m, c), H, sl) /\ Keeps(m, pw_vfio_unmap_dma(m, c), H \ {c})
  BY <1>1, Unmapping
<1>4. /\ Keeps(s, s, H \ {c}) /\ Keeps(s, m, H \ {c})
      /\ Keeps(s, pw_vfio_unmap_dma(m, c), H \ {c})
  BY <1>1, <1>3 DEF Keeps
<1> QED  BY <1>1, <1>2, <1>3, <1>4

\* What an open hands back for card c: a vfio backend whose pool is mapped, or
\* one that holds nothing.
Held(t, H, sl, c, b) ==
  \/ b \in {Closed, Sysfs} /\ Registry(t, H, sl)
  \/ \E i \in Slots, pool \in BOOLEAN :
       /\ b = Vfio(i, pool) /\ (pool => Mapped(t, c))
       /\ Registry(t, H \cup {c}, [sl EXCEPT ![c] = i])

LEMMA Attaching ==
  ASSUME NEW s, NEW H \in SUBSET Cards, NEW sl, sl = [d \in Cards |-> sl[d]], NEW c \in Cards \ H,
         NEW i \in Slots, Registry(s, H \cup {c}, [sl EXCEPT ![c] = i]), NEW fault,
         NEW r \in attach_vfio(s, i, c, fault)
  PROVE  Held(r.s, H, sl, c, r.b) /\ Keeps(s, r.s, H)
<1> DEFINE k == [sl EXCEPT ![c] = i]
           K == H \cup {c}
<1>1. k[c] = i /\ K \in SUBSET Cards /\ c \in K /\ K \ {c} = H /\ \A d \in H : sl[d] = k[d]
  OBVIOUS
<1>2. Registry(s, K, k)
  OBVIOUS
<1> HIDE DEF k, K
<1>3. ASSUME NEW t, Registry(t, K, k)
      PROVE  Registry(pw_vfio_close(t, i), H, sl) /\ Keeps(t, pw_vfio_close(t, i), H)
  <2>1. Registry(pw_vfio_close(t, k[c]), K \ {c}, k) /\ Keeps(t, pw_vfio_close(t, k[c]), K \ {c})
    BY <1>1, <1>3, Closing
  <2>2. Registry(pw_vfio_close(t, i), H, k) /\ Keeps(t, pw_vfio_close(t, i), H)
    BY <1>1, <2>1
  <2> QED  BY <1>1, <2>2, SameSlots
<1>4. CASE fault = "attach"
  <2>1. r.s = pw_vfio_close(s, i) /\ r.b = Closed
    BY <1>4 DEF attach_vfio
  <2> QED  BY <1>2, <1>3, <2>1 DEF Held
<1>5. CASE fault # "attach" /\ c \notin HAS_DMA
  <2>0. r = [s |-> s, b |-> Vfio(i, FALSE)]
    BY <1>5, Zenon DEF attach_vfio
  <2>1. r.s = s /\ r.b = Vfio(i, FALSE)
    BY <2>0 DEF Vfio
  <2>2. Keeps(s, s, H)
    BY DEF Keeps
  <2> QED  BY Zenon, <1>2, <2>1, <2>2 DEF Held, k, K
<1>6. CASE fault # "attach" /\ c \in HAS_DMA
  <2>1. PICK t \in dma_setup(s, i, c, fault) :
          r = IF Mapped(t, c) THEN [s |-> t, b |-> Vfio(i, TRUE)]
              ELSE [s |-> pw_vfio_close(t, i), b |-> Closed]
    BY Zenon, <1>6 DEF attach_vfio
  <2>2. t \in dma_setup(s, k[c], c, fault)
    BY <1>1
  <2>3. Registry(t, K, k) /\ Keeps(s, t, K \ {c})
    BY Zenon, <1>1, <1>2, <2>2, SettingUp
  <2>4. Keeps(s, t, H)
    BY <1>1, <2>3
  <2>5. CASE Mapped(t, c)
    <3>1. r.s = t /\ r.b = Vfio(i, TRUE)
      BY <2>1, <2>5
    <3> QED  BY Zenon, <2>3, <2>4, <2>5, <3>1 DEF Held, k, K
  <2>6. CASE ~Mapped(t, c)
    <3>1. r.s = pw_vfio_close(t, i) /\ r.b = Closed
      BY <2>1, <2>6
    <3>2. Registry(r.s, H, sl) /\ Keeps(t, r.s, H)
      BY <1>3, <2>3, <3>1
    <3>3. Keeps(s, r.s, H)
      BY <2>4, <3>2 DEF Keeps
    <3> QED  BY <3>1, <3>2, <3>3 DEF Held
  <2> QED  BY <2>5, <2>6
<1> QED  BY <1>4, <1>5, <1>6

\* pw_bar_backend_open, over every path and fault.
LEMMA OpeningBackend ==
  ASSUME NEW s, NEW H \in SUBSET Cards, NEW sl, Registry(s, H, sl), sl = [d \in Cards |-> sl[d]],
         NEW c \in Cards \ H, NEW force, NEW sysfs, NEW fault,
         NEW r \in pw_bar_backend_open(s, c, force, sysfs, fault)
  PROVE  Held(r.s, H, sl, c, r.b) /\ Keeps(s, r.s, H)
<1>1. \/ r = [s |-> s, b |-> Sysfs] \/ r = [s |-> s, b |-> Closed]
      \/ r \in open_vfio(s, c, fault)
  BY DEF pw_bar_backend_open
<1>2. CASE r = [s |-> s, b |-> Sysfs] \/ r = [s |-> s, b |-> Closed]
  <2>1. r.s = s /\ r.b \in {Closed, Sysfs}
    BY <1>2
  <2> QED  BY <2>1 DEF Held, Keeps
<1>3. CASE r \in open_vfio(s, c, fault)
  <2> DEFINE q == pw_vfio_open_bar(s, c, fault)
  <2>1. r \in IF q.slot = 0 THEN {[s |-> q.s, b |-> Closed]} ELSE attach_vfio(q.s, q.slot, c, fault)
    BY <1>3 DEF open_vfio
  <2>2. \/ q.slot = 0 /\ Registry(q.s, H, sl) /\ Keeps(s, q.s, H)
        \/ /\ q.slot \in Slots /\ Registry(q.s, H \cup {c}, [sl EXCEPT ![c] = q.slot])
           /\ Keeps(s, q.s, H)
    BY OpeningBar
  <2> HIDE DEF q
  <2>3. CASE q.slot = 0
    <3>1. r.s = q.s /\ r.b = Closed
      BY <2>1, <2>3
    <3>2. Registry(q.s, H, sl) /\ Keeps(s, q.s, H)
      BY <2>2, <2>3, SlotNumbers
    <3> QED  BY <3>1, <3>2 DEF Held
  <2>4. CASE q.slot # 0
    <3>1. /\ q.slot \in Slots /\ Registry(q.s, H \cup {c}, [sl EXCEPT ![c] = q.slot])
          /\ Keeps(s, q.s, H) /\ r \in attach_vfio(q.s, q.slot, c, fault)
      BY <2>1, <2>2, <2>4
    <3>2. Held(r.s, H, sl, c, r.b) /\ Keeps(q.s, r.s, H)
      BY <3>1, Attaching
    <3> QED  BY <3>1, <3>2 DEF Keeps
  <2> QED  BY <2>3, <2>4
<1> QED  BY <1>1, <1>2, <1>3

\* bar_close of a vfio backend, whether its unmap succeeds or not.
LEMMA ClosingBackend ==
  ASSUME NEW s, NEW H \in SUBSET Cards, NEW sl, Registry(s, H, sl), NEW c \in H,
         NEW b, b.slot = sl[c], b.path = "vfio", NEW t \in bar_close(s, c, b)
  PROVE  Registry(t, H \ {c}, sl) /\ Keeps(s, t, H \ {c})
<1>1. PICK u \in {s, pw_vfio_unmap_dma(s, c)} : t = pw_vfio_close(u, sl[c])
  BY DEF bar_close
<1>2. Registry(u, H, sl) /\ Keeps(s, u, H \ {c})
  <2>1. Keeps(s, s, H \ {c})
    BY DEF Keeps
  <2> QED  BY <1>1, <2>1, Unmapping
<1>3. Registry(t, H \ {c}, sl) /\ Keeps(u, t, H \ {c})
  BY Zenon, <1>1, <1>2, Closing
<1> QED  BY <1>2, <1>3 DEF Keeps
-----------------------------------------------------------------------------
(***************************************************************************)
(* The inductive invariant.  DeviceInv: the registry is exact for the      *)
(* cards that are alive, and a channel runs only into a pool of one.       *)
(* LoopInv: how far the loops that open and close the cards have come.     *)
(* ThreadInv: which threads run when, who has the lock, which programs are *)
(* allocated.  ServeInv: what a start without -F has seen to by then.      *)
(***************************************************************************)
Vfios == {c \in alive : cards[c].path = "vfio"}
SlotOf == [c \in Cards |-> cards[c].slot]
Serving == {"workers", "servo", "sfp", "loop", "want", "load", "join", "joinw", "release"}

IsBackend(b) ==
  b \in {Closed, Sysfs, Fake} \/ \E i \in Slots, pool \in BOOLEAN : b = Vfio(i, pool)

DeviceInv ==
  /\ cards = [c \in Cards |-> cards[c]] /\ \A c \in Cards : IsBackend(cards[c])
  /\ alive \subseteq OpenCards
  /\ Registry(os, Vfios, SlotOf)
  /\ \A c \in Vfios : cards[c].pool => Mapped(os, c)
  /\ \A c \in engine : c \in Vfios /\ cards[c].pool

LoopInv ==
  /\ pc = "open" => at \in Cards /\ \A c \in Cards : c >= at => cards[c] = Closed
  /\ pc \notin {"close", "free", "exit"} => OpenCards \subseteq alive
  /\ pc = "close" => at \in Cards /\ alive = {c \in OpenCards : c >= at}
  /\ pc \in {"free", "exit"} => alive = {}
  /\ (pc = "workers" => at \in Cards) /\ (pc = "taps" => at \in Lifs)
  /\ socket = "ours" <=> pc \in Serving
  /\ hps \subseteq OpenCards

Programs ==
  /\ prog \in Nat /\ (pc = "load" <=> lock = "main")
  /\ pc \in {"want", "load"} => new \in Nat /\ prog < new /\ progs = {prog, new}
  /\ pc \notin {"want", "load", "exit"} => progs = {prog}

ThreadInv ==
  /\ worker = [c \in Cards |-> worker[c]]
  /\ \A c \in Cards : worker[c] \notin {Off, "done"} => pc \in Serving \ {"release"} /\ c \in hps
  /\ servo \notin {Off, "done"} => pc \in {"sfp", "loop", "want", "load", "join"}
  /\ sfp \notin {Off, "done"} => pc \in {"loop", "want", "load", "join"}
  /\ servo = "use" <=> lock = "servo"
  /\ servo = "use" => walked = prog
  /\ sfp = "use" => probed \in OpenCards
  /\ Programs

ServeInv ==
  ~opts.allow_fake =>
    /\ \A c \in Cards : cards[c].path # "fake"
    /\ pc \in {"program", "taps", "tapped", "listen"} \cup Serving => OpenCards = Cards
    /\ pc \in {"taps", "tapped", "listen"} \cup Serving => programmed
    /\ pc \in {"open", "opened", "program"} => taps = {}
    /\ pc = "taps" => taps = {l \in Lifs : l < at}
    /\ pc \in {"tapped", "listen"} \cup Serving => taps = Lifs

LifeInv == DeviceInv /\ LoopInv /\ ThreadInv /\ ServeInv

LEMMA Pooled ==
  ASSUME NEW b, IsBackend(b), b.pool PROVE b.path = "vfio"
<1>1. ~Closed.pool /\ ~Sysfs.pool /\ ~Fake.pool
  BY DEF Closed, Sysfs, Fake
<1>2. \A i \in Slots, pool \in BOOLEAN : Vfio(i, pool).path = "vfio"
  BY DEF Vfio
<1> QED  BY <1>1, <1>2 DEF IsBackend

LEMMA VfiosAreCards ==
  ASSUME DeviceInv
  PROVE  /\ Vfios \in SUBSET Cards /\ SlotOf = [c \in Cards |-> SlotOf[c]]
         /\ \A c \in Cards : SlotOf[c] = cards[c].slot
BY DEF DeviceInv, Vfios, SlotOf, OpenCards

LEMMA InitDevice == Init => DeviceInv
<1> SUFFICES ASSUME Init PROVE DeviceInv
  OBVIOUS
<1>1. cards = [c \in Cards |-> Closed] /\ alive = {} /\ engine = {} /\ os = NothingHeld
  BY DEF Init
<1>2. Vfios = {}
  BY <1>1 DEF Vfios
<1>3. /\ os.groups = [i \in Slots |-> FreeSlot] /\ os.held = {} /\ os.maps = {} /\ ~os.conflict
      /\ IsOs(os)
  BY <1>1 DEF NothingHeld, IsOs
<1>4. Counted(os, {}, SlotOf)
  <2>1. \A i : Holders({}, SlotOf, i) = {}
    BY DEF Holders
  <2>2. Cardinality({}) = 0
    BY FS_EmptySet
  <2> QED  BY <1>3, <2>1, <2>2 DEF Counted, FreeSlot, IsSlot
<1>5. Placed(os, {}, SlotOf) /\ Beyond(os, {}, SlotOf)
  BY <1>3 DEF Placed, Beyond
<1>6. Registry(os, {}, SlotOf)
  BY <1>3, <1>4, <1>5 DEF Registry
<1> QED  BY <1>1, <1>2, <1>6 DEF DeviceInv, IsBackend

\* A step that leaves the cards alone.
LEMMA SameDevice ==
  ASSUME DeviceInv, UNCHANGED <<os, cards, alive>>, engine' = engine PROVE DeviceInv'
<1>1. Vfios' = Vfios /\ SlotOf' = SlotOf /\ OpenCards' = OpenCards
  BY DEF Vfios, SlotOf, OpenCards
<1> QED  BY <1>1 DEF DeviceInv

LEMMA WorkerKeepsDevice ==
  ASSUME LifeInv, NEW c \in Cards, WorkerStep(c) PROVE DeviceInv'
<1>1. /\ UNCHANGED <<os, cards, alive>> /\ worker[c] = "use"
      /\ engine' = IF cards[c].pool THEN engine \cup {c} ELSE engine
  BY DEF WorkerStep
<1>2. c \in OpenCards /\ pc \notin {"close", "free", "exit"}
  BY <1>1 DEF LifeInv, ThreadInv, LoopInv, Off, Serving
<1>3. c \in alive /\ DeviceInv
  BY <1>2 DEF LifeInv, LoopInv
<1>4. cards[c].pool => cards[c].path = "vfio"
  <2>1. IsBackend(cards[c])
    BY <1>3 DEF DeviceInv
  <2> QED  BY <2>1, Pooled
<1>5. Vfios' = Vfios /\ SlotOf' = SlotOf /\ OpenCards' = OpenCards
  BY <1>1 DEF Vfios, SlotOf, OpenCards
<1>6. \A d \in engine' : d \in Vfios /\ cards[d].pool
  BY <1>1, <1>3, <1>4 DEF DeviceInv, Vfios
<1> QED  BY <1>1, <1>3, <1>5, <1>6 DEF DeviceInv

LEMMA OpenKeepsDevice ==
  ASSUME LifeInv, OpenCard PROVE DeviceInv'
<1>1. PICK sysfs \in BOOLEAN, fault \in Faults :
        \E r \in pw_bar_backend_open(os, at, opts.force, sysfs, fault) :
          LET b == IF ~r.b.open /\ opts.allow_fake THEN Fake ELSE r.b
          IN  /\ os' = r.s /\ cards' = [cards EXCEPT ![at] = b]
              /\ alive' = IF b.open THEN alive \union {at} ELSE alive
  BY Zenon DEF OpenCard
<1>2. PICK r \in pw_bar_backend_open(os, at, opts.force, sysfs, fault) :
          LET b == IF ~r.b.open /\ opts.allow_fake THEN Fake ELSE r.b
          IN  /\ os' = r.s /\ cards' = [cards EXCEPT ![at] = b]
              /\ alive' = IF b.open THEN alive \union {at} ELSE alive
  BY Zenon, <1>1
<1> DEFINE b == IF ~r.b.open /\ opts.allow_fake THEN Fake ELSE r.b
<1>3. /\ os' = r.s /\ cards' = [cards EXCEPT ![at] = b]
      /\ alive' = IF b.open THEN alive \union {at} ELSE alive
      /\ engine' = engine
  BY Zenon, <1>2 DEF OpenCard
<1>4. /\ DeviceInv /\ at \in Cards /\ cards[at] = Closed
  <2>1. at \in Cards /\ \A c \in Cards : c >= at => cards[c] = Closed
    BY DEF OpenCard, LifeInv, LoopInv
  <2>2. at >= at
    BY <2>1, GroupsAssumption
  <2> QED  BY <2>1, <2>2 DEF LifeInv
<1>5. at \notin alive /\ at \notin Vfios
  BY <1>4 DEF DeviceInv, OpenCards, Closed, Vfios
<1>6. Registry(os, Vfios, SlotOf) /\ Vfios \in SUBSET Cards /\ SlotOf = [c \in Cards |-> SlotOf[c]]
  BY <1>4, VfiosAreCards DEF DeviceInv
<1>7. Held(r.s, Vfios, SlotOf, at, r.b) /\ Keeps(os, r.s, Vfios)
  BY <1>4, <1>5, <1>6, OpeningBackend
<1>8. /\ cards' = [c \in Cards |-> cards'[c]] /\ cards'[at] = b
      /\ \A c \in Cards : c # at => cards'[c] = cards[c]
  BY <1>3, <1>4 DEF DeviceInv
<1> HIDE DEF b
<1>9. alive' \subseteq OpenCards'
  <2>1. ASSUME NEW c \in alive' PROVE c \in Cards /\ cards'[c].open
    <3>1. CASE c \in alive
      BY <1>4, <1>5, <1>8, <3>1 DEF DeviceInv, OpenCards
    <3>2. CASE c = at /\ b.open
      BY <1>4, <1>8, <3>2
    <3> QED  BY <1>3, <2>1, <3>1, <3>2
  <2> QED  BY <2>1 DEF OpenCards
<1>10. ASSUME NEW c \in Vfios
       PROVE  c \in Cards /\ c # at /\ cards'[c] = cards[c] /\ (cards[c].pool => Mapped(r.s, c))
  BY <1>4, <1>5, <1>6, <1>7, <1>8, <1>10 DEF DeviceInv, Keeps
<1>11. CASE r.b \in {Closed, Sysfs} /\ Registry(r.s, Vfios, SlotOf)
  <2>1. b \in {Closed, Sysfs, Fake}
    BY <1>11 DEF b
  <2>2. b.path # "vfio"
    BY <2>1 DEF Closed, Sysfs, Fake
  <2>3. Vfios' = Vfios
    BY <1>3, <1>5, <1>6, <1>8, <1>10, <2>2, <1>9 DEF Vfios, OpenCards
  <2>4. \A c \in Vfios : SlotOf'[c] = SlotOf[c]
    BY <1>10 DEF SlotOf
  <2>5. Registry(os', Vfios', SlotOf')
    BY <1>3, <1>6, <1>11, <2>3, <2>4, SameSlots
  <2>6. \A c \in Cards : IsBackend(cards'[c])
    BY <1>4, <1>8, <2>1 DEF DeviceInv, IsBackend
  <2>7. /\ \A c \in Vfios' : cards'[c].pool => Mapped(os', c)
        /\ \A c \in engine' : c \in Vfios' /\ cards'[c].pool
    BY <1>3, <1>4, <1>10, <2>3 DEF DeviceInv
  <2> QED  BY <1>8, <1>9, <2>5, <2>6, <2>7 DEF DeviceInv
<1>12. ASSUME NEW i \in Slots, NEW pool \in BOOLEAN, r.b = Vfio(i, pool),
              pool => Mapped(r.s, at), Registry(r.s, Vfios \cup {at}, [SlotOf EXCEPT ![at] = i])
       PROVE  DeviceInv'
  <2>1. b = Vfio(i, pool) /\ b.open /\ b.path = "vfio" /\ b.slot = i /\ (b.pool <=> pool)
    BY <1>12 DEF b, Vfio
  <2>2. Vfios' = Vfios \cup {at}
    BY <1>3, <1>4, <1>6, <1>8, <1>10, <2>1, <1>9 DEF Vfios, OpenCards
  <2>3. SlotOf' = [SlotOf EXCEPT ![at] = i]
    BY Zenon, <1>4, <1>8, <2>1 DEF SlotOf
  <2>4. Registry(os', Vfios', SlotOf')
    BY <1>3, <1>12, <2>2, <2>3
  <2>5. \A c \in Cards : IsBackend(cards'[c])
    BY <1>4, <1>8, <1>12, <2>1 DEF DeviceInv, IsBackend
  <2>6. /\ \A c \in Vfios' : cards'[c].pool => Mapped(os', c)
        /\ \A c \in engine' : c \in Vfios' /\ cards'[c].pool
    BY Zenon, <1>3, <1>4, <1>8, <1>10, <1>12, <2>1, <2>2 DEF DeviceInv
  <2> QED  BY Zenon, <1>8, <1>9, <2>4, <2>5, <2>6 DEF DeviceInv
<1> QED  BY Zenon, <1>7, <1>11, <1>12 DEF Held

LEMMA CloseKeepsDevice ==
  ASSUME LifeInv, CloseCard PROVE DeviceInv'
<1>1. DeviceInv /\ at \in Cards /\ alive = {c \in OpenCards : c >= at} /\ cards' = cards
  BY Zenon DEF CloseCard, LifeInv, LoopInv
<1>2. CASE ~cards[at].open
  BY <1>1, <1>2, SameDevice DEF CloseCard
<1>3. CASE cards[at].open
  <2>1. PICK s \in bar_close(os, at, cards[at]) :
          os' = s /\ alive' = alive \ {at} /\ engine' = engine \ {at}
    BY <1>3 DEF CloseCard
  <2>2. at \in alive
    <3>1. at >= at
      BY <1>1, GroupsAssumption
    <3> QED  BY <1>1, <1>3, <3>1 DEF OpenCards
  <2>3. Vfios' = Vfios \ {at} /\ SlotOf' = SlotOf /\ OpenCards' = OpenCards
    BY <1>1, <2>1 DEF Vfios, SlotOf, OpenCards
  <2>4. Registry(os, Vfios, SlotOf) /\ Vfios \in SUBSET Cards
    BY <1>1, VfiosAreCards DEF DeviceInv
  <2>5. Registry(os', Vfios', SlotOf') /\ Keeps(os, os', Vfios \ {at})
    <3>1. CASE cards[at].path # "vfio"
      <4>1. os' = os /\ Vfios \ {at} = Vfios
        BY <2>1, <3>1 DEF bar_close, Vfios
      <4> QED  BY <2>3, <2>4, <4>1 DEF Keeps
    <3>2. CASE cards[at].path = "vfio"
      <4>1. at \in Vfios /\ cards[at].slot = SlotOf[at]
        BY <1>1, <2>2, <3>2 DEF Vfios, SlotOf
      <4>2. Registry(s, Vfios \ {at}, SlotOf) /\ Keeps(os, s, Vfios \ {at})
        BY <2>1, <2>4, <3>2, <4>1, ClosingBackend
      <4> QED  BY <2>1, <2>3, <4>2
    <3> QED  BY <3>1, <3>2
  <2>6. \A c \in Vfios' : cards'[c].pool => Mapped(os', c)
    BY <1>1, <2>3, <2>5 DEF DeviceInv, Keeps
  <2>7. \A c \in engine' : c \in Vfios' /\ cards'[c].pool
    BY <1>1, <2>1, <2>3 DEF DeviceInv
  <2>8. alive' \subseteq OpenCards'
    BY <1>1, <2>1, <2>3
  <2> QED  BY <1>1, <2>5, <2>6, <2>7, <2>8 DEF DeviceInv
<1> QED  BY <1>2, <1>3

LEMMA StepKeepsDevice ==
  ASSUME LifeInv, [Next]_vars PROVE DeviceInv'
<1>1. DeviceInv
  BY DEF LifeInv
<1>2. CASE OpenCard
  BY <1>2, OpenKeepsDevice
<1>3. CASE CloseCard
  BY <1>3, CloseKeepsDevice
<1>4. CASE \E c \in Cards : WorkerStep(c)
  BY Zenon, <1>4, WorkerKeepsDevice
<1>5. CASE Opened \/ Program \/ SetupTap \/ Tapped \/ Listen \/ StartWorker \/ StartServo \/ StartSfp
  BY Zenon, <1>1, <1>5, SameDevice DEF Opened, Program, SetupTap, Tapped, Listen, StartWorker, StartServo,
     StartSfp, device
<1>6. CASE LoadCompiled \/ LoadLock \/ LoadSwap \/ LoadRollBack \/ Signal
  BY <1>1, <1>6, SameDevice DEF LoadCompiled, LoadLock, LoadSwap, LoadRollBack, Signal, device
<1>7. CASE LeaveLoop \/ JoinServoSfp \/ JoinWorkers \/ Release \/ FreeProgram
  BY <1>1, <1>7, SameDevice DEF LeaveLoop, JoinServoSfp, JoinWorkers, Release, FreeProgram, device
<1>8. CASE Servo \/ Sfp \/ \E c \in Cards : WorkerLook(c)
  BY <1>1, <1>8, SameDevice DEF Servo, ServoLook, ServoLock, ServoDone, Sfp, SfpLook, SfpProbed,
     WorkerLook, device
<1>9. CASE UNCHANGED vars
  BY <1>1, <1>9, SameDevice DEF vars, device
<1> QED  BY <1>2, <1>3, <1>4, <1>5, <1>6, <1>7, <1>8, <1>9 DEF Next, Main, Worker
-----------------------------------------------------------------------------
\* The loops of main: where one starts, and where its next round is.
LEMMA LoopGoes ==
  ASSUME NEW S \in SUBSET Nat, NEW label, NEW p, Loop(S, label, p)
  PROVE  \/ S = {} /\ pc' = p
         \/ pc' = label /\ at' \in S /\ \A i \in S : at' <= i
BY MinIs DEF Loop, Goto

LEMMA StepGoes ==
  ASSUME NEW S \in SUBSET Nat, NEW label, NEW p, at \in Nat, Step(S, label, p)
  PROVE  \/ pc' = p /\ \A i \in S : ~(i > at)
         \/ pc' = label /\ at' \in S /\ at' > at /\ \A i \in S : i > at <=> i >= at'
<1> DEFINE T == {i \in S : i > at}
<1>1. T \in SUBSET Nat /\ Loop(T, label, p)
  BY Zenon DEF Step
<1>2. \/ T = {} /\ pc' = p
      \/ pc' = label /\ at' \in T /\ \A i \in T : at' <= i
  <2> HIDE DEF T
  <2> QED  BY <1>1, LoopGoes
<1>3. CASE T = {} /\ pc' = p
  BY <1>3
<1>4. CASE pc' = label /\ at' \in T /\ \A i \in T : at' <= i
  <2>1. at' \in S /\ at' > at /\ at' \in Nat
    BY <1>4
  <2>2. ASSUME NEW i \in S PROVE i > at <=> i >= at'
    <3>1. i > at => i \in T
      OBVIOUS
    <3>2. i \in Nat
      OBVIOUS
    <3> QED  BY <1>4, <2>1, <3>1, <3>2
  <2> QED  BY <1>4, <2>1, <2>2
<1> QED  BY <1>2, <1>3, <1>4

LEMMA InitLoops == Init => LoopInv
<1> SUFFICES ASSUME Init PROVE LoopInv
  OBVIOUS
<1>1. Cards \in SUBSET Nat
  BY GroupsAssumption
<1>2. OpenCards = {}
  BY DEF Init, OpenCards, Closed
<1>3. pc = "opened" \/ (pc = "open" /\ at \in Cards)
  BY <1>1, MinIs DEF Init
<1>4. \A c \in Cards : cards[c] = Closed
  BY DEF Init
<1> QED  BY <1>2, <1>3, <1>4 DEF Init, LoopInv, Serving

LEMMA SameLoops ==
  ASSUME LoopInv, UNCHANGED <<pc, at, cards, alive, hps, socket>> PROVE LoopInv'
<1>1. OpenCards' = OpenCards
  BY DEF OpenCards
<1> QED  BY <1>1 DEF LoopInv

\* main goes on to another place that is in no loop over the cards.
LEMMA Onward ==
  ASSUME LoopInv, UNCHANGED <<cards, alive>>, hps' \subseteq OpenCards,
         pc \notin {"close", "free", "exit"}, pc' \notin {"open", "close", "free", "exit"},
         pc' = "workers" => at' \in Cards, pc' = "taps" => at' \in Lifs,
         socket' = "ours" <=> pc' \in Serving
  PROVE  LoopInv'
<1>1. OpenCards' = OpenCards
  BY DEF OpenCards
<1> QED  BY <1>1 DEF LoopInv

\* main starts to close the cards.
LEMMA ToClose ==
  ASSUME LoopInv, DeviceInv, UNCHANGED <<cards, alive>>, hps' \subseteq OpenCards,
         pc \notin {"close", "free", "exit"}, socket' # "ours",
         NEW p \in {"free", "exit"}, Loop(Cards, "close", p)
  PROVE  LoopInv'
<1>1. OpenCards' = OpenCards /\ alive = OpenCards /\ OpenCards \subseteq Cards
  BY DEF LoopInv, DeviceInv, OpenCards
<1>2. Cards \in SUBSET Nat
  BY GroupsAssumption
<1>3. \/ Cards = {} /\ pc' = p
      \/ pc' = "close" /\ at' \in Cards /\ \A c \in Cards : at' <= c
  BY <1>2, LoopGoes
<1>4. CASE Cards = {} /\ pc' = p
  BY <1>1, <1>4 DEF LoopInv, Serving
<1>5. CASE pc' = "close" /\ at' \in Cards /\ \A c \in Cards : at' <= c
  <2>1. alive' = {c \in OpenCards' : c >= at'}
    BY Zenon, <1>1, <1>2, <1>5
  <2> QED  BY <1>1, <1>5, <2>1 DEF LoopInv, Serving
<1> QED  BY <1>3, <1>4, <1>5

LEMMA OpenKeepsLoops ==
  ASSUME LifeInv, OpenCard, DeviceInv' PROVE LoopInv'
<1>1. /\ LoopInv /\ pc = "open" /\ at \in Cards /\ cards = [c \in Cards |-> cards[c]]
      /\ Cards \in SUBSET Nat /\ at \in Nat
  BY GroupsAssumption DEF LifeInv, LoopInv, DeviceInv, OpenCard
<1>2. PICK b : /\ cards' = [cards EXCEPT ![at] = b]
               /\ alive' = IF b.open THEN alive \union {at} ELSE alive
  BY Zenon DEF OpenCard
<1>3. cards'[at] = b /\ \A c \in Cards : c # at => cards'[c] = cards[c]
  BY <1>1, <1>2
<1>4. hps' = hps /\ socket' = socket /\ Step(Cards, "open", "opened")
  BY DEF OpenCard, plane
<1>5. \/ pc' = "opened"
      \/ pc' = "open" /\ at' \in Cards /\ at' > at
  BY <1>1, <1>4, StepGoes
<1>6. OpenCards' \subseteq alive'
  <2>1. ASSUME NEW c \in OpenCards' PROVE c \in alive'
    <3>1. CASE c = at
      BY <1>2, <1>3, <2>1, <3>1 DEF OpenCards
    <3>2. CASE c # at
      BY <1>1, <1>2, <1>3, <2>1, <3>2 DEF OpenCards, LoopInv
    <3> QED  BY <3>1, <3>2
  <2> QED  BY <2>1
<1>7. ASSUME pc' = "open" PROVE \A c \in Cards : c >= at' => cards'[c] = Closed
  <2>1. at' \in Nat /\ at' > at
    BY <1>1, <1>5, <1>7
  <2> QED  BY <1>1, <1>3, <2>1 DEF LoopInv
<1>8. hps' \subseteq OpenCards'
  <2>1. ~cards[at].open
    <3>1. at >= at
      BY <1>1
    <3>2. cards[at] = Closed
      BY <1>1, <3>1 DEF LoopInv
    <3> QED  BY <3>2 DEF Closed
  <2>2. \A c \in hps : c \in Cards /\ c # at /\ cards[c].open
    BY <1>1, <2>1 DEF LoopInv, OpenCards
  <2> QED  BY <1>3, <1>4, <2>2 DEF OpenCards
<1> QED  BY <1>1, <1>4, <1>5, <1>6, <1>7, <1>8 DEF LoopInv, Serving

LEMMA CloseKeepsLoops ==
  ASSUME LifeInv, CloseCard PROVE LoopInv'
<1>1. /\ LoopInv /\ pc = "close" /\ at \in Cards /\ alive = {c \in OpenCards : c >= at}
      /\ Cards \in SUBSET Nat /\ at \in Nat
  BY Zenon, GroupsAssumption DEF LifeInv, LoopInv, CloseCard
<1>2. hps' = hps /\ socket' = socket /\ cards' = cards
  BY DEF CloseCard, plane
<1>3. OpenCards' = OpenCards /\ OpenCards \subseteq Cards
  BY <1>2 DEF OpenCards
<1>4. alive' = {c \in OpenCards : c > at}
  <2>0. \A c \in OpenCards : c > at <=> c >= at /\ c # at
    <3>1. ASSUME NEW c \in Nat PROVE c > at <=> c >= at /\ c # at
      BY <1>1
    <3> QED  BY <1>1, <1>3, <3>1
  <2>1. CASE cards[at].open
    <3>1. alive' = alive \ {at}
      BY <2>1 DEF CloseCard
    <3>2. \A c : c \in alive' <=> c \in OpenCards /\ c > at
      BY <1>1, <2>0, <3>1
    <3> QED  BY <3>2
  <2>2. CASE ~cards[at].open
    <3>1. alive' = alive /\ at \notin OpenCards
      BY <2>2 DEF CloseCard, OpenCards
    <3>2. \A c : c \in alive' <=> c \in OpenCards /\ c > at
      BY <1>1, <2>0, <3>1
    <3> QED  BY <3>2
  <2> QED  BY <2>1, <2>2
<1>5. PICK p \in {"free", "exit"} : Step(Cards, "close", p)
  BY DEF CloseCard
<1>6. \/ pc' = p /\ \A c \in Cards : ~(c > at)
      \/ pc' = "close" /\ at' \in Cards /\ \A c \in Cards : c > at <=> c >= at'
  BY <1>1, <1>5, StepGoes
<1>7. CASE pc' = p /\ \A c \in Cards : ~(c > at)
  <2>1. alive' = {}
    BY <1>3, <1>4, <1>7
  <2> QED  BY <1>1, <1>2, <1>3, <1>5, <1>7, <2>1 DEF LoopInv, Serving
<1>8. CASE pc' = "close" /\ at' \in Cards /\ \A c \in Cards : c > at <=> c >= at'
  <2>1. alive' = {c \in OpenCards' : c >= at'}
    BY <1>3, <1>4, <1>8
  <2> QED  BY <1>1, <1>2, <1>3, <1>8, <2>1 DEF LoopInv, Serving
<1> QED  BY <1>6, <1>7, <1>8

LEMMA StartKeepsLoops ==
  ASSUME LifeInv, Opened \/ Program \/ SetupTap \/ Tapped \/ Listen PROVE LoopInv'
<1>1. /\ LoopInv /\ DeviceInv /\ hps \subseteq OpenCards
      /\ pc \in {"opened", "program", "taps", "tapped", "listen"} /\ socket # "ours"
  BY Zenon DEF LifeInv, LoopInv, Serving, Opened, Program, SetupTap, Tapped, Listen
<1>2. UNCHANGED <<cards, alive>>
  BY Zenon DEF Opened, Program, SetupTap, Tapped, Listen, device
<1>3. Cards \in SUBSET Nat /\ Lifs \in SUBSET Nat
  BY GroupsAssumption, LifeAssumption
<1>4. ASSUME hps' \subseteq OpenCards, socket' # "ours", Abandon PROVE LoopInv'
  <2>1. Loop(Cards, "close", "exit")
    BY <1>4 DEF Abandon
  <2> QED  BY <1>1, <1>2, <1>4, <2>1, ToClose
<1>5. ASSUME hps' \subseteq OpenCards, socket' # "ours",
             pc' \in {"program", "tapped", "listen"} \/ (pc' = "taps" /\ at' \in Lifs)
      PROVE  LoopInv'
  BY <1>1, <1>2, <1>5, Onward DEF Serving
<1>6. CASE Opened
  <2>1. hps' \subseteq OpenCards /\ socket' # "ours"
    BY <1>1, <1>6 DEF Opened, plane
  <2> QED  BY <1>4, <1>5, <1>6, <2>1 DEF Opened, Goto
<1>7. CASE Program
  <2>1. hps' \subseteq OpenCards /\ socket' # "ours"
    BY <1>1, <1>7 DEF Program, plane
  <2>2. Abandon \/ Loop(Lifs, "taps", "tapped")
    BY <1>7 DEF Program
  <2>3. Loop(Lifs, "taps", "tapped") => pc' = "tapped" \/ (pc' = "taps" /\ at' \in Lifs)
    BY <1>3, LoopGoes
  <2> QED  BY <1>4, <1>5, <2>1, <2>2, <2>3
<1>8. CASE SetupTap
  <2>1. at \in Lifs /\ at \in Nat /\ LifCard[at] \in Cards /\ socket' = socket
    BY ZenonT(30), <1>1, <1>3, <1>8, LifeAssumption DEF SetupTap, LoopInv
  <2>2. \/ Abandon /\ hps' = {}
        \/ /\ Step(Lifs, "taps", "tapped")
           /\ hps' = hps \/ (cards[LifCard[at]].open /\ hps' = hps \cup {LifCard[at]})
    BY Zenon, <1>8 DEF SetupTap, Rewind
  <2>3. hps' \subseteq OpenCards
    BY <1>1, <2>1, <2>2 DEF OpenCards
  <2>4. Step(Lifs, "taps", "tapped") => pc' = "tapped" \/ (pc' = "taps" /\ at' \in Lifs)
    BY <1>3, <2>1, StepGoes
  <2> QED  BY <1>1, <1>4, <1>5, <2>1, <2>2, <2>3, <2>4
<1>9. CASE Tapped
  <2>1. hps' \subseteq OpenCards /\ socket' # "ours"
    BY <1>1, <1>9 DEF Tapped, plane
  <2> QED  BY <1>4, <1>5, <1>9, <2>1 DEF Tapped, Goto
<1>10. CASE Listen
  <2>1. hps' = hps
    BY <1>10 DEF Listen
  <2>2. \/ socket' = "ours" /\ Loop(Cards, "workers", "servo")
        \/ socket' # "ours" /\ Abandon
    BY <1>1, <1>10 DEF Listen
  <2>3. ASSUME socket' = "ours", Loop(Cards, "workers", "servo") PROVE LoopInv'
    <3>1. pc' = "servo" \/ (pc' = "workers" /\ at' \in Cards)
      BY <1>3, <2>3, LoopGoes
    <3> QED  BY <1>1, <1>2, <2>1, <2>3, <3>1, Onward DEF Serving
  <2> QED  BY <1>1, <1>4, <2>1, <2>2, <2>3
<1> QED  BY <1>6, <1>7, <1>8, <1>9, <1>10

LEMMA ServingKeepsLoops ==
  ASSUME LifeInv, \/ StartWorker \/ StartServo \/ StartSfp
                  \/ LoadCompiled \/ LoadLock \/ LoadSwap \/ LoadRollBack
                  \/ LeaveLoop \/ JoinServoSfp \/ JoinWorkers
  PROVE  LoopInv'
<1>1. /\ LoopInv /\ hps \subseteq OpenCards /\ socket = "ours"
      /\ pc \in Serving /\ pc # "release"
  BY ZenonT(30) DEF LifeInv, LoopInv, Serving, StartWorker, StartServo, StartSfp, LoadCompiled, LoadLock,
     LoadSwap, LoadRollBack, LeaveLoop, JoinServoSfp, JoinWorkers
<1>2. UNCHANGED <<cards, alive, hps, socket>>
  BY ZenonT(30) DEF StartWorker, StartServo, StartSfp, LoadCompiled, LoadLock, LoadSwap, LoadRollBack,
     LeaveLoop, JoinServoSfp, JoinWorkers, device, plane
<1>3. pc' \in Serving /\ (pc' = "workers" => at' \in Cards)
  <2>1. CASE StartWorker
    <3>1. at \in Nat /\ Cards \in SUBSET Nat /\ Step(Cards, "workers", "servo")
      BY Zenon, <1>1, <2>1, GroupsAssumption DEF StartWorker, LoopInv
    <3>2. pc' = "servo" \/ (pc' = "workers" /\ at' \in Cards)
      BY <3>1, StepGoes
    <3> QED  BY <3>2 DEF Serving
  <2> QED
    BY <2>1 DEF Serving, StartServo, StartSfp, LoadCompiled, LoadLock, LoadSwap, LoadRollBack,
       LeaveLoop, JoinServoSfp, JoinWorkers, Goto
<1> QED  BY Zenon, <1>1, <1>2, <1>3, Onward DEF Serving

LEMMA StepKeepsLoops ==
  ASSUME LifeInv, [Next]_vars PROVE LoopInv'
<1>1. LoopInv /\ DeviceInv /\ DeviceInv'
  BY StepKeepsDevice DEF LifeInv
<1>2. CASE OpenCard
  BY <1>1, <1>2, OpenKeepsLoops
<1>3. CASE Opened \/ Program \/ SetupTap \/ Tapped \/ Listen
  BY <1>3, StartKeepsLoops
<1>4. CASE \/ StartWorker \/ StartServo \/ StartSfp
           \/ LoadCompiled \/ LoadLock \/ LoadSwap \/ LoadRollBack
           \/ LeaveLoop \/ JoinServoSfp \/ JoinWorkers
  BY <1>4, ServingKeepsLoops
<1>5. CASE Release
  <2>1. /\ UNCHANGED <<cards, alive>> /\ hps' \subseteq OpenCards /\ socket' # "ours"
        /\ pc = "release" /\ Loop(Cards, "close", "free")
    BY <1>5 DEF Release, device
  <2> QED  BY <1>1, <2>1, ToClose
<1>6. CASE CloseCard
  BY <1>6, CloseKeepsLoops
<1>7. CASE FreeProgram
  <2>1. UNCHANGED <<cards, alive, hps, socket>> /\ pc = "free" /\ pc' = "exit"
    BY <1>7 DEF FreeProgram, Goto, device, plane
  <2>2. OpenCards' = OpenCards
    BY Zenon, <2>1 DEF OpenCards
  <2> QED  BY <1>1, <2>1, <2>2 DEF LoopInv, Serving
<1>8. CASE Signal \/ Servo \/ Sfp \/ (\E c \in Cards : Worker(c)) \/ UNCHANGED vars
  BY Zenon, <1>1, <1>8, SameLoops DEF Signal, Servo, ServoLook, ServoLock, ServoDone, Sfp, SfpLook,
     SfpProbed, Worker, WorkerLook, WorkerStep, device, plane, vars
<1> QED  BY <1>2, <1>3, <1>4, <1>5, <1>6, <1>7, <1>8 DEF Next, Main
-----------------------------------------------------------------------------
\* The threads, the lock and the programs.
LEMMA InitThreads == Init => ThreadInv
<1> SUFFICES ASSUME Init PROVE ThreadInv
  OBVIOUS
<1>1. pc \in {"open", "opened"}
  BY DEF Init
<1>2. Programs
  BY <1>1 DEF Init, Programs
<1> QED  BY <1>1, <1>2 DEF Init, ThreadInv, Off

\* A step of main while no thread runs.
LEMMA NoThreads ==
  ASSUME ThreadInv, UNCHANGED <<worker, servo, sfp, walked, probed, prog, progs, new, lock>>,
         pc \notin Serving \ {"release"}, pc # "exit", pc' \notin {"want", "load"}
  PROVE  ThreadInv'
<1>1. /\ \A c \in Cards : worker[c] \in {Off, "done"}
      /\ servo \in {Off, "done"} /\ sfp \in {Off, "done"}
  BY DEF ThreadInv, Serving
<1>2. Programs'
  BY DEF ThreadInv, Programs, Serving
<1> QED  BY <1>1, <1>2 DEF ThreadInv, Off

LEMMA SameThreads ==
  ASSUME ThreadInv, UNCHANGED <<pc, cards, hps, prog, progs, new, lock>>,
         UNCHANGED <<worker, servo, sfp, walked, probed>>
  PROVE  ThreadInv'
<1>1. OpenCards' = OpenCards
  BY DEF OpenCards
<1> QED  BY <1>1 DEF ThreadInv, Programs

LEMMA WorkersKeepThreads ==
  ASSUME LifeInv, NEW c \in Cards, Worker(c) PROVE ThreadInv'
<1>1. /\ ThreadInv /\ worker[c] \in {"idle", "use"}
      /\ \E w : worker' = [worker EXCEPT ![c] = w]
      /\ UNCHANGED <<pc, cards, hps, servo, sfp, walked, probed, prog, progs, new, lock>>
  BY Zenon DEF LifeInv, Worker, WorkerLook, WorkerStep, device, plane, program
<1>2. OpenCards' = OpenCards
  BY <1>1 DEF OpenCards
<1>3. Programs'
  BY <1>1 DEF ThreadInv, Programs
<1>4. /\ pc \in Serving \ {"release"} /\ c \in hps
      /\ worker' = [d \in Cards |-> worker'[d]]
      /\ \A d \in Cards : d # c => worker'[d] = worker[d]
  BY <1>1 DEF ThreadInv, Off
<1> QED  BY Zenon, <1>1, <1>2, <1>3, <1>4 DEF ThreadInv

LEMMA ServoKeepsThreads ==
  ASSUME LifeInv, Servo PROVE ThreadInv'
<1>1. /\ ThreadInv /\ servo \notin {Off, "done"}
      /\ UNCHANGED <<pc, cards, hps, worker, sfp, probed, prog, progs, new>>
  BY DEF LifeInv, Servo, ServoLook, ServoLock, ServoDone, Off, device, plane, program
<1>2. OpenCards' = OpenCards
  BY <1>1 DEF OpenCards
<1>3. pc \in {"sfp", "loop", "want", "load", "join"}
  BY <1>1 DEF ThreadInv
<1>4. CASE ServoLook
  <2>1. UNCHANGED <<lock, walked>> /\ servo = "idle" /\ servo' \in {"done", "want"}
    BY <1>4 DEF ServoLook, program
  <2>2. Programs'
    BY <1>1, <2>1 DEF ThreadInv, Programs
  <2> QED  BY <1>1, <1>2, <1>3, <2>1, <2>2 DEF ThreadInv
<1>5. CASE ServoLock
  <2>1. lock = "free" /\ lock' = "servo" /\ servo' = "use" /\ walked' = prog
    BY <1>5 DEF ServoLock
  <2>2. Programs'
    BY <1>1, <2>1 DEF ThreadInv, Programs
  <2> QED  BY <1>1, <1>2, <1>3, <2>1, <2>2 DEF ThreadInv
<1>6. CASE ServoDone
  <2>1. lock = "servo" /\ lock' = "free" /\ servo' = "idle"
    BY <1>1, <1>6 DEF ServoDone, ThreadInv
  <2>2. Programs'
    BY <1>1, <2>1 DEF ThreadInv, Programs
  <2> QED  BY <1>1, <1>2, <1>3, <2>1, <2>2 DEF ThreadInv
<1> QED  BY <1>4, <1>5, <1>6 DEF Servo

LEMMA SfpKeepsThreads ==
  ASSUME LifeInv, Sfp PROVE ThreadInv'
<1>1. /\ ThreadInv /\ sfp \in {"idle", "use"}
      /\ UNCHANGED <<pc, cards, hps, worker, servo, walked, prog, progs, new, lock>>
  BY DEF LifeInv, Sfp, SfpLook, SfpProbed, device, plane, program
<1>2. OpenCards' = OpenCards /\ OpenCards \in SUBSET Nat
  BY Zenon, <1>1, GroupsAssumption DEF OpenCards
<1>3. pc \in {"loop", "want", "load", "join"}
  BY <1>1 DEF ThreadInv, Off
<1>4. sfp' = "use" => probed' \in OpenCards
  <2>1. CASE SfpLook
    <3>1. sfp' = "use" => OpenCards # {} /\ probed' = Min(OpenCards)
      BY <2>1 DEF SfpLook
    <3> QED  BY <1>2, <3>1, MinIs
  <2>2. CASE SfpProbed
    <3> DEFINE later == {c \in OpenCards : c > probed}
    <3>1. sfp' = "use" => later # {} /\ probed' = Min(later)
      BY <2>2 DEF SfpProbed
    <3>2. later \in SUBSET Nat /\ later \subseteq OpenCards
      BY Zenon, <1>2
    <3> HIDE DEF later
    <3> QED  BY Zenon, <3>1, <3>2, MinIs
  <2> QED  BY <2>1, <2>2 DEF Sfp
<1>5. Programs'
  BY <1>1 DEF ThreadInv, Programs
<1> QED  BY <1>1, <1>2, <1>3, <1>4, <1>5 DEF ThreadInv

LEMMA MaxOne ==
  ASSUME NEW n \in Nat PROVE Max({n}) = n
BY DEF Max

LEMMA StartingKeepsThreads ==
  ASSUME LifeInv, StartWorker \/ StartServo \/ StartSfp PROVE ThreadInv'
<1>1. /\ ThreadInv /\ LoopInv /\ pc \in {"workers", "servo", "sfp"}
      /\ UNCHANGED <<cards, hps, walked, probed, prog, progs, new, lock>>
  BY DEF LifeInv, StartWorker, StartServo, StartSfp, device, plane, program
<1>2. OpenCards' = OpenCards
  BY <1>1 DEF OpenCards
<1>3. pc' \in {"workers", "servo", "sfp", "loop"}
  <2>1. CASE StartWorker
    <3>1. at \in Nat /\ Cards \in SUBSET Nat /\ Step(Cards, "workers", "servo")
      BY ZenonT(30), <1>1, <2>1, GroupsAssumption DEF StartWorker, LoopInv
    <3> QED  BY Zenon, <3>1, StepGoes
  <2> QED  BY <2>1 DEF StartServo, StartSfp, Goto
<1>4. Programs'
  BY <1>1, <1>3 DEF ThreadInv, Programs
<1>5. CASE StartWorker
  <2>1. /\ pc = "workers" /\ at \in Cards /\ UNCHANGED <<servo, sfp>>
        /\ worker' = worker \/ (at \in hps /\ worker' = [worker EXCEPT ![at] = "idle"])
    BY <1>1, <1>5 DEF StartWorker, LoopInv
  <2>2. /\ worker' = [c \in Cards |-> worker'[c]]
        /\ \A c \in Cards : worker'[c] = worker[c] \/ c \in hps
    BY <1>1, <2>1 DEF ThreadInv
  <2>3. servo \in {Off, "done"} /\ sfp \in {Off, "done"}
    BY <1>1, <2>1 DEF ThreadInv
  <2> QED  BY <1>1, <1>2, <1>3, <1>4, <2>1, <2>2, <2>3 DEF ThreadInv, Serving, Off
<1>6. CASE StartServo
  <2>1. /\ pc = "servo" /\ pc' = "sfp" /\ UNCHANGED <<worker, sfp>> /\ servo' \in {"idle", Off}
    BY <1>6 DEF StartServo, Goto
  <2>2. servo \in {Off, "done"} /\ sfp \in {Off, "done"}
    BY <1>1, <2>1 DEF ThreadInv
  <2> QED  BY <1>1, <1>2, <1>4, <2>1, <2>2 DEF ThreadInv, Serving, Off
<1>7. CASE StartSfp
  <2>1. /\ pc = "sfp" /\ pc' = "loop" /\ UNCHANGED <<worker, servo>> /\ sfp' \in {"idle", Off}
    BY <1>7 DEF StartSfp, Goto
  <2> QED  BY <1>1, <1>2, <1>4, <2>1 DEF ThreadInv, Serving, Off
<1> QED  BY <1>5, <1>6, <1>7

\* config.load: while it holds the lock the servo walks nothing.
LEMMA LoadKeepsThreads ==
  ASSUME LifeInv, LoadCompiled \/ LoadLock \/ LoadSwap \/ LoadRollBack PROVE ThreadInv'
<1>1. /\ ThreadInv /\ Programs /\ prog \in Nat /\ pc \in {"loop", "want", "load"}
      /\ pc' \in {"loop", "want", "load"}
      /\ UNCHANGED <<cards, hps, worker, servo, sfp, walked, probed>>
  BY Zenon DEF LifeInv, ThreadInv, Programs, LoadCompiled, LoadLock, LoadSwap, LoadRollBack, Goto, device,
     plane, threads
<1>2. OpenCards' = OpenCards
  BY <1>1 DEF OpenCards
<1>3. Programs' /\ (servo = "use" <=> lock' = "servo") /\ (servo = "use" => prog' = prog)
  <2>1. CASE LoadCompiled
    <3>1. /\ pc = "loop" /\ pc' = "want" /\ progs = {prog} /\ prog' = prog /\ lock' = lock
          /\ new' = Max(progs) + 1 /\ progs' = progs \cup {Max(progs) + 1}
      BY <1>1, <2>1 DEF LoadCompiled, Goto, Programs
    <3>2. new' = prog + 1 /\ progs' = {prog, prog + 1}
      BY <1>1, <3>1, MaxOne
    <3> QED  BY <1>1, <3>1, <3>2 DEF Programs, ThreadInv
  <2>2. CASE LoadLock
    <3>1. /\ pc = "want" /\ pc' = "load" /\ lock = "free" /\ lock' = "main"
          /\ UNCHANGED <<prog, progs, new>>
      BY <2>2 DEF LoadLock, Goto
    <3> QED  BY <1>1, <3>1 DEF Programs, ThreadInv
  <2>3. CASE LoadSwap \/ LoadRollBack
    <3>1. pc = "load" /\ pc' = "loop" /\ lock = "main" /\ lock' = "free" /\ servo # "use"
      BY <1>1, <2>3 DEF LoadSwap, LoadRollBack, Goto, Programs, ThreadInv
    <3>2. new \in Nat /\ new # prog /\ progs = {prog, new}
      BY <1>1, <3>1 DEF Programs
    <3>3. prog' \in {prog, new} /\ progs' = {prog'}
      BY <2>3, <3>2 DEF LoadSwap, LoadRollBack
    <3> QED  BY <1>1, <3>1, <3>2, <3>3 DEF Programs
  <2> QED  BY Zenon, <2>1, <2>2, <2>3
<1> QED  BY Zenon, <1>1, <1>2, <1>3 DEF ThreadInv, Serving

LEMMA JoiningKeepsThreads ==
  ASSUME LifeInv, LeaveLoop \/ JoinServoSfp \/ JoinWorkers PROVE ThreadInv'
<1>1. /\ ThreadInv
      /\ UNCHANGED <<cards, hps, worker, servo, sfp, walked, probed, prog, progs, new, lock>>
  BY DEF LifeInv, LeaveLoop, JoinServoSfp, JoinWorkers, device, plane, threads, program
<1>2. OpenCards' = OpenCards
  BY <1>1 DEF OpenCards
<1>3. pc \in {"loop", "join", "joinw"} /\ pc' \in {"join", "joinw", "release"}
  BY DEF LeaveLoop, JoinServoSfp, JoinWorkers, Goto
<1>4. Programs'
  BY <1>1, <1>3 DEF ThreadInv, Programs
<1>5. CASE LeaveLoop
  <2>1. pc = "loop" /\ pc' = "join"
    BY <1>5 DEF LeaveLoop, Goto
  <2> QED  BY <1>1, <1>2, <1>4, <2>1 DEF ThreadInv, Serving
<1>6. CASE JoinServoSfp
  <2>1. pc = "join" /\ pc' = "joinw" /\ servo \in {Off, "done"} /\ sfp \in {Off, "done"}
    BY <1>6 DEF JoinServoSfp, Goto
  <2> QED  BY <1>1, <1>2, <1>4, <2>1 DEF ThreadInv, Serving
<1>7. CASE JoinWorkers
  <2>1. /\ pc = "joinw" /\ pc' = "release" /\ \A c \in Cards : worker[c] \in {Off, "done"}
    BY <1>7 DEF JoinWorkers, Goto
  <2>2. servo \in {Off, "done"} /\ sfp \in {Off, "done"}
    BY <1>1, <2>1 DEF ThreadInv
  <2> QED  BY <1>1, <1>2, <1>4, <2>1, <2>2 DEF ThreadInv, Serving
<1> QED  BY <1>5, <1>6, <1>7

LEMMA StepKeepsThreads ==
  ASSUME LifeInv, [Next]_vars PROVE ThreadInv'
<1>1. ThreadInv /\ LoopInv
  BY DEF LifeInv
<1>2. CASE OpenCard \/ Opened \/ Program \/ SetupTap \/ Tapped \/ Listen \/ Release \/ CloseCard
  <2>1. /\ UNCHANGED <<worker, servo, sfp, walked, probed, prog, progs, new, lock>>
        /\ pc \notin Serving \ {"release"} /\ pc # "exit"
    BY ZenonT(30), <1>2 DEF OpenCard, Opened, Program, SetupTap, Tapped, Listen, Release, CloseCard, threads,
       program, Serving
  <2>2. pc' \notin {"want", "load"}
    BY Zenon, <1>2 DEF OpenCard, Opened, Program, SetupTap, Tapped, Listen, Release, CloseCard, Abandon,
       Step, Loop, Goto
  <2> QED  BY Zenon, <1>1, <2>1, <2>2, NoThreads
<1>3. CASE StartWorker \/ StartServo \/ StartSfp
  BY <1>3, StartingKeepsThreads
<1>4. CASE LoadCompiled \/ LoadLock \/ LoadSwap \/ LoadRollBack
  BY <1>4, LoadKeepsThreads
<1>5. CASE LeaveLoop \/ JoinServoSfp \/ JoinWorkers
  BY <1>5, JoiningKeepsThreads
<1>6. CASE FreeProgram
  <2>1. /\ pc = "free" /\ pc' = "exit"
        /\ UNCHANGED <<worker, servo, sfp, walked, probed, prog, new, lock>>
    BY <1>6 DEF FreeProgram, Goto, threads
  <2>2. /\ \A c \in Cards : worker[c] \in {Off, "done"}
        /\ servo \in {Off, "done"} /\ sfp \in {Off, "done"}
    BY <1>1, <2>1 DEF ThreadInv, Serving
  <2>3. Programs'
    BY <1>1, <2>1 DEF ThreadInv, Programs
  <2> QED  BY <1>1, <2>1, <2>2, <2>3 DEF ThreadInv, Off
<1>7. CASE Servo
  BY <1>7, ServoKeepsThreads
<1>8. CASE Sfp
  BY <1>8, SfpKeepsThreads
<1>9. CASE \E c \in Cards : Worker(c)
  BY <1>9, WorkersKeepThreads
<1>10. CASE Signal \/ UNCHANGED vars
  BY <1>1, <1>10, SameThreads DEF Signal, device, plane, threads, program, vars
<1> QED  BY <1>2, <1>3, <1>4, <1>5, <1>6, <1>7, <1>8, <1>9, <1>10 DEF Next, Main
-----------------------------------------------------------------------------
\* A start without -F.
LEMMA InitServe == Init => ServeInv
<1> SUFFICES ASSUME Init PROVE ServeInv
  OBVIOUS
<1>1. pc \in {"open", "opened"} /\ taps = {}
  BY DEF Init
<1>2. \A c \in Cards : cards[c].path # "fake"
  BY Zenon DEF Init, Closed
<1> QED  BY <1>1, <1>2 DEF ServeInv, Serving

\* A step that neither opens a card nor sets one up.
LEMMA SameServe ==
  ASSUME ServeInv, UNCHANGED <<opts, cards, programmed, taps>>,
         \/ pc' = pc /\ at' = at
         \/ pc \in Serving /\ pc' \in Serving
         \/ pc' \in {"close", "free", "exit"}
  PROVE  ServeInv'
<1>1. OpenCards' = OpenCards
  BY DEF OpenCards
<1> QED  BY Zenon, <1>1 DEF ServeInv, Serving

LEMMA ClosingServe ==
  ASSUME ServeInv, UNCHANGED <<opts, cards>>, pc' \in {"close", "free", "exit"}
  PROVE  ServeInv'
BY DEF ServeInv, Serving

LEMMA OpenKeepsServe ==
  ASSUME LifeInv, OpenCard PROVE ServeInv'
<1>1. /\ ServeInv /\ DeviceInv /\ LoopInv /\ at \in Cards /\ at \in Nat /\ Cards \in SUBSET Nat
      /\ pc = "open"
  BY ZenonT(30), GroupsAssumption DEF LifeInv, LoopInv, OpenCard
<1>2. opts' = opts /\ taps' = taps /\ Step(Cards, "open", "opened")
  BY DEF OpenCard, plane
<1>3. pc' \in {"open", "opened"}
  BY <1>1, <1>2, StepGoes
<1>4. ASSUME ~opts.allow_fake PROVE \A c \in Cards : cards'[c].path # "fake"
  <2>1. PICK sysfs \in BOOLEAN, fault \in Faults :
          \E r \in pw_bar_backend_open(os, at, opts.force, sysfs, fault) :
            cards' = [cards EXCEPT ![at] = r.b]
    BY Zenon, <1>4 DEF OpenCard
  <2>2. PICK r \in pw_bar_backend_open(os, at, opts.force, sysfs, fault) :
          cards' = [cards EXCEPT ![at] = r.b]
    BY Zenon, <2>1
  <2>3. cards[at] = Closed
    <3>1. at >= at
      BY <1>1
    <3> QED  BY Zenon, <1>1, <3>1 DEF LoopInv
  <2>4. at \notin Vfios
    BY <1>1, <2>3 DEF DeviceInv, OpenCards, Closed, Vfios
  <2>5. Registry(os, Vfios, SlotOf) /\ Vfios \in SUBSET Cards /\ SlotOf = [c \in Cards |-> SlotOf[c]]
    BY <1>1, VfiosAreCards DEF DeviceInv
  <2>6. Held(r.s, Vfios, SlotOf, at, r.b)
    BY Zenon, <1>1, <2>4, <2>5, OpeningBackend
  <2>7. r.b.path # "fake"
    <3>1. /\ Closed.path # "fake" /\ Sysfs.path # "fake"
          /\ \A i, pool : Vfio(i, pool).path # "fake"
      BY DEF Closed, Sysfs, Vfio
    <3> QED  BY Zenon, <2>6, <3>1 DEF Held
  <2> QED  BY <1>1, <1>4, <2>2, <2>7 DEF ServeInv, DeviceInv
<1> QED  BY Zenon, <1>1, <1>2, <1>3, <1>4 DEF ServeInv, Serving

LEMMA AbandonGoes == Abandon => pc' \in {"close", "exit"}
BY DEF Abandon, Loop, Goto

LEMMA OpenedKeepsServe ==
  ASSUME ServeInv, Opened PROVE ServeInv'
<1>1. pc = "opened" /\ UNCHANGED <<opts, cards, programmed, taps>>
  BY DEF Opened, device, plane
<1>2. OpenCards' = OpenCards
  BY <1>1 DEF OpenCards
<1>3. CASE Abandon
  BY Zenon, <1>1, <1>3, AbandonGoes, ClosingServe
<1>4. CASE pc' = "program" /\ (OpenCards = Cards \/ opts.allow_fake)
  BY <1>1, <1>2, <1>4 DEF ServeInv, Serving
<1> QED  BY <1>3, <1>4 DEF Opened, Goto

LEMMA ProgramKeepsServe ==
  ASSUME ServeInv, Program PROVE ServeInv'
<1>1. pc = "program" /\ UNCHANGED <<opts, cards, taps>>
  BY DEF Program, plane
<1>2. OpenCards' = OpenCards
  BY <1>1 DEF OpenCards
<1>3. CASE Abandon
  BY <1>1, <1>3, AbandonGoes, ClosingServe
<1>4. CASE Loop(Lifs, "taps", "tapped") /\ (programmed' \/ opts.allow_fake)
  <2>1. Lifs \in SUBSET Nat
    BY LifeAssumption
  <2>2. \/ Lifs = {} /\ pc' = "tapped"
        \/ pc' = "taps" /\ at' \in Lifs /\ \A i \in Lifs : at' <= i
    BY <1>4, <2>1, LoopGoes
  <2>3. ASSUME at' \in Lifs, \A i \in Lifs : at' <= i PROVE {l \in Lifs : l < at'} = {}
    <3>1. ASSUME NEW i \in Lifs PROVE ~(i < at')
      BY SMTT(30), Z3T(30), <2>1, <2>3
    <3> QED  BY <3>1
  <2> QED  BY <1>1, <1>2, <1>4, <2>2, <2>3 DEF ServeInv, Serving
<1> QED  BY <1>3, <1>4 DEF Program

LEMMA TapKeepsServe ==
  ASSUME ServeInv, LoopInv, SetupTap PROVE ServeInv'
<1>1. pc = "taps" /\ UNCHANGED <<opts, cards, programmed>>
  BY DEF SetupTap, device
<1>2. OpenCards' = OpenCards
  BY <1>1 DEF OpenCards
<1>3. CASE Abandon
  BY <1>1, <1>3, AbandonGoes, ClosingServe
<1>4. CASE opts.allow_fake
  BY <1>1, <1>4 DEF ServeInv
<1>5. CASE taps' = taps \cup {at} /\ Step(Lifs, "taps", "tapped") /\ ~opts.allow_fake
  <2>1. Lifs \in SUBSET Nat /\ at \in Lifs /\ at \in Nat /\ taps = {l \in Lifs : l < at}
    BY <1>1, <1>5, LifeAssumption DEF LoopInv, ServeInv
  <2>2. \/ pc' = "tapped" /\ \A i \in Lifs : ~(i > at)
        \/ pc' = "taps" /\ at' \in Lifs /\ \A i \in Lifs : i > at <=> i >= at'
    BY <1>5, <2>1, StepGoes
  <2>3. ASSUME \A i \in Lifs : ~(i > at) PROVE taps' = Lifs
    <3>1. ASSUME NEW i \in Lifs PROVE i < at \/ i = at
      BY <2>1, <2>3
    <3> QED  BY Zenon, <1>5, <2>1, <3>1
  <2>4. ASSUME at' \in Lifs, \A i \in Lifs : i > at <=> i >= at'
        PROVE  taps' = {l \in Lifs : l < at'}
    <3>1. ASSUME NEW i \in Lifs PROVE i < at' <=> i < at \/ i = at
      <4>1. i \in Nat /\ at \in Nat /\ at' \in Nat /\ (i > at <=> i >= at')
        BY <2>1, <2>4
      <4> QED  BY <4>1
    <3> QED  BY Zenon, <1>5, <2>1, <3>1
  <2> QED  BY <1>1, <1>2, <1>5, <2>2, <2>3, <2>4 DEF ServeInv, Serving
<1> QED  BY Zenon, <1>3, <1>4, <1>5 DEF SetupTap

LEMMA StepKeepsServe ==
  ASSUME LifeInv, [Next]_vars PROVE ServeInv'
<1>1. ServeInv /\ LoopInv
  BY DEF LifeInv
<1>2. CASE OpenCard
  BY <1>2, OpenKeepsServe
<1>3. CASE Opened
  BY <1>1, <1>3, OpenedKeepsServe
<1>4. CASE Program
  BY <1>1, <1>4, ProgramKeepsServe
<1>5. CASE SetupTap
  BY <1>1, <1>5, TapKeepsServe
<1>6. CASE Tapped \/ Listen
  <2>1. pc \in {"tapped", "listen"} /\ UNCHANGED <<opts, cards, programmed, taps>>
    BY <1>6 DEF Tapped, Listen, device, plane
  <2>2. Abandon \/ (pc = "tapped" /\ pc' = "listen") \/ (pc = "listen" /\ pc' \in {"workers", "servo"})
    BY <1>6 DEF Tapped, Listen, Loop, Goto
  <2>3. OpenCards' = OpenCards
    BY <2>1 DEF OpenCards
  <2>4. CASE Abandon
    BY <1>1, <2>1, <2>4, AbandonGoes, ClosingServe
  <2> QED  BY <1>1, <2>1, <2>2, <2>3, <2>4 DEF ServeInv, Serving
<1>7. CASE Release \/ CloseCard \/ FreeProgram
  <2>1. UNCHANGED <<opts, cards>> /\ pc' \in {"close", "free", "exit"}
    BY <1>7 DEF Release, CloseCard, FreeProgram, device, Step, Loop, Goto
  <2> QED  BY <1>1, <2>1, ClosingServe
<1>8. CASE \/ StartWorker \/ StartServo \/ StartSfp
           \/ LoadCompiled \/ LoadLock \/ LoadSwap \/ LoadRollBack
           \/ LeaveLoop \/ JoinServoSfp \/ JoinWorkers
  <2>1. UNCHANGED <<opts, cards, programmed, taps>>
    BY ZenonT(30), <1>8 DEF StartWorker, StartServo, StartSfp, LoadCompiled, LoadLock, LoadSwap, LoadRollBack,
       LeaveLoop, JoinServoSfp, JoinWorkers, device, plane
  <2>2. pc \in Serving /\ pc' \in Serving
    BY Zenon, <1>8 DEF Serving, StartWorker, StartServo, StartSfp, LoadCompiled, LoadLock, LoadSwap,
       LoadRollBack, LeaveLoop, JoinServoSfp, JoinWorkers, Step, Loop, Goto
  <2> QED  BY Zenon, <1>1, <2>1, <2>2, SameServe
<1>9. CASE Signal \/ Servo \/ Sfp \/ (\E c \in Cards : Worker(c)) \/ UNCHANGED vars
  <2>1. UNCHANGED <<opts, cards, programmed, taps, pc, at>>
    BY Zenon, <1>9 DEF Signal, Servo, ServoLook, ServoLock, ServoDone, Sfp, SfpLook, SfpProbed, Worker,
       WorkerLook, WorkerStep, device, plane, vars
  <2> QED  BY Zenon, <1>1, <2>1, SameServe
<1> QED  BY <1>2, <1>3, <1>4, <1>5, <1>6, <1>7, <1>8, <1>9 DEF Next, Main
-----------------------------------------------------------------------------
(* The inductive invariant holds in every life of the daemon, through each *)
(* step of main (main.c:2848-3094) and of the threads it runs.             *)
LEMMA AlwaysLife == Spec => []LifeInv
<1>1. Init => LifeInv
  BY InitDevice, InitLoops, InitThreads, InitServe DEF LifeInv
<1>2. LifeInv /\ [Next]_vars => LifeInv'
  BY StepKeepsDevice, StepKeepsLoops, StepKeepsThreads, StepKeepsServe DEF LifeInv
<1> QED  BY <1>1, <1>2, PTL DEF Spec

(* For any number of cards, interfaces, groups and failures: no thread     *)
(* works on a card, host plane, TAP or program that main has released,     *)
(* neither in config.load (main.c:802-856) nor in the shut-down            *)
(* (main.c:3070-3094).                                                     *)
THEOREM NothingUsedAfterRelease == Spec => []NoUseAfterRelease
<1>1. LifeInv => NoUseAfterRelease
  <2> SUFFICES ASSUME LifeInv PROVE NoUseAfterRelease
    OBVIOUS
  <2>1. ASSUME NEW c \in Cards, worker[c] = "use" PROVE c \in alive /\ c \in hps
    BY <2>1 DEF LifeInv, ThreadInv, LoopInv, Serving, Off
  <2>2. ASSUME servo = "use" PROVE walked \in progs /\ OpenCards \subseteq alive
    <3>1. /\ pc \in {"sfp", "loop", "want", "load", "join"} /\ walked = prog
          /\ OpenCards \subseteq alive
      BY <2>2 DEF LifeInv, ThreadInv, LoopInv, Off
    <3>2. prog \in progs
      BY <3>1 DEF LifeInv, ThreadInv, Programs
    <3> QED  BY <3>1, <3>2
  <2>3. ASSUME sfp = "use" PROVE probed \in alive
    BY <2>3 DEF LifeInv, ThreadInv, LoopInv, Off
  <2> QED  BY <2>1, <2>2, <2>3 DEF NoUseAfterRelease
<1> QED  BY <1>1, AlwaysLife, PTL

(* A running C2H channel writes into a pool that is mapped and allocated:  *)
(* dma_teardown stops the channels before it unmaps and frees the pool     *)
(* (backend_bar.c:334-343), and no other card's opening or closing, or     *)
(* failure half way, takes the mapping away.                               *)
THEOREM ChannelsWriteLivePools == Spec => []DmaIntoLivePool
<1>1. LifeInv => DmaIntoLivePool
  BY DEF LifeInv, DeviceInv, Vfios, DmaIntoLivePool
<1> QED  BY <1>1, AlwaysLife, PTL

(* The kernel never refuses the daemon a group or a DMA address because of *)
(* what the daemon holds itself, however the cards share IOMMU groups and  *)
(* whichever of the opens failed before (vfio.c:16-24).                    *)
THEOREM NeverInItsOwnWay == Spec => []NoSelfConflict
<1>1. LifeInv => NoSelfConflict
  BY DEF LifeInv, DeviceInv, Registry, NoSelfConflict
<1> QED  BY <1>1, AlwaysLife, PTL

(* The registry's reference counts are the numbers of open cards of each   *)
(* group, the process holds exactly the groups in use (vfio.c:26-93), and  *)
(* at exit it holds nothing and leaves no socket of its own behind.        *)
THEOREM RegistryStaysExact == Spec => []RegistryExact
<1>1. LifeInv => RegistryExact
  <2> SUFFICES ASSUME LifeInv PROVE RegistryExact
    OBVIOUS
  <2>1. Registry(os, Vfios, SlotOf) /\ DeviceInv /\ LoopInv
    BY DEF LifeInv, DeviceInv
  <2>2. Vfios \in SUBSET Cards /\ \A c \in Cards : SlotOf[c] = cards[c].slot
    BY <2>1, VfiosAreCards
  <2>3. ASSUME NEW i \in Slots
        PROVE  os.groups[i].refcount =
                 Cardinality({c \in alive : cards[c].path = "vfio" /\ cards[c].slot = i})
    <3>1. Holders(Vfios, SlotOf, i) = {c \in alive : cards[c].path = "vfio" /\ cards[c].slot = i}
      <4>1. Holders(Vfios, SlotOf, i) = {c \in Vfios : cards[c].slot = i}
        BY Zenon, <2>2 DEF Holders
      <4> QED  BY <4>1 DEF Vfios
    <3>2. os.groups[i].refcount = Cardinality(Holders(Vfios, SlotOf, i))
      BY Zenon, <2>1 DEF Registry, Counted
    <3> QED  BY <3>1, <3>2
  <2>4. os.held = {GroupOf[c] : c \in {d \in alive : cards[d].path = "vfio"}}
    BY ZenonT(30), <2>1 DEF Registry, Vfios
  <2>5. ASSUME pc = "exit" PROVE os.held = {} /\ os.maps = {} /\ socket # "ours"
    <3>1. Vfios = {} /\ socket # "ours"
      BY <2>1, <2>5 DEF LoopInv, Serving, Vfios
    <3> QED  BY Zenon, <2>1, <3>1 DEF Registry, Beyond
  <2> QED  BY <2>3, <2>4, <2>5 DEF RegistryExact
<1> QED  BY <1>1, AlwaysLife, PTL

(* Without -F a daemon that answers on its socket has every card open on   *)
(* real hardware, its programming done and a TAP for every interface       *)
(* (main.c:133-141, 2853-2896), whichever calls failed during the start.   *)
THEOREM ServesWholeAlways == Spec => []ServesWhole
<1>1. LifeInv => ServesWhole
  <2> SUFFICES ASSUME LifeInv, pc = "loop", ~opts.allow_fake
               PROVE  /\ \A c \in Cards : cards[c].path \in {"sysfs", "vfio"} /\ c \in alive
                      /\ programmed /\ taps = Lifs /\ socket = "ours"
    BY DEF ServesWhole
  <2>1. /\ OpenCards = Cards /\ programmed /\ taps = Lifs
        /\ \A c \in Cards : cards[c].path # "fake"
    BY DEF LifeInv, ServeInv, Serving
  <2>2. socket = "ours" /\ Cards \subseteq alive
    BY <2>1 DEF LifeInv, LoopInv, Serving
  <2>3. ASSUME NEW c \in Cards PROVE cards[c].path \in {"sysfs", "vfio"}
    <3>1. cards[c].open /\ IsBackend(cards[c]) /\ cards[c].path # "fake"
      BY <2>1 DEF OpenCards, LifeInv, DeviceInv
    <3>2. /\ ~Closed.open /\ Sysfs.path = "sysfs" /\ Fake.path = "fake"
          /\ \A i, pool : Vfio(i, pool).path = "vfio"
      BY DEF Closed, Sysfs, Fake, Vfio
    <3> QED  BY <3>1, <3>2 DEF IsBackend
  <2> QED  BY <2>1, <2>2, <2>3
<1> QED  BY <1>1, AlwaysLife, PTL
=============================================================================
