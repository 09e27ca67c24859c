---------------------------- MODULE MCDaemonLife ----------------------------
(* Three cards: two DMA cards in one IOMMU group and a legacy card in      *)
(* another, a registry with room for both groups, two logical interfaces.  *)
EXTENDS DaemonLife

MCGroupOf == <<7, 7, 9>>
MCLifCard == <<1, 2>>
=============================================================================
