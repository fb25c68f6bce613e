------------------------------ MODULE MCKyouko ------------------------------
(* The Kyouko3 driver with a small command FIFO and three DMA buffers.     *)
EXTENDS KyoukoDma

DrawEntries == {Entry("Vertex_Emit", 1)}
=============================================================================
