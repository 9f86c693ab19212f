------------------------------ MODULE MCRxRing ------------------------------
(* RxRing on three slots of two cells, with datagrams shorter than, as long *)
(* as and longer than a slot.                                               *)
EXTENDS RxRing

CONSTANTS a, b

MCCell == {a, b}
MCDatagram == {<<>>, <<b>>, <<b, a>>, <<a, b, b>>}
=============================================================================
