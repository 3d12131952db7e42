----------------------------- MODULE MCDataNode -----------------------------
(***************************************************************************)
(* DataNode for TLC: threads that set and get a reading and a flag.         *)
(***************************************************************************)
EXTENDS DataNode, TLC

CONSTANTS t1, t2, t3, lat, reached

mcFields == {lat, reached}
Nav(x, b) == (lat :> x) @@ (reached :> b)
mcDefault == Nav(0, 0)
mcBand == Nav(1, 0)
(* A drift within the band, the same with the flag raised, and a jump.     *)
mcValues == {Nav(1, 0), Nav(2, 1), Nav(2, 0)}
=============================================================================
