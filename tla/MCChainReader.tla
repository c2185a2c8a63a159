----------------------------- MODULE MCChainReader -----------------------------
(* Two messages of the shortest shapes, read while blocks are found.        *)
EXTENDS ChainReader

MixedShapes == {<<"data", "end">>, <<"data", "single", "end">>}
ShortShapes == {<<"data", "end">>, <<"single", "end">>}
================================================================================
