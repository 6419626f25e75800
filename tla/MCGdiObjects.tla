---------------------------- MODULE MCGdiObjects ----------------------------
(* Two handles, one after the other, and the bits of a section.              *)
EXTENDS GdiObjects
=============================================================================
