------------------------------- MODULE MCFrontEnd -------------------------------
\* Instances of FrontEnd for TLC.
EXTENDS FrontEnd

Kind(w, h, f) == [width |-> w, height |-> h, format |-> f]

\* A row of 32 bytes, a row that is padded, and the formats whose numbers need the
\* most bits: a8 is 16, b8g8r8a8 has swizzle 3.
MCKinds == [s \in SurfaceIds |->
              IF s = "s1" THEN {Kind(8, 2, "b8g8r8a8"), Kind(40, 1, "a8")}
              ELSE {Kind(5, 3, "x8r8g8b8")}]

\* Addresses, a stale word and heap garbage that share bits with every field.
MCGpuAddress == [s \in SurfaceIds |-> IF s = "s1" THEN {12, 20, 31} ELSE {13, 21, 30}]
MCStale == WordBits
MCHeapWords == {{0, 15, 16, 31}}

\* The widest corner a draw and a clip can hold.
MCRects == {[x |-> 1, y |-> 32000, width |-> 32766, height |-> 767]}
MCColors == {{0, 8, 31}}

Blend(c, sg, sa, dg, da) ==
  [cmd |-> c, src_global |-> sg, src_alpha |-> sa, dst_global |-> dg, dst_alpha |-> da]
MCBlends == {Blend("over", FALSE, 255, FALSE, 255), Blend("saturate", TRUE, 129, TRUE, 254)}

\* The blend test_blend2 gives to a multi-source blit.
MCAdd == {Blend("add", FALSE, 0, FALSE, 0)}

\* Data that looks like LOAD_STATE and DRAW_2D headers, an odd and an even number
\* of words.
MCGlyphs == {<<{27, 16}>>, <<{29, 8}, {27, 16}>>}
===============================================================================
