--------------------------- MODULE MCWasmClient ---------------------------
(* Instances of WasmClient for TLC.                                          *)
EXTENDS WasmClient

\* Depth 2: 0 and 2 part only at the last bit; the two trees share their branch and
\* differ in the leaf beside it.
BeforeAndAfter == {{}, {0, 2, 1}, {0, 2, 3}}

\* All that fit, and one that is cut to the path of 2.
AllAndWide == 0..3 \union {6}
=============================================================================
