------------------------- MODULE MCDiagnosticServer -------------------------
(***************************************************************************)
(* Images of up to three bytes, received in blocks of one or two through a *)
(* buffer of two; a checksum that images can share; two signed images.     *)
(***************************************************************************)
EXTENDS DiagnosticServer

MCBytes == {0, 1}
MCSigned == {<<0, 1>>, <<1, 0, 1>>}
MCSizes == {0, 2, 3, 4, 5}
MCDataBlocks == {<< >>, <<0>>, <<1>>, <<0, 1>>, <<1, 1, 1>>}
MCCrc32(bytes) == Len(SelectSeq(bytes, LAMBDA b : b = 1)) % 2
MCChecksums == {0, 1}
MCFunctions == {"kLeftIndicator", "kHazardLamp", "kParkLamp"}
=============================================================================
