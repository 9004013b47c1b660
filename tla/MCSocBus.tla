------------------------------ MODULE MCSocBus ------------------------------
(***************************************************************************)
(* SocBus with words of three bits, the third in byte lane 2, and every    *)
(* kind of register behind every page.                                     *)
(***************************************************************************)
EXTENDS SocBus

MCBits == {0, 1, 2}
MCPadBits == {0, 2}
MCLane == [b \in MCPadBits |-> IF b = 2 THEN 2 ELSE 0]
MCAdcWords == {{1}}
MCWritten == {{0}, {1, 2}}
MCLowHalf == {0, 1}
MCReset256 == {0}
MCDeadBeef == {0, 2}
MCChipId == {2}
MCSdInfo == {0, 1}

MCReads ==
  [page : {"FFD3"}, offset : {0, 4, 8, 12, 28}, we : {FALSE}, dat : {{}}, sel : {{0, 2}}]
    \union [page : {"FFD1"}, offset : {0, 8}, we : {FALSE}, dat : {{}}, sel : {{0, 2}}]
    \union [page : {"FFD0", "FFD2", "F000"}, offset : {0}, we : {FALSE}, dat : {{}},
            sel : {{0, 2}}]
MCWrites ==
  [page : {"FFD3"}, offset : {0}, we : {TRUE}, dat : MCWritten, sel : {{0, 2}}]
    \union [page : {"FFD3"}, offset : {12}, we : {TRUE}, dat : {{1, 2}}, sel : {{0, 2}}]
    \union [page : {"FFD1"}, offset : {0}, we : {TRUE}, dat : {{0, 2}}, sel : {{0}, {2}}]
    \union [page : {"FFD2"}, offset : {0}, we : {TRUE}, dat : {{0}}, sel : {{0, 2}}]
MCRequests == MCReads \union MCWrites
=============================================================================
