---------------------------- MODULE MCHalNorflash ----------------------------
EXTENDS HalNorflash

\* A page has 2 cells, a sector 4, a block 8, the chip 16.
\* Erases: one sector from its middle, a block, a block and a sector that is
\* not at a block boundary, the last sector, the chip, beyond its end.
MCEraseRange == {<<5, 1>>, <<8, 4>>, <<0, 8>>, <<4, 8>>, <<3, 9>>, <<12, 4>>,
                 <<0, 16>>, <<14, 4>>, <<16, 1>>}

\* Writes: within a page, across one and two page boundaries, the last cells,
\* beyond the end.
MCWriteRange == {<<0, 4>>, <<1, 1>>, <<1, 4>>, <<3, 5>>, <<8, 2>>, <<7, 4>>,
                 <<13, 3>>, <<15, 2>>, <<17, 1>>}

MCSuspendRange == {r \in MCEraseRange \cup MCWriteRange : r[1] + r[2] <= 12}

=============================================================================
