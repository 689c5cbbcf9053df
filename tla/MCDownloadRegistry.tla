------------------------- MODULE MCDownloadRegistry -------------------------
EXTENDS DownloadRegistry

CONSTANTS d1, d2, d3, d4

DownloadSymmetry == Permutations(Download)
=============================================================================
