-------------------------- MODULE MC_LayoutHistory --------------------------
EXTENDS LayoutHistory

\* All sizes of a small geometry, and the first two that are too large.
EverySize == 0..(MaxFileSize + 2)
=============================================================================
