--------------------------- MODULE MC_ConfigCache ---------------------------
(* Two goroutines making two GetConfigObject calls each.                  *)
EXTENDS ConfigCache

CONSTANTS c1, c2

MCCallers == {c1, c2}

\* Every call creates at most one once.
MCMaxOnces == 4

=============================================================================
