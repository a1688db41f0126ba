------------------------------- MODULE Portal -------------------------------
\* What the component modules have in common: the value of an empty column.
EXTENDS Integers, FiniteSets, Sequences

CONSTANT None
=============================================================================
