----------------------------- MODULE MCPromises -----------------------------
\* One aggregate and its two coils, one of them still to be received.
EXTENDS Promises, TLC

CONSTANTS c1, c2, s1, h1

CoilMatches == s1 :> {c1, c2}
OneFor      == h1 :> s1
OneKg       == [i \in Items |-> 1]
=============================================================================
