---------------------------- MODULE MCSessions ----------------------------
\* Sessions with two usernames and two browsers, so that an account can be
\* signed in to twice and one administrator can act on another.
EXTENDS Sessions, TLC

CONSTANTS n1, n2, b1, b2, i1, r1

MCName == {n1, n2}
MCRole == {"editor", "admin"}
MCBrowser == {b1, b2}
MCInviteId == {i1}
MCResetId == {r1}

Symmetry == Permutations(MCName) \cup Permutations(MCBrowser)
===========================================================================
