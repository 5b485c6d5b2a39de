---------------------------- MODULE MCAccounts ----------------------------
\* Accounts with two usernames, which is enough for one to be recreated while
\* the other lives, one invitation and two reset links, so that a link can replace another.
EXTENDS Accounts, TLC

CONSTANTS n1, n2, i1, r1, r2

MCName == {n1, n2}
MCRole == {"editor", "admin"}
MCInviteId == {i1}
MCResetId == {r1, r2}

Symmetry == Permutations(MCName) \cup Permutations(MCResetId)
===========================================================================
