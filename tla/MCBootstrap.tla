---------------------------- MODULE MCBootstrap ----------------------------
\* Bootstrap with two servers on one data directory, the first administrator and
\* another account.  Two salts more than the command line may draw are enough for
\* the servers: each inserts once at most.
EXTENDS Bootstrap, TLC

CONSTANTS p1, p2, admin, other

MCProcess == {p1, p2}
MCName == {admin, other}
MCRole == {"editor", "admin"}
MCNoId == {}
MCMaxFresh == MaxCommands + 2
============================================================================
