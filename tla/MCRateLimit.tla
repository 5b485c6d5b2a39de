---------------------------- MODULE MCRateLimit ----------------------------
\* RateLimit with a map of two buckets, and a third client to find it full.
EXTENDS RateLimit

CONSTANTS c1, c2, c3

MCClient == {c1, c2, c3}
============================================================================
