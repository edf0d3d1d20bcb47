-------------------------- MODULE MCClientFailover --------------------------
EXTENDS ClientFailover

CONSTANT a

TwoDeep == {<< >>, <<a>>, <<a, a>>}
==============================================================================
