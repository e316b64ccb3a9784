------------------------------ MODULE MCWorld ------------------------------
\* The places for World's checks: the middle of a map of nine cells sees all of
\* it; the corner and the edge do not see each other.
EXTENDS World

MCPlaces == {<<0, 0>>, <<1, 1>>, <<2, 1>>}
=============================================================================
