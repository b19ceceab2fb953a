--------------------------- MODULE MCGeometryStore ---------------------------
\* One vertex heap and the index heap.  The first capacity is no multiple of the
\* vertex stride; a second upload makes the vertex heap grow;
\* the first index upload is larger than the first capacity.
EXTENDS GeometryStore, TLC

CONSTANTS v, i

MCNames == {v}
MCStride == v :> 2 @@ i :> 1
MCCounts == v :> {1} @@ i :> {4}
=============================================================================
