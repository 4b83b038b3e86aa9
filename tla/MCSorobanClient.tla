--------------------------- MODULE MCSorobanClient ---------------------------
EXTENDS SorobanClient

\* Two rival lifecycle writes, a write without an edge, a read, a simulation.
MCRequests == {<<"write", "fund_invoice">>, <<"write", "deposit">>, <<"read", "get">>,
               <<"simulate", "fund_invoice">>}
=============================================================================
