-------------------------- MODULE MCTransferWorker --------------------------
\* Small instances of TransferWorker.
EXTENDS TransferWorker

CONSTANTS c1, c2

JobOf(token, group, bytes) == [token |-> token, group |-> group, bytes |-> bytes]

\* Unordered work, an ordered job that fills a batch on its own (BatchBytes is
\* 3), and a second group.
MCJob == {JobOf(0, 1, 1), JobOf(1, 1, 3), JobOf(2, 2, 1)}
=============================================================================
