------------------------------- MODULE MCIndexer -------------------------------
EXTENDS Indexer, TLC

CONSTANTS t1, t2

\* A release alone, and a release with its sale.
ReleaseAndSale == {<<"release">>, <<"sale", "release">>}
=============================================================================
