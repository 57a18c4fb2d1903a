----------------------------- MODULE MCFileCache -----------------------------
\* Both views show alice, and the one of the messages also bob.
EXTENDS FileCache

MCShown == [v \in View |-> IF v = "messages" THEN Avatar ELSE {"alice"}]
=============================================================================
