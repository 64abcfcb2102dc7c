-------------------------- MODULE MCContentImport --------------------------
\* Lists of two rows: unnumbered, and with numbers of their own that collide
\* with what the import gives.
EXTENDS ContentImport

MCPayloads == {<< >>, <<Omitted, Omitted>>, <<Omitted, 3>>}
=============================================================================
