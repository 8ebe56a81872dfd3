-------------------------------- MODULE MCFile --------------------------------
EXTENDS File
===============================================================================
