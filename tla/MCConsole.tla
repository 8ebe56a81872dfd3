------------------------------- MODULE MCConsole ------------------------------
EXTENDS Console
===============================================================================
