------------------------------- MODULE MCProxy -------------------------------
EXTENDS Proxy
===============================================================================
