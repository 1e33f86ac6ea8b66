--------------------------- MODULE MCAppLifecycle ---------------------------
EXTENDS AppLifecycle, TLC
=============================================================================
