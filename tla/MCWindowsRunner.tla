--------------------------- MODULE MCWindowsRunner ---------------------------
EXTENDS WindowsRunner
=============================================================================
