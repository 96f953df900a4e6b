--------------------------- MODULE MCUnitsOfWork ----------------------------
EXTENDS UnitsOfWork
=============================================================================
