--------------------------- MODULE MCReceiptLocator ---------------------------
EXTENDS ReceiptLocator

ShiftsMC == {-1, 0, 1}
=============================================================================
