------------------------------- MODULE MCUpkeep -------------------------------
EXTENDS Upkeep

CONSTANTS k1, k2, n1, n2, x1, x2, p1, c1, c2

MCUse == {{"user", "review"}, {"merchant", "merchant review"}, {"admin"}, {"settings"}, {"rates"}, {"limit"}}
================================================================================
