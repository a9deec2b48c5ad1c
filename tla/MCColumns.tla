----------------------------- MODULE MCColumns -----------------------------
EXTENDS ColumnModels, TLC

CONSTANTS x, y, r1, r2, r3

MCExtraHeaders == <<x, y>>
MCUnder == r1 :> Top @@ r2 :> Top @@ r3 :> r1
MCSymmetry == Permutations(ColumnIds)
============================================================================
