----------------------------- MODULE MCFileData -----------------------------
EXTENDS FileData, TLC
O_RDWR == <<TRUE, TRUE>>
ReadWrite == {O_RDWR}
ShortTexts == {<<1>>, <<2, 1, 2, 1>>}
Symmetry == Permutations(Proc) \cup Permutations(Inum)
=============================================================================
