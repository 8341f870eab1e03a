------------------------------- MODULE MCDevIo -------------------------------
EXTENDS DevIo, TLC
CONSTANTS d1, d2, v1, v2
OneEach == v1 :> d1 @@ v2 :> d2
Short == <<1>>
Long == <<1, 2>>
ShortOnly == {Short}
BothNames == {Short, Long}
AllRequests == {<<>>, Short}
EmptyRequest == {<<>>}
ProcSymmetry == Permutations(Procs)
=============================================================================
