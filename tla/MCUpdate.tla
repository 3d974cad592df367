------------------------------ MODULE MCUpdate ------------------------------
EXTENDS Update
A == <<1, 1, 1>>
B == <<1, 2>>
C == <<2, 1>>
TheFiles == {A, B, C}
TheRcsFiles == {A, B}
TheLimits == {-1, 1}
=============================================================================
