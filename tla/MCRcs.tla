-------------------------------- MODULE MCRcs --------------------------------
EXTENDS Rcs
R11 == <<1, 1>>
R12 == <<1, 2>>
R13 == <<1, 3>>
B1 == <<1, 2, 2, 1>>
B2 == <<1, 2, 2, 2>>
B4 == <<1, 2, 4, 1>>
N1 == <<1, 2, 2, 1, 2, 1>>
TheRevs == {R11, R12, R13, B1, B2, B4, N1}
\* Lines come and go at the beginning, in the middle and at the end.
TheContents == {
    R11 :> <<>> @@ R12 :> <<"p", "q">> @@ R13 :> <<"q", "p", "q", "r">>
      @@ B1 :> <<"r", "p">> @@ B2 :> <<"p">> @@ B4 :> <<"p", "r", "q">> @@ N1 :> <<"p", "r">>,
    R11 :> <<"p", "p", "q">> @@ R12 :> <<"q", "p">> @@ R13 :> <<"q">>
      @@ B1 :> <<"q", "p", "p">> @@ B2 :> <<>> @@ B4 :> <<"q", "r">> @@ N1 :> <<"r">>}
\* The second branch is older than the first one.
TheDate(r) == CASE r = R11 -> 1 [] r = R12 -> 2 [] r = R13 -> 7
                [] r = B1 -> 5 [] r = B2 -> 6 [] r = N1 -> 8 [] OTHER -> 4
=============================================================================
