------------------------------ MODULE MCTrading ------------------------------
(* A small instance of trading for TLC.                                    *)
EXTENDS Trading

FewTargets == {-2, 0, 1}
FewConditions == <<"first", "second">>
=============================================================================
