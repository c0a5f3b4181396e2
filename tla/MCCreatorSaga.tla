---------------------------- MODULE MCCreatorSaga ----------------------------
(* Small instances of CreatorSaga: two requests whose tokens differ, or two *)
(* whose long keys are cut off to the same token.                           *)
EXTENDS CreatorSaga

CONSTANTS k1, k2, t1, t2

OwnToken    == [k \in {k1, k2} |-> IF k = k1 THEN t1 ELSE t2]
SharedToken == [k \in {k1, k2} |-> t1]
OwnTokens   == {OwnToken}
AllTokens   == {OwnToken, SharedToken}
=============================================================================
