---------------------------- MODULE MCSmsConfig ----------------------------
(* SmsConfig with configuration messages c1 and c2, ordinary message o1.    *)
EXTENDS SmsConfig, TLC

CONSTANTS c1, c2, o1

ThreeMsgs == {c1, c2, o1}
TwoMsgs == {c1, o1}
OneConfig == {c1}
TwoConfigs == {c1, c2}

ConfigSymmetry == Permutations(TwoConfigs)
=============================================================================
