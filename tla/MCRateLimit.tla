---------------------------- MODULE MCRateLimit ----------------------------
(* Constants of RateLimit for TLC: a limit of two requests in a window of  *)
(* two ticks stands for 100 requests a minute.                             *)
EXTENDS RateLimit, TLC

CONSTANTS p1, p2, i1, i2

MCIPs == {i1, i2}
OneIP == {i1}
OneProc == {p1}
TwoProcs == {p1, p2}
IPSymmetry == Permutations(MCIPs)
ProcSymmetry == Permutations(TwoProcs)

=============================================================================
