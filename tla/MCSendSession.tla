---------------------------- MODULE MCSendSession ----------------------------
(* Two threads, two lines, a config for the second line and a malformed one; *)
(* a REV 008345 address of twelve symbols, a short raw codeword, and calls   *)
(* that the argument checks refuse.                                          *)
EXTENDS SendSession, TLC

CONSTANTS t1, t2, l1, l2, cfg2, cfgBad

MCThreads   == {t1, t2}
MCLines     == {l1, l2}
MCConfigs   == {cfg2, cfgBad}
MCLineOf    == (cfg2 :> l2) @@ (cfgBad :> NoLine)
MCAddresses == {<<0, 3, 2, 1>>, <<0, 4, 0, 0>>}
MCRawCalls  == {<< <<"1", "F">>, 350>>, << <<"f">>, 350>>, << <<"0">>, 49>>}
=============================================================================
