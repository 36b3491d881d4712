--------------------------- MODULE MCWifiManager ---------------------------
(* WifiManager for TLC.  Networks are interchangeable.                     *)
EXTENDS WifiManager, TLC

Networks == Permutations(Creds)
=============================================================================
