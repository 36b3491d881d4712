---------------------------- MODULE MCMdnsProbe ----------------------------
(* MdnsProbe for TLC.                                                      *)
EXTENDS MdnsProbe

CONSTANTS ap, http, log

(* Two services of different types.                                        *)
OwnType(s) == s
============================================================================
