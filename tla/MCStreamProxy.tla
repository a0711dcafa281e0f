---------------------------- MODULE MCStreamProxy ----------------------------
(* StreamProxy with a few requests.                                        *)
EXTENDS StreamProxy
=============================================================================
