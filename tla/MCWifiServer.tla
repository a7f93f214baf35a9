---------------------------- MODULE MCWifiServer ----------------------------
EXTENDS WifiServer

(* A short name and password: two fragments, of which the first no longer  *)
(* fits when it is written a second time.                                  *)
MCPkgLen == [request |-> 30]

=============================================================================
