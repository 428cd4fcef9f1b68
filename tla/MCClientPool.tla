---------------------------- MODULE MCClientPool ----------------------------
(***************************************************************************)
(* Small instances of ClientPool for TLC: two clients and one request for  *)
(* what the background tasks do to one another, one client and two         *)
(* requests for what they do to a client in use.                           *)
(***************************************************************************)
EXTENDS ClientPool
=============================================================================
