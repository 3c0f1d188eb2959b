----------------------------- MODULE MCTcpSocket -----------------------------
(***************************************************************************)
(* TcpSocket for TLC.  Two workers, because two jobs of one socket may run  *)
(* at once; two requests, a FIN and a RST give up to three messages and a   *)
(* close event, so that the loop counts references while the application    *)
(* is still sending.  Workers are interchangeable; the liveness runs use    *)
(* one request and no symmetry.                                             *)
(***************************************************************************)
EXTENDS TcpSocket, TLC

Symmetry == Permutations(Workers)
===============================================================================
