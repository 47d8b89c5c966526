--------------------------------- MODULE MCConn ---------------------------------
(* TLSConn for TLC: the actors are model values of the .cfg files. *)
EXTENDS TLSConn
================================================================================
