------------------------------- MODULE MCCerts -------------------------------
(***************************************************************************)
(* Three issues of key material, one removal, one interrupted command and  *)
(* one name beside the local ones: enough for a bundle to be generated,    *)
(* replaced or imported over, and rotated twice.                           *)
(***************************************************************************)
EXTENDS CertsProperties

MCGiven == {{"ca.crt", "server.crt", "server.key"}, {"server.crt", "server.key"}, {"ca.crt"}}
=============================================================================
