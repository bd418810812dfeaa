------------------------------ MODULE MCRouter ------------------------------
(***************************************************************************)
(* Small instances of Router.  No section of it has random keys.           *)
(***************************************************************************)
EXTENDS Router, CfEngineInv

MCUnknown    == <<"unknown">>
MCRandomUniq == {}
=============================================================================
