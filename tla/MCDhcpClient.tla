---------------------------- MODULE MCDhcpClient ----------------------------
(***************************************************************************)
(* Small instances of DhcpClient.                                          *)
(***************************************************************************)
EXTENDS DhcpClient

MCUnknown    == <<"unknown">>
MCRandomUniq == {}
=============================================================================
