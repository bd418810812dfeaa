----------------------------- MODULE MCCfEngine -----------------------------
(***************************************************************************)
(* Small instances of CfEngine.  Three sections: "if" depends on nothing,  *)
(* "addr" on an "if", and "nat" on an "if" and on an "addr", so that one   *)
(* change can reach a "nat" item along two ways.  "if" and "addr" take     *)
(* their key from a field; "nat" has no key field and gets a random key at *)
(* every change.                                                           *)
(***************************************************************************)
EXTENDS CfEngineInv

CONSTANTS IfNames, AddrNames, NatKeys     \* the keys of each section

MCPath  == {"if", "addr", "nat"}
MCUniq  == IfNames \cup AddrNames \cup NatKeys \cup {Unknown}
MCField == {"interface", "address"}
MCData  == MCUniq

MCDepFields(p) == CASE p = "if" -> {} [] p = "addr" -> {"interface"} [] OTHER -> MCField
MCParent(p, f) == IF f = "interface" THEN "if" ELSE "addr"
MCRank(p) == CASE p = "if" -> 0 [] p = "addr" -> 1 [] OTHER -> 2
MCBuildUniq(p, ci) == IF p = "nat" THEN {} ELSE {ci.data}
MCRemovable(p) == TRUE

\* A field that is no dependency of the section keeps one value.
MCItems(p) ==
    [disabled : BOOLEAN,
     dep : {d \in [MCField -> MCUniq] :
               /\ d["interface"] \in IF p = "if" THEN {Unknown} ELSE IfNames
               /\ d["address"] \in IF p = "nat" THEN AddrNames ELSE {Unknown}},
     data : CASE p = "if" -> IfNames [] p = "addr" -> AddrNames [] OTHER -> {Unknown}]
=============================================================================
