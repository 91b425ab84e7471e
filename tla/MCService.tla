------------------------------ MODULE MCService ------------------------------
(***************************************************************************)
(* Small instances of Service.                                             *)
(***************************************************************************)
EXTENDS Service, TLC

CONSTANTS good, text, other, list

KindOf ==
  good :> "valid" @@ text :> "notJson" @@ other :> "unknown" @@ list :> "poison"
MessageKind == [m \in Message |-> KindOf[m]]
=============================================================================
