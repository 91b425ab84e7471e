------------------------ MODULE MCConnectionManager ------------------------
(***************************************************************************)
(* Small instances of ConnectionManager.                                   *)
(***************************************************************************)
EXTENDS ConnectionManager

CONSTANTS alice, anonymous, s1, s2, s3, a1, a2

\* s1, s2 and s3 are alice's, a1 and a2 anonymous.
OwnerOf == [s \in Socket |-> IF s \in {s1, s2, s3} THEN alice ELSE Anonymous]
=============================================================================
