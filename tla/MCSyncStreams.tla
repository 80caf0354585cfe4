---------------------------- MODULE MCSyncStreams ----------------------------
(***************************************************************************)
(* Two entities in one group of categories, another group without any; one *)
(* entity of each stream exists at the start, the other may be created.    *)
(* A hybrid list may answer whatever the lists of the plain and of the     *)
(* scheduled transactions may, and more.                                   *)
(***************************************************************************)
EXTENDS SyncStreams, TLC

CONSTANTS e1, e2

OneGroup == e1 :> 1 @@ e2 :> 1
OneEntity == {{e1}}
=============================================================================
