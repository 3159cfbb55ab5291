---------------------------- MODULE MCSyncSession ----------------------------
(* Small instances of SyncSession: three files, one of them empty. *)
EXTENDS SyncSession, TLC

CONSTANTS a, b, c

FilesABC == <<a, b, c>>
Sizes == (a :> 2) @@ (b :> 0) @@ (c :> 1)
=============================================================================
