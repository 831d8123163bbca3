--------------------------- MODULE AtomicReplace ---------------------------
(***************************************************************************)
(* What WriteIndex and publish promise of the file at a path: "a crash at  *)
(* any point leaves either the old file or the new file - never a torn     *)
(* one".  The file is always a whole version.  A power loss may take it    *)
(* back, but only to a version it had since the directory was last synced. *)
(***************************************************************************)
CONSTANT Version

VARIABLES file,   \* the version at the path
          behind  \* the versions that a power loss may leave there

AInit == file \in Version /\ behind = {file}

Replace == /\ file' \in Version \ {file}
           /\ behind' = behind \cup {file'}

Settle == file' = file /\ behind' = {file}

TakeBack == /\ file' \in behind
            /\ behind' = {file'}

ANext == Replace \/ Settle \/ TakeBack

ASpec == AInit /\ [][ANext]_<<file, behind>>
=============================================================================
