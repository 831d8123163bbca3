----------------------------- MODULE AtomicFile -----------------------------
(***************************************************************************)
(* How a file is replaced: coupon.WriteIndex and the local branch of       *)
(* pipeline's publish.  Temporary file in the same directory, write,       *)
(* fsync, close, chmod, rename, and in WriteIndex an fsync of the          *)
(* directory whose error is ignored.  Several processes may replace the    *)
(* same path, and servers load it meanwhile.                               *)
(*                                                                         *)
(* A version is an inode.  data[v] is what a process reads from it,        *)
(* stable[v] whether that has reached the disk.  Changes of directories    *)
(* and modes reach the disk in the order they are made, some time after:   *)
(* behind holds the versions a power loss may leave at the path.           *)
(***************************************************************************)
EXTENDS Integers

CONSTANTS Writers,     \* processes that replace the file
          DirSyncers,  \* those of them that run WriteIndex
          Versions,    \* the inodes; 0 is the file there is at first
          Torn         \* what LoadIndex refuses

ASSUME FileAssumption == /\ DirSyncers \subseteq Writers
                         /\ 0 \in Versions
                         /\ Torn \notin Versions

VARIABLES
    wpc,     \* the last thing that a writer has done
    ino,     \* its temporary file
    made,    \* versions that have been made
    data,    \* "none", "part" or "whole"
    stable,  \* versions whose data was synced
    public,  \* versions with mode 0644
    path,    \* the version at the path
    behind,
    renames, \* history: how many there were,
    rank,    \*     the number of each version's,
    kept     \*     and the versions whose rename was synced

inodes == <<ino, made, data, stable, public>>
dir == <<path, behind, renames, rank>>
fileVars == <<wpc, inodes, dir, kept>>

Whole(v) == data[v] = "whole" /\ v \in public

-----------------------------------------------------------------------------
(* Rules of the code, some preceded by a faulty variant.                   *)

\* tmp.Sync, before the rename.
SyncedUnsynced(v) == stable
Synced(v) == stable \cup {v}

\* os.Chmod, before the rename: CreateTemp yields 0600.
Chmoded(v) == public \cup {v}

\* A write that fails leaves its temporary file, which is removed.
AfterShortWriteAsIs == "written"
AfterShortWrite == "idle"

\* d.Sync of the directory.
DirSyncedNot == behind
DirSynced == {path}

-----------------------------------------------------------------------------

FileInit == /\ wpc = [w \in Writers |-> "idle"]
            /\ ino = [w \in Writers |-> 0]
            /\ made = {0}
            /\ data = [v \in Versions |-> IF v = 0 THEN "whole" ELSE "none"]
            /\ stable = {0} /\ public = {0}
            /\ path = 0 /\ behind = {0}
            /\ renames = 0 /\ rank = [v \in Versions |-> 0]
            /\ kept = {}

Do(w, from, to) == wpc[w] = from /\ wpc' = [wpc EXCEPT ![w] = to]

\* A name and an inode that nobody else has.
CreateTemp(w) == \E v \in Versions \ made :
    /\ Do(w, "idle", "created")
    /\ ino' = [ino EXCEPT ![w] = v]
    /\ made' = made \cup {v}
    /\ UNCHANGED <<data, stable, public, dir, kept>>

Write(w) == /\ Do(w, "created", "written")
            /\ data' = [data EXCEPT ![ino[w]] = "whole"]
            /\ UNCHANGED <<ino, made, stable, public, dir, kept>>

\* The disk is full: a part of the data is in the file.
WriteFails(w) == /\ Do(w, "created", AfterShortWrite)
                 /\ data' = [data EXCEPT ![ino[w]] = "part"]
                 /\ UNCHANGED <<ino, made, stable, public, dir, kept>>

Sync(w) == /\ Do(w, "written", "synced")
           /\ stable' = Synced(ino[w])
           /\ UNCHANGED <<ino, made, data, public, dir, kept>>

\* Close, then Chmod.
Chmod(w) == /\ Do(w, "synced", "chmoded")
            /\ public' = Chmoded(ino[w])
            /\ UNCHANGED <<ino, made, data, stable, dir, kept>>

\* publish returns what Rename returns.
Rename(w) == /\ Do(w, "chmoded", IF w \in DirSyncers THEN "renamed" ELSE "idle")
             /\ path' = ino[w]
             /\ behind' = behind \cup {ino[w]}
             /\ renames' = renames + 1
             /\ rank' = [rank EXCEPT ![ino[w]] = renames + 1]
             /\ UNCHANGED <<inodes, kept>>

SyncDir(w) == /\ Do(w, "renamed", "idle")
              /\ behind' = DirSynced
              /\ kept' = kept \cup {ino[w]}
              /\ UNCHANGED <<inodes, path, renames, rank>>

\* The directory cannot be opened or synced: nobody is told.
SyncDirFails(w) == /\ Do(w, "renamed", "idle")
                   /\ UNCHANGED <<inodes, dir, kept>>

\* An error before the rename, or the death of the process at any point.  The
\* temporary file is removed or stays, under a name that nobody reads.
Abandon(w) == /\ wpc[w] # "idle"
              /\ wpc' = [wpc EXCEPT ![w] = "idle"]
              /\ UNCHANGED <<inodes, dir, kept>>

-----------------------------------------------------------------------------

\* The kernel writes the directory back by itself.
WriteBack == /\ behind # {path}
             /\ behind' = {path}
             /\ UNCHANGED <<wpc, inodes, path, renames, rank, kept>>

\* Of data that was not synced any part may be lost.
PowerLoss ==
    /\ wpc' = [w \in Writers |-> "idle"]
    /\ path' \in behind
    /\ behind' = {path'}
    /\ data' \in [Versions -> {"none", "part", "whole"}]
    /\ \A v \in Versions : v \in stable \/ data[v] = "none" => data'[v] = data[v]
    /\ UNCHANGED <<ino, made, stable, public, renames, rank, kept>>

Replacing(w) == \/ CreateTemp(w) \/ Write(w) \/ WriteFails(w) \/ Sync(w) \/ Chmod(w)
                \/ Rename(w) \/ SyncDir(w) \/ SyncDirFails(w) \/ Abandon(w)

FileNext == (\E w \in Writers : Replacing(w)) \/ WriteBack \/ PowerLoss

FileSpec == FileInit /\ [][FileNext]_fileVars

-----------------------------------------------------------------------------

FileTypeOK == /\ wpc \in [Writers -> {"idle", "created", "written", "synced", "chmoded", "renamed"}]
              /\ ino \in [Writers -> Versions]
              /\ made \subseteq Versions /\ stable \subseteq made /\ public \subseteq stable
              /\ data \in [Versions -> {"none", "part", "whole"}]
              /\ path \in behind /\ behind \subseteq Versions
              /\ renames \in Nat /\ rank \in [Versions -> 0 .. renames]
              /\ kept \subseteq Versions

\* "A crash at any point leaves either the old file or the new file - never a
\* torn one" (the comment of WriteIndex): whatever has not reached the disk,
\* every version that is at the path, or would be after a power loss, is
\* whole, and readable by a server that does not run as root.
NeverTorn == \A v \in behind : Whole(v)

\* A replacement whose directory was synced is never undone by a power loss:
\* only later ones take its place.
SyncedStays == \A v \in kept, u \in behind : rank[v] <= rank[u]

\* The steps of a replacement amount to one atomic step at the rename, as the
\* other modules have it: what LoadIndex finds at the path goes from one whole
\* version to another.
Seen(v) == IF Whole(v) THEN v ELSE Torn
Replaced == INSTANCE AtomicReplace
            WITH Version <- Versions, file <- Seen(path), behind <- {Seen(v) : v \in behind}
ImplementsAtomicReplace == Replaced!ASpec
=============================================================================
