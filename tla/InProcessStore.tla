---------------------------- MODULE InProcessStore ----------------------------
(***************************************************************************)
(* The in-process storage engine (pkg/storage/inprocess/store.go), which   *)
(* the tests of the repository use in place of the ConfigMaps: whether     *)
(* there is storage for an application, and the slice of its builds.       *)
(***************************************************************************)
EXTENDS Naturals, Sequences, SequencesExt

Store(exists, list) == [exists |-> exists, list |-> list]

Empty == Store(FALSE, <<>>)

CreateBuild(s, b) == IF s.exists THEN s ELSE Store(TRUE, <<b>>)

\* A build that there is gets a second entry.
UpdateBuild(s, b) == IF s.exists THEN Store(TRUE, Append(s.list, b)) ELSE CreateBuild(s, b)

\* The first entry of the build goes.
DeleteBuild(s, b) ==
  IF s.exists /\ b \in Range(s.list)
    THEN Store(TRUE, RemoveAt(s.list, Min({i \in DOMAIN s.list : s.list[i] = b})))
    ELSE s

DeleteBuilds(s) == Empty

GetBuild(s, b) == s.exists /\ b \in Range(s.list)

\* GetBuilds hands out the slice itself.  DeleteBuild moves what follows the
\* build within it, so that a slice handed out before holds its last build
\* twice.
GetBuilds(s) == s.list

SliceAfterDelete(slice, b) ==
  LET i == Min({j \in DOMAIN slice : slice[j] = b})
  IN  IF b \in Range(slice) THEN Append(RemoveAt(slice, i), Last(slice)) ELSE slice
=============================================================================
