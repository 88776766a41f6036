------------------------------ MODULE MCCluster ------------------------------
(* The two parts of draft that write objects of a cluster by themselves:   *)
(* the storage engine and the release stage.  They share none, so that a   *)
(* behaviour is one of one of them, and the other stays as it began.       *)
EXTENDS ConfigMapStore, ReleaseStage, Sequences

CONSTANTS c1, c2, b1, b2

TwoClients   == {c1, c2}
TwoBuilds    == {b1, b2}

-----------------------------------------------------------------------------
(* The in-process engine, in place of this one.                            *)

InProcess == INSTANCE InProcessStore

InProcessSteps(s, b) ==
  { InProcess!CreateBuild(s, b), InProcess!UpdateBuild(s, b), InProcess!DeleteBuild(s, b),
    InProcess!DeleteBuilds(s) }

Stored(n) ==
  LET after[k \in 0 .. n] ==
        IF k = 0 THEN {InProcess!Empty}
        ELSE UNION {InProcessSteps(s, b) : s \in after[k - 1], b \in {1, 2}}
  IN  after[n]

StoredBuilds(s) == {b \in {1, 2} : InProcess!GetBuild(s, b)}

\* It keeps the promise of BuildHistory as long as no build is updated that is
\* there: then every operation adds one build, removes it, clears the storage
\* or changes nothing.  A build that was updated is still there when deleted.
ASSUME InProcessKeepsHistory ==
  \A s \in Stored(4), b \in {1, 2} :
    /\ \A t \in InProcessSteps(s, b) :
         StoredBuilds(t) \in {{}, StoredBuilds(s), StoredBuilds(s) \union {b}, StoredBuilds(s) \ {b}}
    /\ Cardinality(StoredBuilds(s)) = Len(InProcess!GetBuilds(s)) =>
         ~InProcess!GetBuild(InProcess!DeleteBuild(s, b), b)
    /\ s.exists => InProcess!GetBuild(InProcess!DeleteBuild(
                     InProcess!UpdateBuild(InProcess!UpdateBuild(s, b), b), b), b)

\* A slice that was handed out before a deletion keeps its length: what follows
\* the build moves up, and the last one is there twice.
ASSUME SliceMoves ==
  \A s \in Stored(4) : \A b \in StoredBuilds(s) :
    LET before == InProcess!GetBuilds(s)
        slice  == InProcess!SliceAfterDelete(before, b)
    IN  /\ Len(slice) = Len(before)
        /\ b = before[1] /\ Len(slice) > 1 => slice[Len(slice)] = slice[Len(slice) - 1]

-----------------------------------------------------------------------------

VARIABLE subject

allVars == <<vars, releaseVars, subject>>

\* One initial state is enough of what is not the subject.
InitCluster ==
  /\ subject \in {"store", "release"}
  /\ Init /\ InitRelease
  /\ subject = "release" => build = [c \in Clients |-> b1]
  /\ subject = "store" => ~ns /\ revs = {}

NextCluster ==
  \/ subject = "store" /\ Next /\ UNCHANGED <<releaseVars, subject>>
  \/ subject = "release" /\ NextRelease /\ UNCHANGED <<vars, subject>>

SpecCluster == InitCluster /\ [][NextCluster]_allVars
=============================================================================
