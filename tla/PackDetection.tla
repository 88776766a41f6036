---------------------------- MODULE PackDetection ----------------------------
(***************************************************************************)
(* How draft create chooses a pack: the tally of linguist.ProcessDir, the  *)
(* alias of a language, doPackDetection over the repositories, and Find    *)
(* for a pack that is named.  Pure.                                        *)
(*                                                                         *)
(* A file, in the order of the walk, is a record: its size, whether it is  *)
(* ignored, whether its name is that of vendored code or documentation,    *)
(* the language by .gitattributes, by its name and by its contents ("" if  *)
(* none), whether it can be read and whether it is binary.  Names are in   *)
(* lower case: the comparison ignores case.                                *)
(***************************************************************************)
EXTENDS Naturals, SequencesExt

Unknown == "(unknown)"

\* What the walk makes of a file: a language, "skipped", or "stop": the error
\* of a file that cannot be read ends the walk, and is then dropped.
Classify(f) ==
  IF f.ignored \/ f.size = 0 \/ f.vendored THEN "skipped"
  ELSE IF f.attribute # "" THEN f.attribute
  ELSE IF f.byName # "" THEN f.byName
  ELSE IF ~f.readable THEN "stop"
  ELSE IF f.binary THEN "skipped"
  ELSE IF f.byData # "" THEN f.byData
  ELSE Unknown

\* The indices of the files that the walk gets to.
Walked(files) ==
  {i \in DOMAIN files : \A j \in 1 .. i : Classify(files[j]) # "stop"}

CountedFiles(files) == {i \in Walked(files) : Classify(files[i]) # "skipped"}

Languages(files) == {Classify(files[i]) : i \in CountedFiles(files)}

BytesOf(files, l) ==
  MapThenSumSet(LAMBDA i : files[i].size, {i \in CountedFiles(files) : Classify(files[i]) = l})

\* langs: language |-> the bytes counted for it.
Tally(files) == [l \in Languages(files) |-> BytesOf(files, l)]

\* ProcessDir: the languages by percentage.  The map is in any order and the
\* sort is not stable, so that equals may come in any order.
ProcessDir(files) ==
  LET tally == Tally(files)
  IN  {order \in SetToSeqs(DOMAIN tally) :
         \A i, j \in DOMAIN order : i < j => tally[order[i]] >= tally[order[j]]}

Alias(l) == CASE l = "maven pom" -> "java" [] l = "c#" -> "csharp" [] OTHER -> l

\* A repository is the set of its packs, in the order of FindRepositories.
NoPack == "no_pack"

\* A mutant of DoPackDetection: the first repository with a pack for any of
\* the languages.
RepositoryFirst(langs, repositories) ==
  LET fits == {r \in DOMAIN repositories : \E i \in DOMAIN langs : Alias(langs[i]) \in repositories[r]}
  IN  IF fits = {} THEN NoPack
      ELSE LET r == Min(fits)
           IN  CHOOSE pack \in repositories[r] : \E i \in DOMAIN langs : Alias(langs[i]) = pack

\* doPackDetection: the first language that any repository has a pack for.
DoPackDetection(langs, repositories) ==
  LET packs == UNION Range(repositories)
      known == {i \in DOMAIN langs : Alias(langs[i]) \in packs}
  IN  IF known = {} THEN NoPack ELSE Alias(langs[Min(known)])

\* Find, and its callers' error for none and for several.
FindPack(name, repositories) ==
  IF Cardinality({r \in DOMAIN repositories : name \in repositories[r]}) = 1
    THEN name ELSE NoPack

\* What the detection is for: no other language with a pack has more bytes.
IsBestPack(pack, files, repositories) ==
  LET tally == Tally(files)
      packs == UNION Range(repositories)
  IN  \E l \in DOMAIN tally :
        /\ Alias(l) = pack
        /\ \A m \in DOMAIN tally \ {l} : Alias(m) \in packs => tally[m] <= tally[l]
=============================================================================
