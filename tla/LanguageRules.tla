---------------------------- MODULE LanguageRules ----------------------------
(***************************************************************************)
(* What pkg/linguist makes of one file of the application: the rules of    *)
(* .gitignore and .gitattributes, the tables of names, extensions and      *)
(* interpreters, and the classifier.  Pure; it gives PackDetection the     *)
(* records that it tallies.                                                *)
(*                                                                         *)
(* A name is a stem and an extension, a path the sequence of its names,    *)
(* and a pattern a sequence of the same form in which "*" stands for any.  *)
(***************************************************************************)
EXTENDS Naturals, Sequences, FiniteSets, SequencesExt

Name(stem, ext) == [stem |-> stem, ext |-> ext]

Top == <<Name(".", "")>>   \* the directory that is walked

\* filepath.Match: a star does not cross a separator, so that a pattern matches
\* at its own depth only.
Match(pattern, path) ==
  /\ Len(pattern) = Len(path)
  /\ \A i \in DOMAIN path : /\ pattern[i].stem \in {"*", path[i].stem}
                            /\ pattern[i].ext \in {"*", path[i].ext}

-----------------------------------------------------------------------------
(* initLinguistAttributes.  A line of .gitignore is blank, a pattern to be *)
(* ignored or an exception; one of .gitattributes gives a pattern an       *)
(* attribute, "documentation", "vendored" or "generated", true or false,   *)
(* or "language".  Lines that are not of two words are left out.           *)

PatternsOf(lines, kinds) == {l.pattern : l \in {k \in lines : k.kind \in kinds}}

\* The last line for a pattern gives its language.
Detected(attributes) ==
  LET of(p) == {i \in DOMAIN attributes : attributes[i].kind = "language" /\ attributes[i].pattern = p}
  IN  [p \in PatternsOf(Range(attributes), {"language"}) |-> attributes[Max(of(p))].value]

InitLinguistAttributes(gitignore, attributes) ==
  LET generated == {l \in Range(attributes) : l.value # "false"}
  IN  [ ignore |-> PatternsOf(Range(gitignore), {"ignore"})
                     \union PatternsOf(generated, {"documentation", "vendored", "generated"}),
        except |-> PatternsOf(Range(gitignore), {"except"}),
        detected |-> Detected(attributes) ]

\* Exceptions win, wherever their lines are.
IsIgnored(rules, path) ==
  /\ \E p \in rules.ignore : Match(p, path)
  /\ ~\E p \in rules.except : Match(p, path)

\* The map is in any order: with several patterns any of their languages.
IsDetectedInGitAttributes(rules, path) ==
  LET fits == {p \in DOMAIN rules.detected : Match(p, path)}
  IN  IF fits = {} THEN {""} ELSE {rules.detected[p] : p \in fits}

\* filepath.Walk does not descend into a directory that is ignored, the top
\* one included, or is called .git.
Reached(rules, path) ==
  /\ ~IsIgnored(rules, Top)
  /\ \A n \in 1 .. Len(path) - 1 :
       ~IsIgnored(rules, SubSeq(path, 1, n)) /\ path[n] # Name("", "git")

-----------------------------------------------------------------------------
(* The files that are counted, and those of git.                           *)

Counted(lines, path) ==
  LET rules == InitLinguistAttributes(lines, <<>>)
  IN  Reached(rules, path) /\ ~IsIgnored(rules, path)

\* What git makes of patterns that are anchored: for a path and for each
\* directory above it the last line that matches decides.
GitKeeps(lines, path) ==
  \A n \in DOMAIN path :
    LET hits == {i \in DOMAIN lines : Match(lines[i].pattern, SubSeq(path, 1, n))}
    IN  hits # {} => lines[Max(hits)].kind = "except"

\* Every exception has its line after those of what is ignored.
ExceptionsLast(lines) ==
  \A i, j \in DOMAIN lines : lines[i].kind = "except" /\ lines[j].kind = "ignore" => j < i

-----------------------------------------------------------------------------
(* The tables: for a name, an extension or an interpreter the languages    *)
(* that languages.yml lists it under.                                      *)

Listed(table, key) == IF key \in DOMAIN table THEN table[key] ELSE {}

\* The table of names is asked for the whole path, so that it only knows the
\* files at the top.
ByName(tables, path) == IF Len(path) = 1 THEN Listed(tables.filenames, path[1]) ELSE {}
ByExt(tables, path)  == IF Last(path).ext = "" THEN {} ELSE Listed(tables.extensions, Last(path).ext)

The(languages) == IF Cardinality(languages) = 1 THEN CHOOSE l \in languages : TRUE ELSE ""

LanguageByFilename(tables, path) ==
  IF The(ByName(tables, path)) # "" THEN The(ByName(tables, path)) ELSE The(ByExt(tables, path))

LanguageHints(tables, path) == ByName(tables, path) \union ByExt(tables, path)

\* The first line of the contents, which were read into 512 bytes: the zeros
\* after the last line of a shorter file stick to its last word, which is then
\* no interpreter that is listed.  Versions are stripped.
DetectInterpreter(line) ==
  LET argued == line.command = "env" /\ line.argument # ""
      word == IF argued THEN line.argument ELSE line.command
      lastWord == argued \/ line.argument = ""
  IN  IF ~line.shebang \/ (~line.ended /\ lastWord) THEN "" ELSE word

\* The classifier's best classes, among the hints if there are any.  Its first
\* class is the empty name, which the training made and never filled.
Analyse(scores, hints) ==
  LET classes == IF hints = {} THEN DOMAIN scores ELSE DOMAIN scores \cap hints
      best == {c \in classes : \A d \in classes : scores[d] <= scores[c]}
  IN  IF best = {} THEN {""} ELSE best

LanguageByContents(tables, line, scores, hints) ==
  LET known == The(Listed(tables.interpreters, DetectInterpreter(line)))
  IN  IF known # "" THEN {known} ELSE Analyse(scores, hints)

\* A byte below a space, other than a tab, the two ends of a line and the zeros
\* that fill the buffer.
IsBinary(bytes) == \E b \in bytes : b < 32 /\ b \notin {0, 9, 10, 13}

-----------------------------------------------------------------------------

\* What ProcessDir knows of a file, a record of PackDetection.
Descriptions(file, rules, tables) ==
  { [ size |-> file.size,
      ignored |-> ~Reached(rules, file.path) \/ IsIgnored(rules, file.path) \/ file.symlink,
      vendored |-> file.vendored,
      attribute |-> attribute,
      byName |-> LanguageByFilename(tables, file.path),
      readable |-> file.readable,
      binary |-> IsBinary(file.bytes),
      byData |-> byData ] :
    attribute \in IsDetectedInGitAttributes(rules, file.path),
    byData \in LanguageByContents(tables, file.line, file.scores, LanguageHints(tables, file.path)) }

\* The walk over a tree of files, in lexical order.
WalkOf(files, rules, tables) ==
  FoldLeft(LAMBDA listings, f : {Append(l, d) : l \in listings, d \in Descriptions(f, rules, tables)},
           {<<>>}, files)
=============================================================================
