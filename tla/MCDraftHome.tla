----------------------------- MODULE MCDraftHome -----------------------------
EXTENDS DraftHome, LanguageRules, Tokenizer, PackFiles

CONSTANTS t1, t2
Terminals == {t1, t2}
EitherTerminal == Permutations(Terminals)

Cmd(op, item, version) == [op |-> op, item |-> item, version |-> version]

DraftInit == Cmd("init", "", "")

SomeAgendas ==
  { {DraftInit, Cmd("install", "other", ""), Cmd("install", "pack_repo", "^1"),
     Cmd("remove", "pack_repo", ""), Cmd("update", "other", "")},
    {DraftInit, Cmd("set", "registry", ""), Cmd("set", "builder", ""), Cmd("unset", "registry", "")},
    {DraftInit, Cmd("create", "", ""), Cmd("create", "go", "")} }

SomeHomes == {{}, {"pack_repo"}, {"pack_repo", "other", "packs"}}

TwoTags == <<"v1", "v2">>
OneConstraint == "^1" :> {"v1"}
BranchesNow == [pack_repo |-> "v2", other |-> "malformed", packs |-> "v2"]

File(l, size) ==
  [size |-> size, ignored |-> FALSE, vendored |-> FALSE, attribute |-> "", byName |-> l,
   byData |-> "", readable |-> TRUE, binary |-> FALSE]

-----------------------------------------------------------------------------
(* The files of a pack.                                                    *)

PackPaths == {TasksFile, TargetTasksFile, <<"README.md">>, <<"charts", "v">>, <<"d", "README.md">>}

Dirs(contents) == UNION {[paths -> contents] : paths \in SUBSET PackPaths}

\* The application keeps what it had, has a file of tasks in any case, and gets
\* of the pack what it had not, under the same name, but for the tasks.
ASSUME PackSaved ==
  \A dir \in Dirs({"pack", "link"}), dest \in Dirs({"user"}) :
    LET packed == FromDir(dir, {})
        saved == Saved(packed, dest)
        new   == DOMAIN dir \ {TasksFile, <<"README.md">>, <<"charts", "v">>}
    IN  /\ \A path \in DOMAIN dest : saved[path] = dest[path]
        /\ DOMAIN saved = DOMAIN dest \union {TargetTasksFile} \union new
        /\ \A path \in new \ (DOMAIN dest \union {TargetTasksFile}) : saved[path] = Copied(dir[path])

\* A README that cannot be opened fails the pack, although it is not used.
ASSUME EveryFileOpened ==
  LET dir == (<<"README.md">> :> "pack") @@ (<<"charts", "v">> :> "pack")
  IN  /\ FromDir(dir, {<<"README.md">>}) = Failed
      /\ FromDir(dir, {<<"charts", "v">>}) = <<>>

-----------------------------------------------------------------------------
(* The rules of the two files of git.                                      *)

VendorGo == <<Name("vendor", ""), Name("x", "go")>>
Patterns == {<<Name("vendor", "")>>, VendorGo, <<Name("*", "go")>>}
Paths == {<<Name("vendor", "")>>, VendorGo, <<Name("x", "go")>>, <<Name("y", "")>>}

RuleLines == [kind : {"ignore", "except"}, pattern : Patterns]

\* The detection counts the files that git keeps if the exceptions come last,
\* and never fewer.
ASSUME GitignoreRead ==
  \A k, l, m \in RuleLines, path \in Paths :
    LET lines == <<k, l, m>>
    IN  /\ GitKeeps(lines, path) => Counted(lines, path)
        /\ ExceptionsLast(lines) => (Counted(lines, path) <=> GitKeeps(lines, path))

\* A lone star matches the top directory as well, so that nothing is counted,
\* whatever is excepted.
ASSUME StarHidesAll ==
  LET star == [kind |-> "ignore", pattern |-> <<Name("*", "*")>>]
  IN  \A l \in [kind : {"except"}, pattern : Patterns], path \in Paths :
        ~Counted(<<star, l>>, path)

LanguageOf(pattern, language) == [kind |-> "language", pattern |-> pattern, value |-> language]

\* Of two lines of .gitattributes for one pattern the last counts; for two
\* patterns that match, either may.
ASSUME AttributesRead ==
  LET go == LanguageOf(<<Name("*", "go")>>, "go")
      java == LanguageOf(<<Name("*", "go")>>, "java")
      c == LanguageOf(<<Name("x", "*")>>, "c")
      of(lines) == IsDetectedInGitAttributes(InitLinguistAttributes(<<>>, lines), <<Name("x", "go")>>)
  IN  of(<<go, java>>) = {"java"} /\ of(<<java, c, go>>) = {"go", "c"} /\ of(<<>>) = {""}

OurTables ==
  [ filenames |-> Name("Makefile", "") :> {"makefile"},
    extensions |-> [go |-> {"go"}, h |-> {"c", "cpp"}, xml |-> {"maven pom", "xml"}],
    interpreters |-> [python |-> {"python"}, sh |-> {"shell", "bash"}] ]

NoShebang == [shebang |-> FALSE, command |-> "", argument |-> "", ended |-> TRUE]
Env(argument) == [shebang |-> TRUE, command |-> "env", argument |-> argument, ended |-> TRUE]
SomeScores == {[c |-> 2, cpp |-> 1, java |-> 3], [c |-> 1, cpp |-> 1, java |-> 0], [java |-> 1] @@ ("" :> 2)}

\* A language found by the name alone is one of the hints, and the classifier
\* answers with one of them or not at all; an interpreter that stands for one
\* language is stronger than the hints.
ASSUME HintsKept ==
  /\ \A n \in {Name(s, e) : s \in {"Makefile", "x"}, e \in {"", "go", "h"}} :
       \A path \in {<<n>>, <<Name("d", ""), n>>} :
         LET hints == LanguageHints(OurTables, path) IN
           /\ LanguageByFilename(OurTables, path) \in hints \union {""}
           /\ \A scores \in SomeScores :
                /\ hints # {} => Analyse(scores, hints) \subseteq hints \union {""}
                /\ LanguageByContents(OurTables, Env("python"), scores, hints) = {"python"}
  /\ LanguageByFilename(OurTables, <<Name("d", ""), Name("Makefile", "")>>) = ""

OurFile(path, size, line, scores) ==
  [path |-> path, size |-> size, symlink |-> FALSE, vendored |-> FALSE, readable |-> TRUE,
   bytes |-> {0, 10, 97}, line |-> line, scores |-> scores]

\* A pom that is ambiguous by its name, a vendored tree that is ignored, and a
\* script whose first line is not ended.
OurTree ==
  << OurFile(<<Name("main", "go")>>, 1, NoShebang, [c |-> 1]),
     OurFile(<<Name("pom", "xml")>>, 2, NoShebang, ("maven pom" :> 1) @@ [xml |-> 1, c |-> 2]),
     OurFile(<<Name("run", "")>>, 4, [Env("python") EXCEPT !.ended = FALSE], "" :> 1),
     OurFile(VendorGo, 9, NoShebang, [c |-> 1]) >>

OurRules ==
  InitLinguistAttributes(<<[kind |-> "ignore", pattern |-> <<Name("vendor", "")>>],
                           [kind |-> "except", pattern |-> VendorGo]>>, <<>>)

-----------------------------------------------------------------------------
(* The words of a file.                                                    *)

SomeWords ==
  { <<"a">>, <<"0">>, <<"//">>, <<"/*">>, <<"*/">>, <<"dq", "a", "dq">>, <<"sq">>, <<"dq3">>,
    <<"a", "dq">>, <<"dq", "bs", "sq">> }

LinesOf(words) == {<<>>} \union {<<w>> : w \in words} \union {<<v, w>> : v, w \in words}

\* The tokens are words of the input, in its order, that are neither comment nor
\* string nor number; and where there is none of these all of them are tokens.
ASSUME TokensArePlain ==
  \A l, m \in LinesOf(SomeWords) :
    LET tokens == Tokenize(<<l, m>>)
    IN  /\ IsSubsequence(tokens, PlainWords(<<l, m>>))
        /\ Range(l) \union Range(m) \subseteq {<<"a">>, <<"0">>} => tokens = PlainWords(<<l, m>>)

\* What that costs: a string that ends in its own word opens one, as a comment
\* does; a docstring at the beginning of a line is taken for a comment of one
\* line, so that its text is tokens; and the end of a comment is missed on a
\* line that looks like one.
ASSUME TokensLost ==
  /\ Tokenize(<< <<<<"dq", "a", "dq">>, <<"b">>>> >>) = <<>>
  /\ Tokenize(<< <<<<"x">>, <<"dq", "a", "dq">>, <<"b">>>>, << <<"c">> >> >>) = << <<"x">> >>
  /\ Tokenize(<< << <<"dq3">> >>, << <<"a">> >> >>) = << <<"a">> >>
  /\ Tokenize(<< << <<"/*">> >>, << <<"//", "*/">> >>, << <<"a">> >> >>) = <<>>

\* Equal shares, an alias, a language without a pack, a vendored file, and a
\* file that cannot be read before the largest one; and what the tree above
\* comes to.
SomeListings ==
  WalkOf(OurTree, OurRules, OurTables) \union
  { <<File("go", 2), File("maven pom", 2)>>,
    <<File("python", 3), File("go", 1), File("maven pom", 2)>>,
    <<[File("go", 9) EXCEPT !.vendored = TRUE], [File("", 1) EXCEPT !.byData = "java"]>>,
    <<File("go", 1), [File("", 2) EXCEPT !.readable = FALSE], File("maven pom", 5)>>,
    <<[File("go", 1) EXCEPT !.attribute = "java"], [File("", 3) EXCEPT !.binary = TRUE], File("", 1)>> }

SomeRepositories == <<{"go"}, {"java"}>>
=============================================================================
