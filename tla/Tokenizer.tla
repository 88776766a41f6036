------------------------------ MODULE Tokenizer ------------------------------
(***************************************************************************)
(* tokenizer.Tokenize: the words of a file without its comments, strings   *)
(* and numbers, for the classifier.  Pure.                                 *)
(*                                                                         *)
(* The input is a sequence of lines, a line one of words, and a word one   *)
(* of symbols: a quote, alone (dq, sq, bt) or tripled (dq3, sq3), a        *)
(* backslash (bs), a digit ("0"), a mark of a comment, or anything else.   *)
(* Lengths are not limited here: only the first 512 bytes of a file are    *)
(* given to the tokenizer.                                                 *)
(***************************************************************************)
EXTENDS Naturals, Sequences, SequencesExt

QuoteIn == [dq |-> "dq", sq |-> "sq", bt |-> "bt", dq3 |-> "dq", sq3 |-> "sq"]

\* The marks are looked for anywhere in a word, so that those of an XML comment
\* count as the dashes in them: they never begin one of several lines.  Nor do
\* those of Perl 6, which begin with a "#".
SingleLineComments == {"//", "--", "#", "<!--", "-->"}
StartLineComments  == {"dq", "dq3", "%", "//", "--", "#", "-->"}

\* Beginning and end, in the order they are looked for.
MultiLineComments ==
  << <<"/*", "*/">>, <<"<!--", "-->">>, <<"{-", "-}">>, <<"(*", "*)">>, <<"dq3", "dq3">>,
     <<"sq3", "sq3">> >>

Has(word, symbols) == \E i \in DOMAIN word : word[i] \in symbols

\* startLineComment: the line's first word begins with the mark.
IsCommentLine(line) == line # <<>> /\ Head(line)[1] \in StartLineComments

Opened(word) == {c \in DOMAIN MultiLineComments : Has(word, {MultiLineComments[c][1]})}

\* stringRegexp finds the leftmost run without a backslash that holds a quote,
\* and in it the last quote; a backslash before a quote does not escape it.
Quote(word) ==
  LET quotes == {i \in DOMAIN word : word[i] \in DOMAIN QuoteIn}
      run == {i \in quotes : \A j \in Min(quotes) .. i : word[j] # "bs"}
  IN  IF quotes = {} THEN "none" ELSE QuoteIn[word[Max(run)]]

-----------------------------------------------------------------------------
(* The state: in a comment or a string, which is the symbol it ends with;  *)
(* whether the rest of the line is passed over; and the tokens.            *)

Start == [comment |-> "none", string |-> "none", pass |-> FALSE, tokens |-> <<>>]

Word(s, word) ==
  IF s.pass THEN s
  ELSE IF s.comment # "none" THEN
    [s EXCEPT !.comment = IF Has(word, {@}) THEN "none" ELSE @]
  ELSE IF s.string # "none" THEN
    [s EXCEPT !.string = IF Quote(word) = @ THEN "none" ELSE @]
  ELSE IF Has(word, SingleLineComments) THEN [s EXCEPT !.pass = TRUE]
  ELSE IF Opened(word) # {} THEN [s EXCEPT !.comment = MultiLineComments[Min(Opened(word))][2]]
  ELSE IF Quote(word) # "none" THEN [s EXCEPT !.string = Quote(word)]
  ELSE IF Has(word, {"0"}) THEN s
  ELSE [s EXCEPT !.tokens = Append(@, word)]

\* A line of comment is passed over even inside a comment or a string, the end
\* of which is then missed.
Line(s, line) ==
  IF IsCommentLine(line) THEN s ELSE FoldLeft(Word, [s EXCEPT !.pass = FALSE], line)

Tokenize(lines) == FoldLeft(Line, Start, lines).tokens

-----------------------------------------------------------------------------
(* What the tokens are to be: words of the input, in its order, that hold  *)
(* neither a mark nor a quote nor a digit.                                 *)

IsPlain(word) ==
  ~Has(word, DOMAIN QuoteIn \union SingleLineComments \union {"0"}) /\ Opened(word) = {}

PlainWords(lines) == SelectSeq(FlattenSeq(lines), IsPlain)

IsSubsequence(s, t) ==
  \E kept \in kSubset(Len(s), DOMAIN t) : s = [i \in DOMAIN s |-> t[SetToSortSeq(kept, <)[i]]]
=============================================================================
