-------------------------- MODULE RegistryChallenge --------------------------
(***************************************************************************)
(* The two HTTP exchanges by which the azure builder obtains the token of  *)
(* a registry (pkg/azure/containerregistry/util.go), and the parser of the *)
(* WWW-Authenticate header between them.                                   *)
(*                                                                         *)
(* A header is a sequence of tokens: keys, values, "=", "comma", "sp" for  *)
(* white space and "quote".  Go's -1 for "not found" is 0 here, and its    *)
(* slice s[i:j] is SubSeq(s, i, j - 1); a slice whose end is not found is  *)
(* out of range and panics.                                                *)
(***************************************************************************)
EXTENDS Naturals, Sequences

\* The first of some positions, 0 if there is none.
FirstOf(positions) ==
  IF positions = {} THEN 0 ELSE CHOOSE n \in positions : \A m \in positions : n <= m

NextOccurrence(st, start, sep) == FirstOf({n \in start .. Len(st) : st[n] = sep})

NextNoneSpace(st, start) == FirstOf({n \in start .. Len(st) : st[n] # "sp"})

\* strings.TrimSpace
TrimSpace(st) ==
  LET solid == {n \in DOMAIN st : st[n] # "sp"}
  IN  IF solid = {} THEN <<>>
      ELSE SubSeq(st, CHOOSE n \in solid : \A m \in solid : n <= m,
                      CHOOSE n \in solid : \A m \in solid : n >= m)

\* A mutant of QuotedEnd: the search for the closing quote stops at a comma.
QuotedEndAtComma(st, open) == FirstOf({n \in open + 1 .. Len(st) : st[n] \in {"quote", "comma"}})

\* Where the value whose quote opens at position open ends.
QuotedEnd(st, open) == NextOccurrence(st, open + 1, "quote")

\* What one round of parseAssignments's loop comes to: an assignment, the last
\* one or one with more at next, or the end of the whole.
Round(kind, key, value, next) == [kind |-> kind, key |-> key, value |-> value, next |-> next]
Malformed  == Round("error", <<>>, <<>>, 0)
OutOfRange == Round("panic", <<>>, <<>>, 0)

\* A round with the cursor at cursor.  An unquoted value is meant to end at
\* the next comma, but the test of endStatements is the wrong way round: the
\* value takes the whole rest of the header, and without a comma the slice has
\* no end.
Assignment(st, cursor) ==
  LET equal == NextOccurrence(st, cursor, "=")
      key   == TrimSpace(SubSeq(st, cursor, equal - 1))
      value == NextNoneSpace(st, equal + 1)
      Quoted ==
        LET close == QuotedEnd(st, value)
            after == NextNoneSpace(st, close + 1)
            this  == SubSeq(st, value + 1, close - 1)
        IN  IF close = 0 THEN Malformed
            ELSE IF after = 0 THEN Round("last", key, this, 0)
            ELSE IF st[after] # "comma" THEN Malformed
            ELSE Round("more", key, this, after + 1)
      Unquoted ==
        LET comma == NextOccurrence(st, value, "comma")
            this  == TrimSpace(SubSeq(st, value, Len(st)))
        IN  IF comma = 0 THEN OutOfRange
            ELSE IF this = <<>> THEN Malformed
            ELSE Round("more", key, this, comma + 1)
  IN  IF equal = 0 \/ value = 0 THEN Malformed
      ELSE IF st[value] = "quote" THEN Quoted ELSE Unquoted

\* The header ends with this round; or it goes on, and what the rest of it
\* assigns overrides what this round does.
Ending(this) ==
  IF this.kind = "last" THEN [kind |-> "ok", map |-> [k \in {this.key} |-> this.value]]
  ELSE [kind |-> this.kind, map |-> <<>>]

Onward(this, rest) ==
  IF rest.kind # "ok" THEN rest
  ELSE [kind |-> "ok",
        map |-> [k \in DOMAIN rest.map \union {this.key} |->
                   IF k \in DOMAIN rest.map THEN rest.map[k] ELSE this.value]]

\* parseAssignments: parse[cursor] is what the loop returns when it is at
\* cursor with nothing parsed so far.
ParseAssignments(st) ==
  LET parse[cursor \in 1 .. Len(st) + 1] ==
        LET this == Assignment(st, cursor)
        IN  IF this.kind = "more" THEN Onward(this, parse[this.next]) ELSE Ending(this)
  IN  parse[1]

\* The value of a key, empty if the key is not there.
ValueOf(m, key) == IF <<key>> \in DOMAIN m THEN m[<<key>>] ELSE <<>>

Refused == [kind |-> "error", service |-> <<>>, realm |-> <<>>]
Crashed == [kind |-> "panic", service |-> <<>>, realm |-> <<>>]

\* ReceiveChallengeFromLoginServer, once the server has answered: a status,
\* the WWW-Authenticate headers, and of a header its scheme, whether a space
\* follows the scheme, and the rest.  SplitN of a header without a space has
\* one element, and the second is asked for.
ReceiveChallenge(answer) ==
  IF answer.status # 401 \/ Len(answer.headers) # 1 THEN Refused
  ELSE LET header == answer.headers[1]
           params == ParseAssignments(header.rest)
       IN  IF ~header.space \/ params.kind = "panic" THEN Crashed
           ELSE IF \/ params.kind = "error" \/ header.scheme # "bearer"
                   \/ ValueOf(params.map, "service") = <<>>
                   \/ ValueOf(params.map, "realm") = <<>> THEN Refused
           ELSE [kind |-> "ok", service |-> ValueOf(params.map, "service"),
                 realm |-> ValueOf(params.map, "realm")]

\* PerformTokenExchange, once the server has answered: an answer without a
\* refresh_token is taken for the empty token.
PerformTokenExchange(answer) ==
  IF answer.status # 200 \/ answer.token = "unreadable" THEN "none" ELSE answer.token

-----------------------------------------------------------------------------
(* What a server offers, and how it writes it.                             *)

\* A parameter of the challenge as it is written in the header.
Written(p) ==
  <<p.key, "=">> \o (IF p.quoted THEN <<"quote">> \o p.value \o <<"quote">> ELSE p.value)

\* The parameters, separated by a comma and a space.
Header(params) ==
  LET upto[n \in 0 .. Len(params)] ==
        IF n = 0 THEN <<>>
        ELSE (IF n = 1 THEN <<>> ELSE upto[n - 1] \o <<"comma", "sp">>) \o Written(params[n])
  IN  upto[Len(params)]

\* What the parameters say of a key: the last one counts.
Offered(params, key) ==
  LET at == {n \in DOMAIN params : params[n].key = key}
  IN  IF at = {} THEN <<>> ELSE params[CHOOSE n \in at : \A m \in at : n >= m].value
=============================================================================
