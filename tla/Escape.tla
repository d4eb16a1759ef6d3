------------------------------ MODULE Escape ------------------------------
(***************************************************************************)
(* trilogy_escape of src/src/client.c on strings of characters. The server *)
(* tells by server_status whether it takes the backslash for an escape.    *)
(* Lexed is external: what the server reads between two quotes.            *)
(***************************************************************************)
EXTENDS Integers, SequencesExt

\* escape_lookup_table, and what it would be without the backslash itself.
LookupNoBackslash ==
  [quote |-> "quote", dquote |-> "dquote", NUL |-> "0", LF |-> "n", CR |-> "r", SUB |-> "Z"]
Lookup ==
  [quote |-> "quote", dquote |-> "dquote", NUL |-> "0", LF |-> "n", CR |-> "r", SUB |-> "Z", backslash |-> "backslash"]

\* The characters that matter: those escaped, those written for them, another.
Chars == DOMAIN Lookup \cup {"0", "n", "r", "Z", "a"}

\* One round of either loop: the run up to the next character to escape is
\* copied, then Sub of that character is written. No such character ends it.
EscapeRound(s, str, special, Sub(_)) ==
  LET found == {i \in s.cursor..Len(str) : str[i] \in special}
      to == IF found = {} THEN Len(str) + 1 ELSE Min(found)
  IN IF s.cursor > Len(str) THEN s
     ELSE [cursor |-> to + 1,
           b |-> s.b \o SubSeq(str, s.cursor, to - 1) \o (IF found = {} THEN <<>> ELSE Sub(str[to]))]

\* trilogy_escape
Escaped(str, no_backslash) ==
  LET round(s, i) == IF no_backslash
                     THEN EscapeRound(s, str, {"quote"}, LAMBDA c : <<"quote", "quote">>)
                     ELSE EscapeRound(s, str, DOMAIN Lookup, LAMBDA c : <<"backslash", Lookup[c]>>)
  IN FoldLeft(round, [cursor |-> 1, b |-> <<>>], [i \in 1..Len(str) |-> i]).b

----------------------------------------------------------------------------
\* What a backslash and the character behind it stand for.
Meaning(c) ==
  CASE c = "0" -> "NUL" [] c = "n" -> "LF" [] c = "r" -> "CR" [] c = "Z" -> "SUB" [] OTHER -> c

\* One character of a literal between two q. A q behind a q is a q.
LexChar(q, no_backslash, s, c) ==
  CASE s.ended -> [s EXCEPT !.broken = TRUE]
    [] s.after = "backslash" -> [s EXCEPT !.text = Append(@, Meaning(c)), !.after = "none"]
    [] s.after = "q" /\ c = q -> [s EXCEPT !.text = Append(@, q), !.after = "none"]
    [] s.after = "q" /\ c # q -> [s EXCEPT !.ended = TRUE, !.broken = TRUE]
    [] s.after = "none" /\ c = q -> [s EXCEPT !.after = "q"]
    [] s.after = "none" /\ c = "backslash" /\ ~no_backslash -> [s EXCEPT !.after = "backslash"]
    [] OTHER -> [s EXCEPT !.text = Append(@, c)]

\* The text of the literal, and whether it ends where the string does.
Lexed(q, no_backslash, str) ==
  LET s == FoldLeft(LAMBDA t, c : LexChar(q, no_backslash, t, c),
                    [text |-> <<>>, after |-> "none", ended |-> FALSE, broken |-> FALSE], str)
  IN [text |-> s.text, whole |-> ~s.broken /\ s.after = "none"]
============================================================================
