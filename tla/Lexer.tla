------------------------------- MODULE Lexer -------------------------------
(***************************************************************************)
(* The layout rules of src/src/lexer.rs.  A text is a sequence of pieces:  *)
(* words, each the token the scanners make of it, and the characters the   *)
(* layout depends on (space, tab, newline, a comment up to the end of its  *)
(* line, a backslash before a newline).  A token is [k, v]: its kind, and  *)
(* the name or value it carries.                                           *)
(***************************************************************************)
EXTENDS Integers, Sequences, SequencesExt

Tok(k, v) == [k |-> k, v |-> v]
Sym(k)    == Tok(k, "")
Name(n)   == Tok("name", n)

Space == Sym("space")
Tab   == Sym("tab")
Line  == Sym("newline")
Comment == Sym("comment")
Continuation == Sym("continuation")
Layout == {Space, Tab, Line, Comment, Continuation}

Newline == Sym("Newline")
Indent  == Sym("Indent")
Dedent  == Sym("Dedent")
Eof     == Sym("Eof")

(* lex_escape: a literal's value.  The value "line feed" is written with   *)
(* an escape; as it is it ends the line and leaves the literal open.       *)
Unescaped == [escape_n |-> "line feed", escaped_escape_n |-> "escape_n"]
Scanned(t) == IF t.k = "str" /\ t.v \in DOMAIN Unescaped THEN Tok("str", Unescaped[t.v]) ELSE t
Scans(t) == t # Tok("str", "line feed")

-----------------------------------------------------------------------------
(* lex: indents is the stack of open indentations, depth the open brackets *)
(* (never negative), bol whether the line's indentation is being measured, *)
(* col how far.                                                            *)

LexStart == [toks |-> <<>>, indents |-> <<0>>, depth |-> 0, bol |-> TRUE, col |-> 0, ok |-> TRUE]

Emit(st, ts) == [st EXCEPT !.toks = @ \o ts]

(* The indentations that stay open: those above the last one that is not   *)
(* wider than the line's are closed.                                       *)
Kept(st) ==
  CHOOSE n \in DOMAIN st.indents :
    st.indents[n] <= st.col /\ \A i \in DOMAIN st.indents : i > n => st.indents[i] > st.col

(* The first word of a line opens a block, closes blocks or does neither. *)
Indentation(st) ==
  LET kept == SubSeq(st.indents, 1, Kept(st))
  IN IF st.col > Last(st.indents)
     THEN [Emit(st, <<Indent>>) EXCEPT !.indents = Append(@, st.col)]
     ELSE [Emit(st, [i \in 1..(Len(st.indents) - Kept(st)) |-> Dedent])
             EXCEPT !.indents = kept, !.ok = st.col = Last(kept)]

(* A line without a word is no line. *)
EndLine_always(st) == Emit(st, <<Newline>>)
EndLine(st) ==
  IF st.toks = <<>> \/ Last(st.toks) = Newline THEN st ELSE Emit(st, <<Newline>>)

Word(st, t) ==
  LET ready == IF st.bol THEN [Indentation(st) EXCEPT !.bol = FALSE] ELSE st
  IN [Emit(ready, <<Scanned(t)>>)
        EXCEPT !.depth = IF t.k \in {"(", "[", "{"} THEN @ + 1
                         ELSE IF t.k \in {")", "]", "}"} /\ @ > 0 THEN @ - 1
                         ELSE @,
               !.ok = @ /\ Scans(t)]

LexPiece(st, t) ==
  IF ~st.ok THEN st
  ELSE CASE t = Space -> IF st.bol THEN [st EXCEPT !.col = @ + 1] ELSE st
         [] t = Tab   -> IF st.bol THEN [st EXCEPT !.col = @ + 8] ELSE st
         [] t = Comment -> [st EXCEPT !.bol = FALSE]
         [] t = Continuation ->
              IF st.bol THEN [Indentation(st) EXCEPT !.bol = FALSE] ELSE st
         [] t = Line ->
              IF st.depth > 0 THEN st ELSE [EndLine(st) EXCEPT !.bol = TRUE, !.col = 0]
         [] OTHER -> Word(st, t)

(* The loop over a text, from a state. *)
LexFrom(st, text) ==
  LET after[i \in 0..Len(text)] ==
        IF i = 0 THEN st ELSE LexPiece(after[i - 1], text[i])
  IN after[Len(text)]

(* At the end the last line and the open blocks are closed. *)
Lex(text) ==
  LET end == EndLine(LexFrom(LexStart, text))
  IN [ok |-> end.ok,
      toks |-> end.toks \o [i \in 1..(Len(end.indents) - 1) |-> Dedent] \o <<Eof>>]
-----------------------------------------------------------------------------
(* The same text as another editor leaves it: tabs, empty lines, comments  *)
(* at any column, brackets and lines broken.                               *)
Other(t) ==
  CASE t = Space -> <<Tab>>
    [] t = Line  -> <<Space, Comment, Line, Space, Line, Space, Space, Comment, Line>>
    [] t.k \in {"(", "[", "{"} -> <<t, Comment, Line, Space, Line>>
    [] t.k \in {",", "=", "in"} -> <<t, Space, Continuation, Tab>>
    [] OTHER -> <<t>>
Relaid(ts) == FlattenSeq([i \in DOMAIN ts |-> Other(ts[i])])
=============================================================================
