------------------------------- MODULE IndCode -------------------------------
(***************************************************************************)
(* ind$denc.c and the map files of ind$file.c: how IND$FILE writes the     *)
(* characters of a file as codes a CUT-mode panel can carry.               *)
(*                                                                         *)
(* A code is the name of a quadrant or a letter; a letter stands for the   *)
(* character it has in the quadrant named last.  Some characters are in    *)
(* two quadrants, all are in one.  The characters are the graphic ones,    *)
(* "blank" and "dot" among them, and "null", "ctl" (the other unprintable  *)
(* ones), "tab", "cr", "lf".                                               *)
(***************************************************************************)
EXTENDS Integers, Sequences, SequencesExt

CONSTANTS
    Quadrants,  \* in their order: the name and the character of each letter
    NullCode,   \* the letter for "null" in the binary quadrant
    Graphic,    \* the characters a map file can change
    MapFiles    \* the lines of each map file, pairs of characters of host and
                \* terminal

NoQuadrant == "none"
Binary == "*"
Names == {Quadrants[i].name : i \in DOMAIN Quadrants}
MapOf(q) == Quadrants[CHOOSE i \in DOMAIN Quadrants : Quadrants[i].name = q].chars
Letters == DOMAIN Quadrants[1].chars
Has(q, c) == q # NoQuadrant /\ \E a \in Letters : MapOf(q)[a] = c
LetterOf(q, c) == CHOOSE a \in Letters : MapOf(q)[a] = c
Chars == UNION {{MapOf(q)[a] : a \in Letters} : q \in Names}

ASSUME CodeAssumption ==
    /\ Binary \in Names /\ NullCode \in Letters /\ MapOf(Binary)[NullCode] = "null"
    /\ Names \cap Letters = {} /\ NoQuadrant \notin Names
    /\ \A i \in DOMAIN Quadrants : DOMAIN Quadrants[i].chars = Letters
    /\ {"blank", "dot"} \subseteq Graphic /\ Graphic \subseteq Chars

-----------------------------------------------------------------------------
(* The tables, and the files IND$MAP that change them *)

BaseTables == [toTerm |-> [c \in Chars |-> c], toHost |-> [c \in Chars |-> c]]

AddCharMapping(t, host, term) ==
    [toTerm |-> [t.toTerm EXCEPT ![host] = term], toHost |-> [t.toHost EXCEPT ![term] = host]]

\* Lines that are no pair of graphic characters change nothing.
LoadLine(t, line) ==
    IF {line.host, line.term} \subseteq Graphic THEN AddCharMapping(t, line.host, line.term) ELSE t

LoadTranslationDeltas(t, name) ==
    IF name \in DOMAIN MapFiles THEN FoldLeft(LoadLine, t, MapFiles[name]) ELSE t

-----------------------------------------------------------------------------
(* From the host to the terminal *)

\* get_cnv_char(): in the current quadrant if it is there, else in the first
\* one that has it, which is named before.
Coded(q, c) ==
    IF Has(q, c) THEN [q |-> q, codes |-> <<LetterOf(q, c)>>]
    ELSE LET i == SelectInSeq(Quadrants, LAMBDA r : Has(r.name, c))
             new == Quadrants[i].name
         IN  [q |-> new, codes |-> <<new, LetterOf(new, c)>>]

\* What a text shows of a character that cannot be printed.
Shown(c) == CASE c \in {"null", "ctl"} -> "dot" [] c = "tab" -> "blank" [] OTHER -> c

\* get_cnv()
GetConvert(t, ascii, q, rec) ==
    LET one(s, c) ==
          LET new == IF c = "null" /\ ~ascii
                     THEN [q |-> Binary, codes |-> IF s.q = Binary THEN <<NullCode>>
                                                   ELSE <<Binary, NullCode>>]
                     ELSE Coded(s.q, IF ascii THEN t.toTerm[Shown(c)] ELSE c)
          IN  [q |-> new.q, codes |-> s.codes \o new.codes]
    IN  FoldLeft(one, [q |-> q, codes |-> <<>>], rec)

-----------------------------------------------------------------------------
(* From the terminal to the host *)

\* put_cnv(): what a code asks for - a quadrant, a character, the end of a
\* record, a blank for a tab, nothing or, "bad", the end of the transfer.
Asks(k, c) == [k |-> k, c |-> c]
Decoded(t, ascii, q, code) ==
    LET c == IF ascii THEN t.toHost[MapOf(q)[code]] ELSE MapOf(q)[code]
    IN  CASE code \in Names -> Asks("quadrant", code)
          [] code \notin Names /\ (q = NoQuadrant \/ code \notin Letters) -> Asks("bad", code)
          [] OTHER ->
             CASE q = Binary /\ code = NullCode -> Asks("put", "null")
               [] ascii /\ c = "cr" -> Asks("skip", c)
               [] ascii /\ c = "lf" -> Asks("line", c)
               [] ascii /\ c = "tab" -> Asks("tab", c)
               [] ascii /\ c \in {"null", "ctl"} -> Asks("put", "dot")
               [] OTHER -> Asks("put", c)

-----------------------------------------------------------------------------
(* Records *)

\* readRecord(): a text loses the blanks at its end, but for a first one, and
\* gets an end of line.
LineEnd(crlf) == IF crlf THEN <<"cr", "lf">> ELSE <<"lf">>
Stripped(rec) ==
    LET kept == {i \in DOMAIN rec : i = 1 \/ rec[i] # "blank"}
    IN  SubSeq(rec, 1, CHOOSE i \in kept : \A k \in kept : k =< i)
ReadRecord(ascii, crlf, rec) == IF ascii THEN Stripped(rec) \o LineEnd(crlf) ELSE rec

\* writeRecord(): never empty, and as long as LRECL if the file is fixed.
Filled(rec, fill, len) ==
    [i \in 1 .. IF len > Len(rec) THEN len ELSE Len(rec) |-> IF i =< Len(rec) THEN rec[i] ELSE fill]
WriteRecord(ascii, recfm, lrecl, rec) ==
    LET fill == IF ascii THEN "blank" ELSE "null"
    IN  Filled(Filled(rec, fill, 1), fill, IF recfm = "F" THEN lrecl ELSE 0)

\* do_test(): the records that do not come back as they were.
ComesBack(t, ascii, s, codes) ==
    LET one(r, code) ==
          LET d == Decoded(t, ascii, r.q, code)
          IN  IF d.k = "quadrant" THEN [r EXCEPT !.q = d.c]
              ELSE IF d.k = "put" THEN [r EXCEPT !.rec = Append(@, d.c)] ELSE r
    IN  FoldLeft(one, [q |-> s, rec |-> <<>>], codes)

TestErrors(t, ascii, crlf, recs) ==
    LET one(s, rec) ==
          LET sent == GetConvert(t, ascii, s.out, ReadRecord(ascii, crlf, rec))
              back == ComesBack(t, ascii, s.in, sent.codes)
          IN  [out |-> sent.q, in |-> back.q,
               errors |-> IF back.rec = (IF ascii THEN Stripped(rec) ELSE rec) THEN s.errors
                          ELSE s.errors \cup {rec}]
    IN  FoldLeft(one, [out |-> NoQuadrant, in |-> NoQuadrant, errors |-> {}], recs).errors
=============================================================================
