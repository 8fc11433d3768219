------------------------------ MODULE SqlFence ------------------------------
(***************************************************************************)
(* Which SQL texts count as read-only: classify_sql_readonly, over texts   *)
(* made of lexical elements instead of characters.  An element follows the *)
(* one before at once, but a blank lies between two words.  Mut stands for *)
(* every keyword of MUTATING_KEYWORDS, ReadWord for SELECT, SHOW, VALUES   *)
(* and TABLE, Off for a false option value; Into and Analyse (a spelling   *)
(* PostgreSQL knows) are names like any other to the source.  Strings with *)
(* escapes (E'...') and functions that write have no element here, and no  *)
(* text has one Close right behind another outside a comment: what the two *)
(* share would open one.                                                   *)
(***************************************************************************)
EXTENDS Integers, SequencesExt

ReadWord == 0
Mut == 1
With == 2
Explain == 3
Analyze == 4
Verbose == 5
Off == 6
Into == 7
Analyse == 8
Name == 9
Semi == 10
Quote == 11      \* '
DQuote == 12     \* "
Dollar == 13     \* $$
Dash == 14       \* --
Newline == 15
Open == 16       \* /*
Close == 17      \* */
LParen == 18
RParen == 19
Comma == 20

Elements == 0..20
IsWord(e) == e \in ReadWord..Name

-----------------------------------------------------------------------------
(* The source's scanners.  A doubled quote leaves a literal and enters it  *)
(* again, which comes to the same.                                         *)

Scan(out, mode, depth) == [out |-> out, mode |-> mode, depth |-> depth]
Kept(s, e) == Scan(Append(s.out, e), s.mode, s.depth)
In(s, mode) == [s EXCEPT !.mode = mode]

\* Where a block comment was cut out nothing is left: the words beside it become one.
Fused(s, e) == IF IsWord(e) /\ s.out # <<>> /\ IsWord(Last(s.out)) THEN Append(Front(s.out), Name) ELSE Append(s.out, e)

\* strip_sql_comments knows comments and single quotes.
StripOne(s, e) ==
  CASE s.mode \in {"text", "cut"} /\ e = Dash -> In(s, "line")
    [] s.mode \in {"text", "cut"} /\ e = Open -> Scan(s.out, "block", 1)
    [] s.mode \in {"text", "cut"} /\ e = Quote -> In(Kept(s, e), "quote")
    [] s.mode = "cut" -> Scan(Fused(s, e), "text", 0)
    [] s.mode = "quote" /\ e = Quote -> In(Kept(s, e), "text")
    [] s.mode = "line" /\ e = Newline -> In(Kept(s, e), "text")
    [] s.mode = "line" -> s
    [] s.mode = "block" /\ e = Open -> [s EXCEPT !.depth = @ + 1]
    [] s.mode = "block" /\ e = Close -> Scan(s.out, IF s.depth = 1 THEN "cut" ELSE "block", s.depth - 1)
    [] s.mode = "block" -> s
    [] OTHER -> Kept(s, e)

\* Of a comment that never ends the last character stays: a sign that means no more than a Close for $$ and --.
LeftOver(e) == CASE IsWord(e) -> Name [] e \in {Dollar, Dash} -> Close [] OTHER -> e

strip_sql_comments(sql) ==
  LET s == FoldLeft(StripOne, Scan(<<>>, "text", 0), sql)
  IN IF s.mode = "block" /\ Last(sql) \notin {Open, Close} THEN Fused(s, LeftOver(Last(sql))) ELSE s.out

\* split_sql_statements knows single quotes.
SplitOne(s, e) ==
  CASE s.mode = "text" /\ e = Semi -> [s EXCEPT !.out = Append(@, <<>>)]
    [] OTHER -> [s EXCEPT !.out[Len(s.out)] = Append(@, e),
                          !.mode = IF e # Quote THEN @ ELSE IF @ = "quote" THEN "text" ELSE "quote"]
Blank(stmt) == ToSet(stmt) \subseteq {Newline}
split_sql_statements(sql) ==
  SelectSeq(FoldLeft(SplitOne, Scan(<<<<>>>>, "text", 0), sql).out, LAMBDA stmt : ~Blank(stmt))

\* skip_literal knows all three kinds of literal: what lies outside them, with its places.
Quoting == {Quote, DQuote, Dollar}
OutsideOne(s, i, stmt) ==
  CASE s.mode = "text" /\ stmt[i] \in Quoting -> Scan(s.out, "literal", stmt[i])
    [] s.mode = "text" -> Kept(s, i)
    [] stmt[i] = s.depth -> In(s, "text")
    [] OTHER -> s
Outside(stmt) == FoldLeft(LAMBDA s, i : OutsideOne(s, i, stmt), Scan(<<>>, "text", 0), [i \in DOMAIN stmt |-> i]).out

contains_mutating_keyword_token(stmt) == \E i \in ToSet(Outside(stmt)) : stmt[i] = Mut

\* The first element past the blanks (and past `skip`), as a sequence.
From(stmt, skip) ==
  LET places == SelectSeq([i \in DOMAIN stmt |-> i], LAMBDA i : stmt[i] \notin skip \cup {Newline})
  IN IF places = <<>> THEN <<>> ELSE SubSeq(stmt, Head(places), Len(stmt))

first_sql_keyword(stmt) == LET f == From(stmt, {LParen}) IN IF f = <<>> \/ ~IsWord(f[1]) THEN <<>> ELSE <<f[1]>>

\* The place of the parenthesis that closes the first one, past the end when none does.
find_matching_paren(stmt) ==
  LET out == ToSet(Outside(stmt))
      Opened(i) == Cardinality({j \in out : j <= i /\ stmt[j] = LParen})
      Shut(i) == Cardinality({j \in out : j <= i /\ stmt[j] = RParen})
      ends == {i \in out : stmt[i] = RParen /\ Opened(i) = Shut(i)}
  IN IF ends = {} THEN Len(stmt) + 1 ELSE CHOOSE i \in ends : \A j \in ends : i <= j

AfterExplain(stmt) == LET f == From(stmt, {}) IN IF f # <<>> /\ f[1] = Explain THEN From(Tail(f), {}) ELSE f

\* The options between commas; the first whose name is ANALYZE and nothing more decides.
Options(block) ==
  FoldLeft(LAMBDA opts, e : IF e = Comma THEN Append(opts, <<>>) ELSE [opts EXCEPT ![Len(opts)] = Append(@, e)],
           <<<<>>>>, block)
\* The first element stands by itself between blanks.
Alone(o) == o # <<>> /\ (Len(o) > 1 => (IsWord(o[1]) /\ IsWord(o[2])) \/ o[2] = Newline)
Is(o, e) == Alone(o) /\ o[1] = e
options_block_has_analyze_on(block) ==
  LET opts == Options(block)
      named == SelectSeq([i \in DOMAIN opts |-> From(opts[i], {})], LAMBDA o : Is(o, Analyze))
  IN named # <<>> /\ ~Is(From(Tail(named[1]), {}), Off)

RECURSIVE Barewords(_)
Barewords(ts) == LET f == From(ts, {}) IN IF f = <<>> \/ f[1] \notin {Analyze, Verbose} THEN <<>>
                                           ELSE <<f[1]>> \o Barewords(Tail(f))

HasBlock(rest) == rest # <<>> /\ rest[1] = LParen
explain_options_include_analyze(stmt) ==
  LET rest == AfterExplain(stmt)
  IN IF HasBlock(rest) THEN options_block_has_analyze_on(SubSeq(rest, 2, find_matching_paren(rest) - 1))
     ELSE Analyze \in ToSet(Barewords(rest))

\* The statement behind the options.  One whose options never close makes the slice panic.
Panics(stmt) ==
  LET rest == AfterExplain(stmt) IN HasBlock(rest) /\ find_matching_paren(rest) > Len(rest)
strip_explain_header(stmt) ==
  LET rest == AfterExplain(stmt)
  IN IF HasBlock(rest) THEN From(SubSeq(rest, find_matching_paren(rest) + 1, Len(rest)), {})
     ELSE LET f == SelectInSeq(rest, LAMBDA e : e \notin {Analyze, Verbose, Newline})
          IN IF f = 0 THEN <<>> ELSE SubSeq(rest, f, Len(rest))

RECURSIVE classify_one_statement_readonly(_)
classify_one_statement_readonly(stmt) ==
  LET word == first_sql_keyword(stmt)
  IN CASE word = <<ReadWord>> -> TRUE
       [] word = <<Explain>> ->
            explain_options_include_analyze(stmt) =>
              ~Panics(stmt) /\ classify_one_statement_readonly(strip_explain_header(stmt))
       [] word = <<With>> -> ~contains_mutating_keyword_token(stmt)
       [] OTHER -> FALSE

\* A mutant: the first statement decides.
classify_sql_readonlyFirst(sql) ==
  LET stmts == split_sql_statements(strip_sql_comments(sql))
  IN stmts = <<>> \/ classify_one_statement_readonly(stmts[1])
classify_sql_readonly(sql) ==
  \A i \in DOMAIN split_sql_statements(strip_sql_comments(sql)) :
     classify_one_statement_readonly(split_sql_statements(strip_sql_comments(sql))[i])

-----------------------------------------------------------------------------
(* What PostgreSQL makes of a text (external), read with no help from the *)
(* operators above.  A comment parts words and may hold comments; none of  *)
(* the three kinds of literal begins inside another or inside a comment;   *)
(* $$ right behind a word belongs to it.  A literal is left as its opening *)
(* quote, but the identifier "analyze" as such.                            *)

QAnalyze == 21
Delimiters == {Quote, DQuote, Dollar}
ServerOne(s, sql, i) ==
  LET e == sql[i]
      mode == IF s.mode = "word" /\ ~IsWord(e) /\ e # Dollar THEN "text" ELSE s.mode
  IN CASE mode = "word" -> s
       [] mode = "text" /\ e = Dash -> In(s, "line")
       [] mode = "text" /\ e = Open -> [s EXCEPT !.mode = "block", !.depth = 1]
       [] mode = "text" /\ e = Dollar /\ i > 1 /\ IsWord(sql[i - 1]) -> Scan(Append(Front(s.out), Name), "word", 0)
       [] mode = "text" /\ e \in Delimiters -> Scan(s.out, "literal", e)
       [] mode = "text" -> Scan(Append(s.out, e), "text", 0)
       [] mode = "line" -> IF e = Newline THEN In(s, "text") ELSE s
       [] mode = "block" /\ e = Open -> [s EXCEPT !.depth = @ + 1]
       [] mode = "block" /\ e = Close -> Scan(s.out, IF s.depth = 1 THEN "text" ELSE "block", s.depth - 1)
       [] mode = "literal" /\ e = s.depth ->
            Scan(Append(s.out, IF e = DQuote /\ sql[i - 1] = Analyze /\ sql[i - 2] = DQuote THEN QAnalyze ELSE e), "text", 0)
       [] OTHER -> s
ServerAt(sql, n) == FoldLeft(LAMBDA s, i : ServerOne(s, sql, i), Scan(<<>>, "text", 0), [i \in 1..n |-> i])
Server(sql) == ServerAt(sql, Len(sql))

\* The tokens, blanks left out, and the pieces between those that are e.
Tokens(sql) == SelectSeq(Server(sql).out, LAMBDA e : e # Newline)
Pieces(ts, e) ==
  LET cuts == <<0>> \o SelectSeq([i \in DOMAIN ts |-> i], LAMBDA i : ts[i] = e) \o <<Len(ts) + 1>>
  IN [k \in 1..(Len(cuts) - 1) |-> SubSeq(ts, cuts[k] + 1, cuts[k + 1] - 1)]
Begins(ts, e) == ts # <<>> /\ ts[1] = e

\* A statement writes that is a writing one, has one in a WITH, or selects into a table.
Writes(ts) ==
  \/ Begins(ts, Mut)
  \/ Begins(ts, With) /\ ({Mut, Into} \cap ToSet(ts)) # {}
  \/ ts # <<>> /\ ts[1] \in {LParen, ReadWord} /\ Into \in ToSet(ts)

\* Of the options the last that names ANALYZE decides.
AnalyzeNames == {Analyze, Analyse, QAnalyze}
Closing(ts) == IF RParen \in ToSet(ts) THEN CHOOSE i \in DOMAIN ts : ts[i] = RParen /\ \A j \in 1..(i - 1) : ts[j] # RParen
               ELSE Len(ts) + 1
Decides(block) ==
  LET named == SelectSeq(Pieces(block, Comma), LAMBDA o : o # <<>> /\ o[1] \in AnalyzeNames)
  IN named # <<>> /\ (Len(Last(named)) > 1 => Last(named)[2] # Off)

\* EXPLAIN carries out what it explains when it analyzes.
Explained(ts) ==
  IF Begins(ts, LParen)
  THEN LET c == Closing(ts)
           block == SubSeq(ts, 2, c - 1)
       IN {LParen, Close} \cap ToSet(block) = {} /\ Decides(block) /\ Writes(SubSeq(ts, c + 1, Len(ts)))
  ELSE /\ ts # <<>> /\ ts[1] \in {Analyze, Analyse}
       /\ Writes(IF Begins(Tail(ts), Verbose) THEN Tail(Tail(ts)) ELSE Tail(ts))

Mutates(ts) == Writes(ts) \/ (Begins(ts, Explain) /\ Explained(Tail(ts)))

\* A text that ends inside a literal or a block comment is refused as a whole.
ServerMutates(sql) ==
  LET stmts == Pieces(Tokens(sql), Semi)
  IN Server(sql).mode \notin {"literal", "block"} /\ \E i \in DOMAIN stmts : Mutates(stmts[i])

-----------------------------------------------------------------------------
(* The texts the fence gets wrong.                                         *)

\* A quote, a comment or a semicolon seems to begin inside a literal that has double quotes or dollars.
Hidden(sql) ==
  \E i \in DOMAIN sql :
    LET s == ServerAt(sql, i - 1)
    IN s.mode = "literal" /\ s.depth # Quote /\ sql[i] \in {Quote, Dash, Open, Semi}
\* Words with nothing but block comments between them; a word with $$ in it.
Glued(sql) ==
  \E i \in DOMAIN sql, j \in DOMAIN sql :
    /\ i < j /\ IsWord(sql[i]) /\ IsWord(sql[j])
    /\ ServerAt(sql, i).mode = "text" /\ sql[i + 1] = Open /\ sql[j - 1] = Close /\ ServerAt(sql, j - 1).mode = "text"
    /\ Server(SubSeq(sql, i + 1, j - 1)).out = <<>>
DollarWord(sql) ==
  \E i \in DOMAIN sql : i > 1 /\ sql[i] = Dollar /\ IsWord(sql[i - 1]) /\ ServerAt(sql, i - 1).mode = "text"
\* SELECT INTO makes a table.
Creates(sql) == Into \in ToSet(Tokens(sql))
\* ANALYZE spelled another way, with its value right behind it, or on after it was off.
OddAnalyze(sql) ==
  LET ts == Server(sql).out IN
  \/ ({Analyse, QAnalyze} \cap ToSet(ts)) # {}
  \/ \E i \in DOMAIN ts : i > 1 /\ ts[i - 1] = Analyze /\ ts[i] \in Delimiters
  \/ \E i \in DOMAIN ts, j \in DOMAIN ts : i < j /\ ts[i] = Analyze /\ ts[i + 1] = Off /\ ts[j] = Analyze

Misleading(sql) == Hidden(sql) \/ Glued(sql) \/ DollarWord(sql) \/ Creates(sql) \/ OddAnalyze(sql)
=============================================================================
