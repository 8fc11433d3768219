------------------------------ MODULE TextEdits ------------------------------
(***************************************************************************)
(* What lineinfile, blockinfile and authorized_key make of a file's text,  *)
(* crates/agent/src/modules/{lineinfile,blockinfile,authorized_key}.rs.    *)
(*                                                                         *)
(* A text is its lines and whether the last one is terminated; a pattern   *)
(* is the set of the lines it matches, {} when the field is empty.         *)
(***************************************************************************)
EXTENDS Naturals, Sequences, FiniteSetsExt, SequencesExt

\* An edit joins what it keeps and terminates the last line.
Join(s) == [lines |-> s, eol |-> s # <<>>]

NoText == Join(<<>>)

Hits(s, pattern) == {i \in DOMAIN s : s[i] \in pattern}

Without(s, pattern) == SelectSeq(s, LAMBDA line : line \notin pattern)

\* Where a new line goes: before the first line of insertbefore, after the
\* last of insertafter, at the end when there is none.
Place(s, op) ==
    LET before == Hits(s, op.before)
        after  == Hits(s, op.after)
    IN  CASE before # {} -> Min(before)
          [] before = {} /\ op.before = {} /\ after # {} -> Max(after) + 1
          [] OTHER -> Len(s) + 1

-----------------------------------------------------------------------------
\* lineinfile: regexp, or the literal line without one.
Wanted(op) == IF op.regexp = {} THEN {op.line} ELSE op.regexp

LineEdit(text, op) ==
    LET s    == text.lines
        hits == Hits(s, Wanted(op))
    IN  CASE op.state = "absent" -> Join(Without(s, Wanted(op)))
          [] op.state = "present" /\ hits # {} ->
                Join(ReplaceAt(s, Min(hits), IF op.backrefs THEN op.subst[s[Min(hits)]] ELSE op.line))
          [] op.state = "present" /\ hits = {} /\ op.backrefs -> text
          [] OTHER -> Join(InsertAt(s, Place(s, op), op.line))

-----------------------------------------------------------------------------
\* blockinfile: the first begin marker and the first end marker after it.
BlockAt(s, op) ==
    LET begins == Hits(s, {op.begin})
        ends   == {i \in Hits(s, {op.end}) : i > Min(begins)}
    IN  IF begins # {} /\ ends # {} THEN <<Min(begins), Min(ends)>> ELSE <<>>

\* A mutant: the block ends at the last end marker.
StrippedLast(s, op) ==
    LET b == BlockAt(s, op)
    IN  IF b = <<>> THEN s ELSE SubSeq(s, 1, b[1] - 1) \o SubSeq(s, Max(Hits(s, {op.end})) + 1, Len(s))

\* The text without its block; all of it when the begin marker has no end.
Stripped(s, op) ==
    LET b == BlockAt(s, op)
    IN  IF b = <<>> THEN s ELSE SubSeq(s, 1, b[1] - 1) \o SubSeq(s, b[2] + 1, Len(s))

BlockEdit(text, op) ==
    LET s  == text.lines
        w  == Stripped(s, op)
        at == IF BlockAt(s, op) # <<>> THEN BlockAt(s, op)[1] ELSE Place(w, op)
    IN  IF op.state = "absent" \/ op.block = <<>>
        THEN Join(w)
        ELSE Join(SubSeq(w, 1, at - 1) \o <<op.begin>> \o op.block \o <<op.end>>
                    \o SubSeq(w, at, Len(w)))

-----------------------------------------------------------------------------
\* A mutant: every copy of the key goes, and the key is appended.
KeyEditAppends(text, op) ==
    IF op.state = "absent" THEN Join(Without(text.lines, op.regexp))
    ELSE Join(Append(Without(text.lines, op.regexp), op.line))

\* authorized_key: the lines that carry the same key, whatever their comment,
\* are op.regexp.  The first is replaced in place, the others are dropped.
KeyEdit(text, op) ==
    LET s    == text.lines
        hits == Hits(s, op.regexp)
        m    == Min(hits)
    IN  CASE op.exclusive -> Join(IF op.state = "present" THEN <<op.line>> ELSE <<>>)
          [] ~op.exclusive /\ op.state = "absent" -> Join(Without(s, op.regexp))
          [] ~op.exclusive /\ op.state = "present" /\ hits = {} -> Join(Append(s, op.line))
          [] OTHER -> Join(SubSeq(s, 1, m - 1) \o <<op.line>>
                             \o Without(SubSeq(s, m + 1, Len(s)), op.regexp))
=============================================================================
