---------------------------- MODULE CloudLogging ----------------------------
(***************************************************************************)
(* Cloud Logging (services/cloudlogging): the bounded list of entries, and  *)
(* the filters ListLogEntries evaluates.  Every call runs under the         *)
(* service's lock.                                                         *)
(*                                                                         *)
(* A filter is the sequence of tokens tokenize makes of its text; the       *)
(* parser over them is the code's recursive descent, with its predicates as *)
(* the set of entries they accept.  A log name is <<project, log>>.  What   *)
(* a filter means is defined a second time, by the tree it was written      *)
(* from, and the two are compared.                                         *)
(***************************************************************************)
EXTENDS Integers, Sequences, FiniteSets, SequencesExt

CONSTANTS Projects, Logs,
          Batches,        \* what one request writes: [severity, text, time], where
                          \* severity is a rank and time 0 is left to the server
          Queries,        \* filters as trees: And, Or, Not over comparisons
          MaxEntries,     \* entries kept: 10000 in the code
          MaxFilterDepth, \* nested parentheses and NOTs: 64 in the code
          MaxWrites, MaxTime   \* bounds on writes and on the clock

VARIABLES entries,  \* oldest first
          now,      \* the clock
          seq,      \* insert ids given out
          answer    \* ghost: what ListLogEntries answers of the present entries

vars == <<entries, now, seq, answer>>

NoAnswer == [query |-> <<>>, project |-> "", desc |-> FALSE, got |-> <<>>]

Init == entries = <<>> /\ now = 1 /\ seq = 0 /\ answer = NoAnswer

-----------------------------------------------------------------------------
\* Filter trees, and how one is written as tokens: a comparison is a field, an
\* operator and a value; a comparison may be negated by a minus on its field;
\* OR binds tighter than AND; a tree that does not fit its place is put in
\* parentheses.
Token(kind, text) == [kind |-> kind, text |-> text, minus |-> FALSE]
Word(w) == Token("word", w)
Op(o) == Token("op", o)
Paren(p) == Token(p, p)
Value(v) == Token("string", v)

RECURSIVE Tokens(_)
\* A tree in a place that only a primary fits.
Fitted(q) == IF q.is \in {"and", "or"} THEN <<Paren("(")>> \o Tokens(q) \o <<Paren(")")>> ELSE Tokens(q)
Tokens(q) ==
    CASE q.is = "cmp" -> <<Word(q.field), Op(q.op), Value(q.value)>>
      [] q.is = "not" -> IF q.minus THEN [Tokens(q.of) EXCEPT ![1].minus = TRUE]
                         ELSE <<Word("NOT")>> \o Fitted(q.of)
      [] q.is = "or"  -> Fitted(q.left) \o <<Word("OR")>> \o Fitted(q.right)
      [] q.is = "and" -> (IF q.left.is = "or" THEN Tokens(q.left) ELSE Fitted(q.left))
                            \o (IF q.explicit THEN <<Word("AND")>> ELSE <<>>)
                            \o (IF q.right.is = "or" THEN Tokens(q.right) ELSE Fitted(q.right))

\* What a tree means.
Holds(e, c) ==
    LET got == IF c.field = "severity" THEN e.severity
               ELSE IF c.field = "timestamp" THEN e.time ELSE e.text
    IN  CASE c.op = "="  -> got = c.value
          [] c.op = "!=" -> got # c.value
          [] c.op = ">=" -> got >= c.value
          [] c.op = "<"  -> got < c.value

RECURSIVE Means(_, _)
Means(q, e) ==
    CASE q.is = "cmp" -> Holds(e, q)
      [] q.is = "not" -> ~Means(q.of, e)
      [] q.is = "or"  -> Means(q.left, e) \/ Means(q.right, e)
      [] q.is = "and" -> Means(q.left, e) /\ Means(q.right, e)

RECURSIVE Depth(_)
Depth(q) ==
    CASE q.is = "cmp" -> 1
      [] q.is = "not" -> Depth(q.of) + (IF q.of.is \in {"and", "or"} THEN 2 ELSE 1)
      [] OTHER -> LET inner(x) == Depth(x) + (IF x.is = "and" \/ (x.is = "or" /\ q.is = "or") THEN 1 ELSE 0)
                  IN  IF inner(q.left) > inner(q.right) THEN inner(q.left) ELSE inner(q.right)

-----------------------------------------------------------------------------
\* The parser.  A result is whether it succeeded, the position after what it
\* read, and the indices of the entries accepted.
Bad == [ok |-> FALSE, pos |-> 0, sel |-> {}]
Good(pos, sel) == [ok |-> TRUE, pos |-> pos, sel |-> sel]

\* compare: the operator as a test on the sign of got - want.
compare(op, d) ==
    CASE op \in {"=", ":"} -> d = 0
      [] op = "!=" -> d # 0
      [] op = ">"  -> d > 0
      [] op = ">=" -> d >= 0
      [] op = "<"  -> d < 0
      [] op = "<=" -> d <= 0

\* severityCmp, timeCmp, and a text field's operators.
comparison(pos, field, op, val) ==
    CASE field = "severity" ->
            Good(pos, {i \in DOMAIN entries : compare(op, entries[i].severity - val)})
      [] field = "timestamp" ->
            Good(pos, {i \in DOMAIN entries : compare(op, entries[i].time - val)})
      [] field = "textPayload" /\ op = "=" ->
            Good(pos, {i \in DOMAIN entries : entries[i].text = val})
      [] field = "textPayload" /\ op = "!=" ->
            Good(pos, {i \in DOMAIN entries : entries[i].text # val})
      [] OTHER -> Bad

At(toks, pos, kind, text) == pos <= Len(toks) /\ toks[pos].kind = kind /\ toks[pos].text = text
keyword(toks, pos, kw) == At(toks, pos, "word", kw) /\ ~toks[pos].minus

RECURSIVE and(_, _, _), andMore(_, _, _, _, _), or(_, _, _), orMore(_, _, _, _), unary(_, _, _),
          primary(_, _, _)

\* and: terms until a closing parenthesis or the end; adjacency is AND.
andMore(toks, pos, depth, sel, n) ==
    IF pos > Len(toks) \/ At(toks, pos, ")", ")")
    THEN IF n = 0 THEN Bad ELSE Good(pos, sel)
    ELSE LET r == or(toks, IF keyword(toks, pos, "AND") THEN pos + 1 ELSE pos, depth)
         IN  IF r.ok THEN andMore(toks, r.pos, depth, sel \cap r.sel, n + 1) ELSE Bad

and(toks, pos, depth) == andMore(toks, pos, depth, DOMAIN entries, 0)

\* Mutant: the right of an OR is a whole conjunction, as where AND binds tighter.
orLoose(toks, pos, depth) ==
    LET l == unary(toks, pos, depth)
    IN  IF ~l.ok \/ ~keyword(toks, l.pos, "OR") THEN l
        ELSE LET r == and(toks, l.pos + 1, depth)
             IN  IF r.ok THEN Good(r.pos, l.sel \cup r.sel) ELSE Bad

orMore(toks, pos, depth, sel) ==
    IF keyword(toks, pos, "OR")
    THEN LET r == unary(toks, pos + 1, depth)
         IN  IF r.ok THEN orMore(toks, r.pos, depth, sel \cup r.sel) ELSE Bad
    ELSE Good(pos, sel)

or(toks, pos, depth) ==
    LET l == unary(toks, pos, depth)
    IN  IF l.ok THEN orMore(toks, l.pos, depth, l.sel) ELSE Bad

\* A minus is taken off its word before the rest is read.
unary(toks, pos, depth) ==
    LET minus == pos <= Len(toks) /\ toks[pos].minus
        inner == IF minus THEN unary([toks EXCEPT ![pos].minus = FALSE], pos, depth + 1)
                 ELSE unary(toks, pos + 1, depth + 1)
    IN  IF depth >= MaxFilterDepth THEN Bad
        ELSE IF minus \/ keyword(toks, pos, "NOT")
        THEN IF inner.ok THEN Good(inner.pos, DOMAIN entries \ inner.sel) ELSE Bad
        ELSE primary(toks, pos, depth + 1)

primary(toks, pos, depth) ==
    IF pos > Len(toks) THEN Bad
    ELSE IF At(toks, pos, "(", "(")
    THEN LET r == and(toks, pos + 1, depth)
         IN  IF r.ok /\ At(toks, r.pos, ")", ")") THEN Good(r.pos + 1, r.sel) ELSE Bad
    ELSE IF toks[pos].kind # "word" \/ pos + 2 > Len(toks) \/ toks[pos + 1].kind # "op"
            \/ toks[pos + 2].kind \notin {"word", "string"} THEN Bad
    ELSE comparison(pos + 3, toks[pos].text, toks[pos + 1].text, toks[pos + 2].text)

\* parseFilter: an empty filter accepts everything, and nothing may be left over.
parseFilter(toks) ==
    IF toks = <<>> THEN Good(1, DOMAIN entries)
    ELSE LET r == and(toks, 1, 0) IN IF r.ok /\ r.pos > Len(toks) THEN r ELSE Bad

-----------------------------------------------------------------------------
\* The last n of a sequence.
Newest(s, n) == IF Len(s) > n THEN SubSeq(s, Len(s) - n + 1, Len(s)) ELSE s

\* One request's entries, each with its own time or the server's.
WriteLogEntries(log, batch) ==
    /\ seq + Len(batch) <= MaxWrites
    /\ seq' = seq + Len(batch)
    /\ entries' = Newest(entries \o
           [k \in DOMAIN batch |->
               [log |-> log, severity |-> batch[k].severity, text |-> batch[k].text,
                time |-> IF batch[k].time = 0 THEN now ELSE batch[k].time, id |-> seq + k]],
           MaxEntries)
    /\ answer' = NoAnswer
    /\ UNCHANGED now

\* "timestamp desc" is a stable sort, latest first.
RECURSIVE LatestFirst(_)
LatestFirst(s) ==
    IF s = <<>> THEN <<>>
    ELSE LET i == CHOOSE i \in DOMAIN s :
                     /\ \A j \in DOMAIN s : s[j].time <= s[i].time
                     /\ \A j \in 1..(i - 1) : s[j].time < s[i].time
         IN  <<s[i]>> \o LatestFirst(RemoveAt(s, i))

projectScope(project, log) == log[1] = project

Pick(sel) == LET keep == SetToSortSeq(sel, <) IN [k \in DOMAIN keep |-> entries[keep[k]]]

\* One listing between changes is enough to see every answer.
ListLogEntries(q, project, desc) ==
    LET r == parseFilter(Tokens(q))
        got == Pick({i \in r.sel : projectScope(project, entries[i].log)})
    IN  /\ answer = NoAnswer
        /\ r.ok
        /\ answer' = [query |-> q, project |-> project, desc |-> desc,
                      got |-> IF desc THEN LatestFirst(got) ELSE got]
        /\ UNCHANGED <<entries, now, seq>>

\* A filter nested too deep is refused.
RefuseFilter(q) ==
    /\ answer = NoAnswer
    /\ ~parseFilter(Tokens(q)).ok
    /\ answer' = [NoAnswer EXCEPT !.query = q]
    /\ UNCHANGED <<entries, now, seq>>

\* The entries that stay when these logs go.
Dropped(logs) == SelectSeq(entries, LAMBDA e : e.log \notin logs)

DeleteLog(log) ==
    /\ entries' = Dropped({log})
    /\ entries' # entries
    /\ answer' = NoAnswer
    /\ UNCHANGED <<now, seq>>

Reset(project) ==
    /\ entries' = Dropped({l \in Projects \X Logs : project = "" \/ l[1] = project})
    /\ entries' # entries
    /\ answer' = NoAnswer
    /\ UNCHANGED <<now, seq>>

Tick == now < MaxTime /\ now' = now + 1 /\ UNCHANGED <<entries, seq, answer>>

Next ==
    \/ \E p \in Projects, l \in Logs, b \in Batches : WriteLogEntries(<<p, l>>, b)
    \/ \E q \in Queries, p \in Projects, d \in BOOLEAN : ListLogEntries(q, p, d)
    \/ \E q \in Queries : RefuseFilter(q)
    \/ \E p \in Projects, l \in Logs : DeleteLog(<<p, l>>)
    \/ \E p \in Projects \cup {""} : Reset(p)
    \/ Tick

Spec == Init /\ [][Next]_vars

-----------------------------------------------------------------------------
\* The shape of the list.
TypeOK == Len(entries) <= MaxEntries /\ now \in 1..MaxTime /\ seq \in 0..MaxWrites

\* A listing answers exactly the entries kept, of the project asked about and
\* no other's, that the filter means, each once; oldest written first, or
\* latest first with the earlier written before the later among equal times.
\* A filter is refused only for nesting deeper than the limit.
ListsWhatIsMeant ==
    answer # NoAnswer =>
        LET want == {i \in DOMAIN entries :
                         entries[i].log[1] = answer.project /\ Means(answer.query, entries[i])}
            got == answer.got
        IN  IF answer.project = ""
            THEN Depth(answer.query) > MaxFilterDepth
            ELSE /\ Depth(answer.query) <= MaxFilterDepth
                 /\ ToSet(got) = {entries[i] : i \in want}
                 /\ Len(got) = Cardinality(want)
                 /\ \A j, k \in DOMAIN got :
                        j < k => IF answer.desc
                                 THEN \/ got[j].time > got[k].time
                                      \/ got[j].time = got[k].time /\ got[j].id < got[k].id
                                 ELSE got[j].id < got[k].id
=============================================================================
