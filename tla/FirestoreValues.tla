--------------------------- MODULE FirestoreValues ---------------------------
(***************************************************************************)
(* Firestore's documents as values (services/firestore/value.go, path.go,  *)
(* transform.go, filter.go, query.go): the order of values across types,   *)
(* dotted field paths, the transforms a write carries, and structured      *)
(* queries over one collection.  A value is a record of its type and its   *)
(* content; documents are named by numbers, in key order, and a field path *)
(* is the sequence of its segments.                                        *)
(***************************************************************************)
EXTENDS Integers, Sequences, FiniteSets, SequencesExt, FiniteSetsExt

CONSTANTS Names,      \* the documents of the collection: 1..n, in key order
          Writes,     \* [path, value]: what masked updates set
          Transforms, \* [path, op, arg]: the transforms writes carry
          Queries,    \* the structured queries asked
          MaxEdits    \* bound on writes

VARIABLES coll,   \* coll[d]: the fields of document d
          edits,  \* writes so far
          last    \* ghost: the path the last write was at, and its document

vars == <<coll, edits, last>>

Missing == [t |-> "missing"]
NoFields == [s \in {} |-> Missing]

Init == coll = [d \in Names |-> NoFields] /\ edits = 0 /\ last = [doc |-> 0, path |-> <<>>]

-----------------------------------------------------------------------------
rank(v) ==
    CASE v.t = "null" -> 0 [] v.t = "bool" -> 1 [] v.t \in {"int", "double", "nan"} -> 2
      [] v.t = "timestamp" -> 3 [] v.t = "string" -> 4 [] v.t = "bytes" -> 5
      [] v.t = "reference" -> 6 [] v.t = "geopoint" -> 7 [] v.t = "array" -> 8
      [] v.t = "map" -> 9

sign(n) == IF n < 0 THEN -1 ELSE IF n > 0 THEN 1 ELSE 0


\* An integer and a double are one type; NaN is before every number.
compareNumbers(a, b) ==
    CASE a.t = "nan" /\ b.t = "nan" -> 0
      [] a.t = "nan" /\ b.t # "nan" -> -1
      [] a.t # "nan" /\ b.t = "nan" -> 1
      [] OTHER -> sign(a.v - b.v)

RECURSIVE compare(_, _)

compareArrays(a, b) ==
    LET differ == {i \in 1..Min({Len(a), Len(b)}) : compare(a[i], b[i]) # 0}
    IN IF differ = {} THEN sign(Len(a) - Len(b)) ELSE compare(a[Min(differ)], b[Min(differ)])

\* Values of different types are ordered by type; geopoints and maps tie.
compare(a, b) ==
    CASE rank(a) # rank(b) -> sign(rank(a) - rank(b))
      [] rank(a) = rank(b) /\ a.t \in {"null", "geopoint", "map"} -> 0
      [] rank(a) = rank(b) /\ a.t \in {"int", "double", "nan"} -> compareNumbers(a, b)
      [] rank(a) = rank(b) /\ a.t = "array" -> compareArrays(a.v, b.v)
      [] OTHER -> sign(a.v - b.v)

anyEqual(haystack, needle) == \E i \in DOMAIN haystack : compare(haystack[i], needle) = 0

-----------------------------------------------------------------------------
Held(fields, seg) == IF seg \in DOMAIN fields THEN fields[seg] ELSE Missing
With(fields, seg, v) == [s \in DOMAIN fields \cup {seg} |-> IF s = seg THEN v ELSE fields[s]]
Without(fields, seg) == [s \in DOMAIN fields \ {seg} |-> fields[s]]
MapOf(fields) == [t |-> "map", v |-> fields]

RECURSIVE lookup(_, _)
lookup(fields, path) ==
    LET v == Held(fields, Head(path))
    IN CASE Len(path) = 1 \/ v = Missing -> v
         [] v # Missing /\ Len(path) > 1 -> IF v.t = "map" THEN lookup(v.v, Tail(path)) ELSE Missing

\* Maps are created along the way, and a non-map in the middle is replaced.
RECURSIVE setPath(_, _, _)
setPath(fields, path, value) ==
    LET v == Held(fields, Head(path))
        inner == IF v.t = "map" THEN v.v ELSE NoFields
    IN With(fields, Head(path),
            IF Len(path) = 1 THEN value ELSE MapOf(setPath(inner, Tail(path), value)))

\* Intermediate maps are left.
RECURSIVE deletePath(_, _)
deletePath(fields, path) ==
    LET v == Held(fields, Head(path))
    IN CASE Len(path) = 1 -> Without(fields, Head(path))
         [] Len(path) > 1 /\ v.t = "map" -> With(fields, Head(path), MapOf(deletePath(v.v, Tail(path))))
         [] OTHER -> fields

-----------------------------------------------------------------------------
IsNumber(v) == v # Missing /\ rank(v) = 2

\* An integer plus an integer stays an integer; a field that is absent or not a
\* number starts from zero; NaN stays NaN.
addNumbers(current, delta) ==
    LET base == IF IsNumber(current) THEN current ELSE [t |-> delta.t, v |-> 0]
    IN IF "nan" \in {base.t, delta.t} THEN [t |-> "nan"]
       ELSE [t |-> IF base.t = "int" /\ delta.t = "int" THEN "int" ELSE "double", v |-> base.v + delta.v]

existing(v) == IF v.t = "array" THEN v.v ELSE <<>>

appendMissing(current, add) ==
    [t |-> "array",
     v |-> FoldLeft(LAMBDA out, v : IF anyEqual(out, v) THEN out ELSE Append(out, v), existing(current), add)]

removeAll(current, drop) ==
    [t |-> "array", v |-> SelectSeq(existing(current), LAMBDA v : ~anyEqual(drop, v))]

evaluate(tr, current) ==
    CASE tr.op = "increment" -> addNumbers(current, tr.arg)
      [] tr.op = "maximum" -> IF ~IsNumber(current) \/ compare(tr.arg, current) > 0 THEN tr.arg ELSE current
      [] tr.op = "minimum" -> IF ~IsNumber(current) \/ compare(tr.arg, current) < 0 THEN tr.arg ELSE current
      [] tr.op = "union" -> appendMissing(current, tr.arg)
      [] tr.op = "remove" -> removeAll(current, tr.arg)

Edits(d, path, fields) ==
    /\ edits < MaxEdits
    /\ edits' = edits + 1
    /\ coll' = [coll EXCEPT ![d] = fields]
    /\ last' = [doc |-> d, path |-> path]

applyTransforms(d, tr) ==
    Edits(d, tr.path, setPath(coll[d], tr.path, evaluate(tr, lookup(coll[d], tr.path))))

\* A masked update sets the paths its document has and deletes the others.
SetMasked(d, w) == Edits(d, w.path, setPath(coll[d], w.path, w.value))
DeleteMasked(d, w) == Edits(d, w.path, deletePath(coll[d], w.path))

Next ==
    \E d \in Names :
        \/ \E tr \in Transforms : applyTransforms(d, tr)
        \/ \E w \in Writes : SetMasked(d, w) \/ DeleteMasked(d, w)

Spec == Init /\ [][Next]_vars

-----------------------------------------------------------------------------
NameField == <<"__name__">>
fieldOf(d, path) == IF path = NameField THEN [t |-> "reference", v |-> d] ELSE lookup(coll[d], path)

matchField(d, f) ==
    LET got == fieldOf(d, f.path)
        sign3 == compare(got, f.want)
        held == IF got.t = "array" THEN got.v ELSE <<>>
    IN /\ got # Missing
       /\ CASE f.op = "==" -> sign3 = 0 [] f.op = "!=" -> sign3 # 0
            [] f.op = "<" -> sign3 < 0 [] f.op = "<=" -> sign3 <= 0
            [] f.op = ">" -> sign3 > 0 [] f.op = ">=" -> sign3 >= 0
            [] f.op = "in" -> anyEqual(f.want.v, got)
            [] f.op = "not-in" -> ~anyEqual(f.want.v, got)
            [] f.op = "contains" -> anyEqual(held, f.want)
            [] f.op = "contains-any" -> \E i \in DOMAIN f.want.v : anyEqual(held, f.want.v[i])

matchUnary(d, f) ==
    LET got == fieldOf(d, f.path)
    IN /\ got # Missing
       /\ CASE f.op = "null" -> got.t = "null" [] f.op = "not null" -> got.t # "null"
            [] f.op = "nan" -> got.t = "nan" [] f.op = "not nan" -> got.t # "nan"

RECURSIVE matches(_, _)
matchComposite(d, f) ==
    IF f.op = "and" THEN \A i \in DOMAIN f.subs : matches(d, f.subs[i])
                    ELSE \E i \in DOMAIN f.subs : matches(d, f.subs[i])

matches(d, f) ==
    CASE f.kind = "all" -> TRUE [] f.kind = "composite" -> matchComposite(d, f)
      [] f.kind = "field" -> matchField(d, f) [] f.kind = "unary" -> matchUnary(d, f)

withOrderedFields(ds, clauses) ==
    SelectSeq(ds, LAMBDA d : \A i \in DOMAIN clauses : fieldOf(d, clauses[i].path) # Missing)

\* The comparison order hands to the sort: the first clause that tells the two
\* documents apart decides, and a clause one of them has no field for is passed over.
Before(clauses, d, e) ==
    LET cmp(i) == compare(fieldOf(d, clauses[i].path), fieldOf(e, clauses[i].path))
        tell == {i \in DOMAIN clauses :
                    /\ Missing \notin {fieldOf(d, clauses[i].path), fieldOf(e, clauses[i].path)}
                    /\ cmp(i) # 0}
    IN tell # {} /\ (IF clauses[Min(tell)].desc THEN cmp(Min(tell)) > 0 ELSE cmp(Min(tell)) < 0)

\* sort.SliceStable inserts each document to the left of the ones it is before.
order(ds, clauses) ==
    LET insert(out, d) ==
            LET k == Max({0} \cup {j \in DOMAIN out : ~Before(clauses, d, out[j])})
            IN SubSeq(out, 1, k) \o <<d>> \o SubSeq(out, k + 1, Len(out))
    IN FoldLeft(insert, <<>>, ds)

\* limit -1 stands for a query without one.
window(ds, offset, limit) ==
    LET rest == SubSeq(ds, offset + 1, Len(ds))
    IN IF limit >= 0 /\ limit < Len(rest) THEN SubSeq(rest, 1, limit) ELSE rest

collection == SetToSortSeq({d \in Names : coll[d] # NoFields}, <)

RunQuery(q, offset, limit) ==
    LET kept == SelectSeq(collection, LAMBDA d : matches(d, q.where))
    IN window(order(withOrderedFields(kept, q.orderBy), q.orderBy), offset, limit)

-----------------------------------------------------------------------------

Apart(p, q) == ~IsPrefix(p, q) /\ ~IsPrefix(q, p)
Paths == {w.path : w \in Writes} \cup {tr.path : tr \in Transforms}

\* A write at a path leaves every value at a path beside it as it was, in its
\* own document and in the others (path.go: masks and transforms "walk the
\* nesting rather than treat the whole path as one key").
WritesOnlyItsPath ==
    [][\A d \in Names : \A p \in Paths :
           d # last'.doc \/ Apart(p, last'.path) => lookup(coll'[d], p) = lookup(coll[d], p)]_vars
=============================================================================
