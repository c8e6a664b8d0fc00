-------------------------- MODULE FieldTransforms --------------------------
(***************************************************************************)
(* The transforms that change the fields of one record (internal/etl/       *)
(* transform: rename, project and type_convert in builtin.go, cast.go,      *)
(* coalesce.go).  A configuration that is a Go map is visited in any order, *)
(* one entry a step; a list is visited in its order.                        *)
(*                                                                          *)
(* Values are abstracted to their kinds: what a conversion does depends on  *)
(* the type of the value and on whether its text is a number, a date, ....  *)
(*                                                                          *)
(* The second part is the language of the filter transform: tokenizer,      *)
(* parser and evaluation (builtin.go).                                      *)
(***************************************************************************)
EXTENDS Integers, Sequences, FiniteSets
CONSTANTS
    Fields,           \* the field names; Absent is no field
    MaxTokens         \* bound: length of a filter expression

VARIABLES
    conf,             \* [kind, step, map, keep, onError]
    log,              \* the record as it came
    mem,              \* [data, todo]: the record now, the entries to visit
    out               \* the verdict: "", "passed", "filtered" or "failed"

fields == <<conf, log, mem, out>>

\* Every kind stands for a value: intstr is "1", zerostr "0", fracstr "1.5", datestr
\* "2024-01-02", liststr a JSON array, openstr begins like one and is none, quoted
\* is a JSON string, requoted one in another; float is 1.0 and frac 1.5.
Absent  == "absent"
Strings == {"empty", "text", "intstr", "zerostr", "fracstr", "datestr", "truestr", "falsestr",
            "liststr", "openstr", "quoted", "requoted"}
Numbers == {"zero", "int", "float", "frac"}
Times   == {"time", "midnight"}
Values  == Strings \cup Numbers \cup Times \cup {"nil", "true", "false", "list"}
Error   == "error"

\* --------------------------- conversion of a value ------------------------

\* castToInt: a fraction is cut, a text must be a number.
castToInt(v) ==
    CASE v \in {"zero", "false", "zerostr"}                         -> "zero"
      [] v \in {"int", "float", "frac", "true", "intstr", "fracstr"} -> "int"
      [] OTHER                                                      -> Error

\* castToFloat: Sscanf reads as far as the text looks like a number, so the
\* year of a date is taken for one.
castToFloat(v) ==
    CASE v \in {"zero", "false", "zerostr"}                   -> "zero"
      [] v \in {"int", "float", "true", "intstr", "datestr"}  -> "float"
      [] v \in {"frac", "fracstr"}                            -> "frac"
      [] OTHER                                                -> Error

\* castToBool: a text must be one of the names of a truth value.
castToBool(v) ==
    CASE v \in (Numbers \ {"zero"}) \cup {"true", "truestr", "intstr"}  -> "true"
      [] v \in {"zero", "false", "falsestr", "zerostr", "empty"}        -> "false"
      [] OTHER                                                          -> Error

\* castToTimestamp, unixLikeTime and parseCastTimeString.
castToTimestamp(v) ==
    CASE v \in {"midnight", "zero", "zerostr", "datestr"}  -> "midnight"
      [] v \in {"time", "int", "float", "frac", "intstr"}  -> "time"
      [] OTHER                                             -> Error

\* to_date: the day of the timestamp.
castToDate(v) == IF castToTimestamp(v) = Error THEN Error ELSE "midnight"

\* castToArray: a text is parsed, where it begins with a bracket, or split; a
\* scalar is wrapped.
castToArray(v) == IF v = "openstr" THEN Error ELSE "list"

\* to_json: a text and a time become a JSON string.
castToJSON(v) ==
    CASE v \in {"quoted", "requoted"}      -> "requoted"
      [] v \in Strings \cup Times          -> "quoted"
      [] v = "zero"                        -> "zerostr"
      [] v \in {"int", "float"}            -> "intstr"
      [] v = "frac"                        -> "fracstr"
      [] v = "true"                        -> "truestr"
      [] v = "false"                       -> "falsestr"
      [] v = "list"                        -> "liststr"

\* to_string: %v of a time is no layout the parsers know.
castToString(v) ==
    IF v \in Strings THEN v ELSE IF v \in Times THEN "text" ELSE castToJSON(v)

\* castValue
castValue(v, target) ==
    CASE target = "to_int"       -> castToInt(v)
      [] target = "to_float"     -> castToFloat(v)
      [] target = "to_bool"      -> castToBool(v)
      [] target = "to_timestamp" -> castToTimestamp(v)
      [] target = "to_date"      -> castToDate(v)
      [] target = "to_json"      -> castToJSON(v)
      [] target = "to_array"     -> castToArray(v)
      [] target = "to_string"    -> castToString(v)

Targets == {"to_int", "to_float", "to_bool", "to_timestamp", "to_date", "to_json", "to_array", "to_string"}

\* convertType: over the text of the value, nil and lists included; the value is
\* kept on an error.
convertType(v, target) ==
    LET s == IF v = "nil" THEN "text" ELSE IF v = "list" THEN "openstr" ELSE castToString(v)
        c == CASE target = "to_int"       -> castToInt(s)
               [] target = "to_float"     -> IF s = "datestr" THEN Error ELSE castToFloat(s)
               [] target = "to_bool"      -> IF s \in {"empty", "fracstr"} THEN Error ELSE castToBool(s)
               [] target = "to_timestamp" -> IF s = "datestr" THEN "midnight" ELSE Error
               [] target = "to_string"    -> s
               [] OTHER                   -> v
    IN  IF c = Error THEN v ELSE c

\* isCoalesceEmpty
isCoalesceEmpty(v) == v \in {Absent, "nil", "empty", "false", "zero"}

\* ----------------------------- configurations -----------------------------

Names == {"rename", "project", "cast", "type_convert", "coalesce"}

\* A mapping from fields to fields, or to cast targets.
Renames == UNION {[D -> Fields] : D \in (SUBSET Fields) \ {{}}}
Casts   == UNION {[D -> {"to_int", "to_timestamp"}] : D \in (SUBSET Fields) \ {{}}}

Configs ==
    [kind : {"fields"}, name : {"rename"}, map : Renames, keep : {FALSE}, onError : {"null"}]
    \cup [kind : {"fields"}, name : {"project"}, map : Renames, keep : BOOLEAN, onError : {"null"}]
    \cup [kind : {"fields"}, name : {"cast"}, map : Casts, keep : {FALSE},
          onError : {"null", "skip", "fail"}]
    \cup [kind : {"fields"}, name : {"type_convert"}, map : Casts, keep : {FALSE}, onError : {"null"}]
    \cup [kind : {"fields"}, name : {"coalesce"}, map : {[f \in Fields |-> f]}, keep : {FALSE},
          onError : {"null"}]

\* Records: values that tell the conversions apart.
Records == [Fields -> {Absent, "text", "intstr", "zero"}]

\* One field, every target and every value.
SingleCasts ==
    [kind : {"fields"}, name : {"cast"}, map : UNION {[{f} -> Targets] : f \in Fields}, keep : {FALSE},
     onError : {"null", "skip", "fail"}]
SingleValues(c) == {[f \in Fields |-> IF f \in DOMAIN c.map THEN v ELSE Absent] : v \in Values}

Init ==
    /\ \/ conf \in Configs /\ log \in Records
       \/ conf \in SingleCasts /\ log \in SingleValues(conf)
    /\ mem = [data |-> IF conf.name = "project" /\ ~conf.keep
                          THEN [f \in Fields |-> Absent] ELSE log,
              todo |-> DOMAIN conf.map]
    /\ out = ""

\* ------------------------------- the loops --------------------------------

\* RenameTransform.Apply: one entry of the map.
RenameEntry(d, f) ==
    IF d[f] = Absent THEN d ELSE [[d EXCEPT ![f] = Absent] EXCEPT ![conf.map[f]] = d[f]]

\* ProjectTransform.Apply: one entry of the mappings, read from the record as
\* it came.
ProjectEntry(d, f) ==
    IF log[f] = Absent THEN d
    ELSE [[d EXCEPT ![f] = IF conf.keep /\ conf.map[f] # f THEN Absent ELSE @]
            EXCEPT ![conf.map[f]] = log[f]]

\* CastTransform.Apply: one entry of the casts.
CastEntry(d, f) ==
    LET v == IF d[f] \in {Absent, "nil"} THEN d[f] ELSE castValue(d[f], conf.map[f])
    IN  [d EXCEPT ![f] = IF v = Error THEN "nil" ELSE v]

CastFails(d, f) == d[f] \notin {Absent, "nil"} /\ castValue(d[f], conf.map[f]) = Error

\* TypeConvertTransform.Apply: one entry.
ConvertEntry(d, f) ==
    [d EXCEPT ![f] = IF @ = Absent THEN @ ELSE convertType(@, conf.map[f])]

Entry(d, f) ==
    CASE conf.name = "rename"       -> RenameEntry(d, f)
      [] conf.name = "project"      -> ProjectEntry(d, f)
      [] conf.name = "cast"         -> CastEntry(d, f)
      [] conf.name = "type_convert" -> ConvertEntry(d, f)
      [] conf.name = "coalesce"     -> d

\* The loop visits an entry of the map; a cast that fails ends it unless
\* on_error is null.
Visit(f) ==
    /\ out = ""
    /\ f \in mem.todo
    /\ IF conf.name = "cast" /\ CastFails(mem.data, f) /\ conf.onError # "null"
          THEN /\ out' = IF conf.onError = "fail" THEN "failed" ELSE "filtered"
               /\ UNCHANGED mem
          ELSE /\ mem' = [data |-> Entry(mem.data, f), todo |-> mem.todo \ {f}]
               /\ UNCHANGED out
    /\ UNCHANGED <<conf, log>>

\* CoalesceTransform.Apply over a list of the fields into the first of them.
coalesce(d, list, target) ==
    LET full == {k \in DOMAIN list : ~isCoalesceEmpty(d[list[k]])}
    IN  IF full = {} THEN d
        ELSE [d EXCEPT ![target] = d[list[CHOOSE k \in full : \A j \in full : k <= j]]]

\* Apply returns.
Finish(list) ==
    /\ out = ""
    /\ mem.todo = {}
    /\ out' = "passed"
    /\ mem' = IF conf.name = "coalesce"
                 THEN [mem EXCEPT !.data = coalesce(@, list, list[Len(list)])] ELSE mem
    /\ UNCHANGED <<conf, log>>

NextWith(list) == (\E f \in Fields : Visit(f)) \/ Finish(list)

\* ------------------------------- properties -------------------------------

Sources == DOMAIN conf.map

\* No field is both renamed and the new name of another, and no two get the
\* same name.
Disjoint ==
    /\ \A f \in Sources : conf.map[f] \in Sources => conf.map[f] = f
    /\ \A f, g \in Sources : conf.map[f] = conf.map[g] => f = g

\* The record with all fields renamed at once.
RenamedAtOnce ==
    [g \in Fields |->
        LET from == {f \in Sources : conf.map[f] = g /\ log[f] # Absent}
        IN  IF from # {} THEN log[CHOOSE f \in from : TRUE]
            ELSE IF g \in Sources THEN Absent ELSE log[g]]

\* The order in which Go visits the map does not show: rename, and project
\* with keep_unmapped, move all the fields at once.  (For mappings that do
\* not chain; others depend on the order.)
MapOrderDoesNotShow ==
    (out = "passed" /\ Disjoint /\ (conf.name = "rename" \/ (conf.name = "project" /\ conf.keep))) =>
        mem.data = RenamedAtOnce

\* A conversion accepts what it made: casting once more changes nothing, so a
\* record that goes through the same chain again after a replay is the same.
\* to_json is left out: it quotes the text it made.
CastTwiceIsCastOnce ==
    (out = "passed" /\ conf.name = "cast") =>
        \A f \in Sources :
            mem.data[f] \notin {Absent, "nil"} /\ conf.map[f] # "to_json"
                => castValue(mem.data[f], conf.map[f]) = mem.data[f]

\* on_error decides alone: under null and for type_convert no record is lost,
\* and a record that is let through carries no value of the wrong type.
CastDeliversTheType ==
    /\ (conf.name # "cast" \/ conf.onError = "null") => out \in {"", "passed"}
    /\ (out = "passed" /\ conf.name = "cast") =>
            \A f \in Sources : mem.data[f] \in
                {Absent, "nil"} \cup {castValue(v, conf.map[f]) : v \in Values \ {"nil"}}

-----------------------------------------------------------------------------
(* The expressions of the filter transform (internal/etl/transform/         *)
(* builtin.go): tokenize, the recursive-descent parser over the tokens, and *)
(* the evaluation of a predicate on a record with and without strict_types. *)
(* An expression is typed one token at a time; after every token the parser *)
(* is compared with the grammar its comment states, read as the set of all  *)
(* derivations, and the evaluation with a logic of three values.            *)
(*                                                                          *)
(* Characters are abstracted: the alphabet is the tokens themselves.  The   *)
(* fields are a and b; "cmp" is one comparison operator, "num" and "str"    *)
(* one number and one quoted string.                                        *)
(*                                                                          *)
(* conf is strict_types and the record, log the tokens typed so far.        *)

filter == <<conf, log>>

Tokens == {"a", "b", "nil", "cmp", "num", "str", "(", ")", "&&", "||", "!"}
Idents == {"a", "b", "nil"}
EOF    == "eof"

\* What a record may hold in a field: no such field, null, a number that
\* satisfies the comparison or one that does not, a text that is no number.
Contents == {"absent", "null", "yes", "no", "text"}

NoRecord == [kind |-> "filter", strict |-> FALSE, a |-> "absent", b |-> "absent"]

FilterInit ==
    /\ conf = NoRecord
    /\ log = << >>

\* One more token of the expression.
Type ==
    /\ conf = NoRecord
    /\ Len(log) < MaxTokens
    /\ \E t \in Tokens : log' = Append(log, t)
    /\ UNCHANGED conf

\* -------------------------------- predicates ------------------------------

Field(f)      == <<"field", f>>
Not(p)        == <<"not", p>>
Compare(f, v) == <<"compare", f, v>>
And(p, q)     == <<"and", p, q>>
Or(p, q)      == <<"or", p, q>>

\* --------------------------------- the parser -----------------------------

\* tokenize: the tokens and a sentinel.
tokenize(s) == Append(s, EOF)

\* A parser function returns a predicate and the place behind it, or an error.
Parsed(p, at) == [ok |-> TRUE, pred |-> p, at |-> at]
ParseError    == [ok |-> FALSE, pred |-> << >>, at |-> 0]

\* field op value: the value must be a number or a string.
parseCompare(ts, f, at) ==
    IF ts[at + 1] \in {"num", "str"} THEN Parsed(Compare(f, ts[at + 1]), at + 2) ELSE ParseError

RECURSIVE parseOr(_, _)
RECURSIVE parseNot(_, _)
RECURSIVE moreAnd(_, _)
RECURSIVE moreOr(_, _)

\* An identifier: "field nil", "field op value", or the field alone.
parseField(ts, at) ==
    IF ts[at + 1] = "nil" THEN Parsed(Not(Field(ts[at])), at + 2)
    ELSE IF ts[at + 1] = "cmp" THEN parseCompare(ts, ts[at], at + 1)
    ELSE Parsed(Field(ts[at]), at + 1)

\* parseAtom
parseAtom(ts, at) ==
    IF ts[at] = "("
       THEN LET inner == parseOr(ts, at + 1)
            IN  IF inner.ok /\ ts[inner.at] = ")" THEN Parsed(inner.pred, inner.at + 1)
                                                  ELSE ParseError
    ELSE IF ts[at] \in Idents THEN parseField(ts, at) ELSE ParseError

\* parseNot
parseNot(ts, at) ==
    IF ts[at] = "!"
       THEN LET child == parseNot(ts, at + 1)
            IN  IF child.ok THEN Parsed(Not(child.pred), child.at) ELSE ParseError
    ELSE parseAtom(ts, at)

\* The loop of parseAnd, with the left operand read so far.
moreAnd(ts, left) ==
    IF ~left.ok \/ ts[left.at] # "&&" THEN left
    ELSE LET right == parseNot(ts, left.at + 1)
         IN  IF right.ok THEN moreAnd(ts, Parsed(And(left.pred, right.pred), right.at))
                         ELSE ParseError

\* parseAnd
parseAnd(ts, at) == moreAnd(ts, parseNot(ts, at))

\* The loop groups to the right.
moreOrToTheRight(ts, left) ==
    IF ~left.ok \/ ts[left.at] # "||" THEN left
    ELSE LET right == parseOr(ts, left.at + 1)
         IN  IF right.ok THEN Parsed(Or(left.pred, right.pred), right.at) ELSE ParseError

\* The loop of parseOr.
moreOr(ts, left) ==
    IF ~left.ok \/ ts[left.at] # "||" THEN left
    ELSE LET right == parseAnd(ts, left.at + 1)
         IN  IF right.ok THEN moreOr(ts, Parsed(Or(left.pred, right.pred), right.at))
                         ELSE ParseError

\* parseOr
parseOr(ts, at) == moreOr(ts, parseAnd(ts, at))

\* compileFilter: the whole expression, up to the sentinel.
compileFilter(s) ==
    LET ts == tokenize(s)  res == parseOr(ts, 1)
    IN  IF res.ok /\ ts[res.at] = EOF THEN res ELSE ParseError

\* -------------------------------- evaluation ------------------------------

Result(r, e) == [match |-> r, err |-> e]

\* compareValues: a number is wanted and the value is none.
compareValues(v, want) ==
    IF want = "num" /\ v = "text" THEN Result(FALSE, conf.strict) ELSE Result(v = "yes", FALSE)

Value(f) == CASE f = "a" -> conf.a [] f = "b" -> conf.b [] OTHER -> "absent"

\* A disjunction goes on after an error of its left side.
RECURSIVE evalIgnoringErrors(_)
evalIgnoringErrors(p) ==
    CASE p[1] = "field"   -> Result(Value(p[2]) \notin {"absent", "null"}, FALSE)
      [] p[1] = "not"     -> Result(~evalIgnoringErrors(p[2]).match, FALSE)
      [] p[1] = "compare" -> compareValues(Value(p[2]), p[3])
      [] p[1] = "and"     -> LET l == evalIgnoringErrors(p[2])
                             IN  IF ~l.match THEN Result(FALSE, FALSE) ELSE evalIgnoringErrors(p[3])
      [] p[1] = "or"      -> LET l == evalIgnoringErrors(p[2])
                             IN  IF l.match THEN Result(TRUE, FALSE) ELSE evalIgnoringErrors(p[3])

\* filterPredicate.eval
RECURSIVE eval(_)
eval(p) ==
    CASE p[1] = "field"   -> Result(Value(p[2]) \notin {"absent", "null"}, FALSE)
      [] p[1] = "not"     -> LET c == eval(p[2]) IN Result(~c.match, c.err)
      [] p[1] = "compare" -> IF Value(p[2]) \in {"absent", "null"} THEN Result(FALSE, FALSE)
                             ELSE compareValues(Value(p[2]), p[3])
      [] p[1] = "and"     -> LET l == eval(p[2])
                             IN  IF l.err \/ ~l.match THEN Result(FALSE, l.err) ELSE eval(p[3])
      [] p[1] = "or"      -> LET l == eval(p[2])
                             IN  IF l.err \/ l.match THEN Result(l.match /\ ~l.err, l.err)
                                 ELSE eval(p[3])

\* FilterTransform.Apply on the record of conf.
FilterApply(p) ==
    CASE eval(p).err   -> "failed"
      [] eval(p).match -> "passed"
      [] OTHER         -> "filtered"

\* A record arrives at the compiled filter.
Arrive ==
    /\ conf = NoRecord
    /\ log # << >>
    /\ compileFilter(log).ok
    /\ conf' \in [kind : {"filter"}, strict : BOOLEAN, a : Contents, b : {"absent", "no"}]
    /\ UNCHANGED log

FilterNext == Type \/ Arrive

\* ------------------------------- properties -------------------------------

\* The grammar of compileFilter's comment, as the predicates each nonterminal
\* derives from tokens i to j.
RECURSIVE orSpan(_, _, _)
RECURSIVE notSpan(_, _, _)
RECURSIVE andSpan(_, _, _)

atomSpan(s, i, j) ==
    (IF i < j /\ s[i] = "(" /\ s[j] = ")" THEN orSpan(s, i + 1, j - 1) ELSE {})
    \cup (IF i = j /\ s[i] \in Idents THEN {Field(s[i])} ELSE {})
    \cup (IF j = i + 1 /\ s[i] \in Idents /\ s[j] = "nil" THEN {Not(Field(s[i]))} ELSE {})
    \cup (IF j = i + 2 /\ s[i] \in Idents /\ s[i + 1] = "cmp" /\ s[j] \in {"num", "str"}
             THEN {Compare(s[i], s[j])} ELSE {})

notSpan(s, i, j) ==
    atomSpan(s, i, j) \cup (IF i < j /\ s[i] = "!" THEN {Not(p) : p \in notSpan(s, i + 1, j)} ELSE {})

andSpan(s, i, j) ==
    notSpan(s, i, j)
    \cup UNION {{And(p, q) : p \in andSpan(s, i, k - 1), q \in notSpan(s, k + 1, j)} :
                    k \in {k \in i + 1..j - 1 : s[k] = "&&"}}

orSpan(s, i, j) ==
    andSpan(s, i, j)
    \cup UNION {{Or(p, q) : p \in orSpan(s, i, k - 1), q \in andSpan(s, k + 1, j)} :
                    k \in {k \in i + 1..j - 1 : s[k] = "||"}}

\* The parser accepts exactly the expressions of the grammar, reads no token
\* twice or past the sentinel, and builds the one tree the grammar gives:
\* || binds weaker than && and both group to the left.
ParsesTheGrammar ==
    log # << >> =>
        LET derived == orSpan(log, 1, Len(log))  res == compileFilter(log)
        IN  IF res.ok THEN derived = {res.pred} ELSE derived = {}

\* What a reading with the third value "mismatch" says of a predicate: under
\* strict_types a number compared with a text decides nothing.
RECURSIVE truth(_)
truth(p) ==
    CASE p[1] = "field"   -> IF Value(p[2]) \in {"absent", "null"} THEN "false" ELSE "true"
      [] p[1] = "not"     -> IF truth(p[2]) = "mismatch" THEN "mismatch"
                             ELSE IF truth(p[2]) = "true" THEN "false" ELSE "true"
      [] p[1] = "compare" -> IF conf.strict /\ p[3] = "num" /\ Value(p[2]) = "text" THEN "mismatch"
                             ELSE IF Value(p[2]) = "yes" THEN "true" ELSE "false"
      [] p[1] = "and"     -> IF truth(p[2]) # "true" THEN truth(p[2]) ELSE truth(p[3])
      [] p[1] = "or"      -> IF truth(p[2]) # "false" THEN truth(p[2]) ELSE truth(p[3])

\* Under strict_types a record is never dropped on a comparison that could not
\* be made, under negation included: it fails and goes to the dead letter
\* queue; without strict_types no record fails.
MismatchIsNeverADrop ==
    (log # << >> /\ compileFilter(log).ok) =>
        LET p == compileFilter(log).pred
        IN  FilterApply(p) = CASE truth(p) = "mismatch" -> "failed"
                               [] truth(p) = "true"     -> "passed"
                               [] OTHER                 -> "filtered"
=============================================================================
