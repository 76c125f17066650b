-------------------------------- MODULE Query --------------------------------
(***************************************************************************)
(* The query layer: QueryBuilder, Param and substitute_params; and the typed *)
(* access to the rows that come back, which shares no state with them.  A    *)
(* text is the sequence of its bytes in UTF-8, a keyword being one element    *)
(* and a byte above 7F being written as its two hex digits.                  *)
(***************************************************************************)
EXTENDS Integers, Sequences, SequencesExt, FiniteSets

CONSTANTS Idents,     \* identifiers a caller passes
          Values,     \* Params: <<variant, payload>>
          Raw,        \* statements a caller passes to substitute_params itself
          Base,       \* numbers of conditions a builder starts with
          MaxConds,   \* bound: conditions added to them
          UsizeMax    \* the largest usize

VARIABLES qb,         \* the builder, or the statement and its parameters
          refused     \* a call returned an error

queryVars == <<qb, refused>>

Digits == <<"0", "1", "2", "3", "4", "5", "6", "7", "8", "9">>
Digit  == Range(Digits)
Value(d) == CHOOSE n \in 0..9 : Digits[n + 1] = d

RECURSIVE show(_)
show(n) == IF n < 10 THEN <<Digits[n + 1]>> ELSE Append(show(n \div 10), Digits[(n % 10) + 1])

RECURSIVE parse(_)
parse(ds) == IF ds = <<>> THEN 0 ELSE 10 * parse(Front(ds)) + Value(Last(ds))

\* to_string of an i32 or an i64
to_string(n) == IF n < 0 THEN <<"-">> \o show(-n) ELSE show(n)

\* `byte as char` of the bytes that a text of the instance has above 7F
Latin1 == [C3 |-> <<"C3", "83">>, A9 |-> <<"C2", "A9">>]

as_char(b) == IF b \in DOMAIN Latin1 THEN Latin1[b] ELSE <<b>>

-----------------------------------------------------------------------------
(* Param.  The payload of a Float8 is its to_string.                          *)

Quote == "'"

\* every quote in a text value is doubled
double_quotes(s) == FlattenSeq([i \in DOMAIN s |-> IF s[i] = Quote THEN <<Quote, Quote>> ELSE <<s[i]>>])

\* variant: the text goes in as it is
to_sql_literal_NoEscape(p) ==
    CASE p[1] = "Null"  -> <<"NULL">>
      [] p[1] = "Bool"  -> <<IF p[2] THEN "TRUE" ELSE "FALSE">>
      [] p[1] \in {"Int4", "Int8"} -> to_string(p[2])
      [] p[1] = "Float8" -> p[2]
      [] p[1] = "Text"  -> <<Quote>> \o p[2] \o <<Quote>>
      [] p[1] = "Bytes" -> <<Quote, "\\x">> \o p[2] \o <<Quote>>

to_sql_literal(p) ==
    CASE p[1] = "Null"  -> <<"NULL">>
      [] p[1] = "Bool"  -> <<IF p[2] THEN "TRUE" ELSE "FALSE">>
      [] p[1] \in {"Int4", "Int8"} -> to_string(p[2])
      [] p[1] = "Float8" -> p[2]
      [] p[1] = "Text"  -> <<Quote>> \o double_quotes(p[2]) \o <<Quote>>
      [] p[1] = "Bytes" -> <<Quote, "\\x">> \o p[2] \o <<Quote>>

\* the end of the run of digits that starts at i
digits_end(s, i) == CHOOSE j \in i..(Len(s) + 1) :
                        (\A k \in i..(j - 1) : s[k] \in Digit) /\ (j > Len(s) \/ s[j] \notin Digit)

OutOfRange == <<"error">>
Panic      == <<"panic">>

QuotesIn(s, i) == Cardinality({j \in 1..i : s[j] = Quote})

\* where a placeholder is: outside the string literals, which quotes open and close
placeholders(sql) ==
    {i \in 1..(Len(sql) - 1) : sql[i] = "$" /\ sql[i + 1] \in Digit /\ QuotesIn(sql, i) % 2 = 0}

index_at(sql, i) == parse(SubSeq(sql, i + 1, digits_end(sql, i + 1) - 1))

\* the first placeholder without a parameter ends the call: the unwrap of an index that is
\* no usize panics, any other one is an Err; what is not a placeholder is copied byte by byte
substitute_params(sql, params) ==
    LET at == placeholders(sql)
        beyond == {i \in at : index_at(sql, i) \notin 1..Len(params)}
        first  == CHOOSE i \in beyond : \A j \in beyond : i <= j
        piece(i) == IF i \in at THEN to_sql_literal(params[index_at(sql, i)])
                    ELSE IF \E p \in at : p < i /\ i < digits_end(sql, p + 1) THEN <<>>
                    ELSE as_char(sql[i])
    IN IF beyond # {} THEN IF index_at(sql, first) > UsizeMax THEN Panic ELSE OutOfRange
       ELSE <<"ok", FlattenSeq([i \in DOMAIN sql |-> piece(i)])>>

-----------------------------------------------------------------------------
(* QueryBuilder.                                                              *)

validate_identifier(ident) == ident # <<>> /\ \A i \in DOMAIN ident : ident[i] \in {"u", "_", ".", "1"}

Builder(table) ==
    [table |-> table, columns |-> <<>>, conditions |-> <<>>, order |-> <<>>, limit |-> <<>>, offset |-> <<>>]

QInit ==
    /\ refused = FALSE
    /\ \/ \E n \in Base :  \* a builder that has already n equal conditions
            qb = [Builder(<<"u">>) EXCEPT !.conditions = [i \in 1..n |-> <<<<"u">>, <<"Null", <<>>>>>>]]
       \/ \E sql \in Raw, v \in Values : qb = [sql |-> sql, params |-> <<v>>]

Building == "table" \in DOMAIN qb /\ ~refused

\* a call with an identifier to check: Err consumes the builder
Checked(idents, next) ==
    /\ Building
    /\ IF \A i \in DOMAIN idents : validate_identifier(idents[i])
       THEN qb' = next /\ UNCHANGED refused
       ELSE refused' = TRUE /\ UNCHANGED qb

select(table)      == Len(qb.conditions) = 0 /\ qb = Builder(<<"u">>) /\ Checked(<<table>>, Builder(table))
columns(cols)      == Building /\ Checked(cols, [qb EXCEPT !.columns = cols])
where_eq(col, val) == Building /\ Checked(<<col>>, [qb EXCEPT !.conditions = Append(@, <<col, val>>)])
order_by(col, ord) == Building /\ Checked(<<col>>, [qb EXCEPT !.order = <<col, ord>>])
limit(n)           == Building /\ qb' = [qb EXCEPT !.limit = <<n>>] /\ UNCHANGED refused
offset(n)          == Building /\ qb' = [qb EXCEPT !.offset = <<n>>] /\ UNCHANGED refused

\* the parts with a separator between them
Joined(parts, sep) ==
    FlattenSeq([i \in DOMAIN parts |-> (IF i = 1 THEN <<>> ELSE <<sep>>) \o parts[i]])

build(q) ==
    [sql |-> <<"SELECT">> \o (IF q.columns = <<>> THEN <<"*">> ELSE Joined(q.columns, ","))
             \o <<"FROM">> \o q.table
             \o (IF q.conditions = <<>> THEN <<>>
                 ELSE <<"WHERE">> \o Joined([i \in DOMAIN q.conditions |->
                          q.conditions[i][1] \o <<"=", "$">> \o show(i)], "AND"))
             \o (IF q.order = <<>> THEN <<>> ELSE <<"ORDER BY">> \o q.order[1] \o <<q.order[2]>>)
             \o (IF q.limit = <<>> THEN <<>> ELSE <<"LIMIT">> \o show(q.limit[1]))
             \o (IF q.offset = <<>> THEN <<>> ELSE <<"OFFSET">> \o show(q.offset[1])),
     params |-> [i \in DOMAIN q.conditions |-> q.conditions[i][2]]]

build_inlined(q) == LET b == build(q) IN substitute_params(b.sql, b.params)

QNext ==
    \/ \E t \in Idents : Building /\ select(t)
    \/ \E c \in Idents : /\ Building /\ qb.conditions = <<>> /\ qb.columns = <<>>
                         /\ (columns(<<c>>) \/ columns(<<<<"u">>, c>>))
    \/ \E c \in Idents, v \in Values :
          /\ Building /\ \E n \in Base : Len(qb.conditions) \in n..(n + MaxConds - 1)
          /\ qb.order = <<>> /\ qb.limit = <<>> /\ where_eq(c, v)
    \/ \E c \in Idents : Building /\ qb.order = <<>> /\ qb.limit = <<>> /\ order_by(c, "DESC")
    \/ Building /\ qb.limit = <<>> /\ limit(10)
    \/ Building /\ qb.limit # <<>> /\ qb.offset = <<>> /\ offset(7)

-----------------------------------------------------------------------------
(* A reader of SQL text, as the server lexes it: its rules for standard string *)
(* literals and for comments to the end of the line.                           *)

\* the quotes at i - 1 and i are a doubled quote of a literal
Doubles(s, i) == i > 1 /\ s[i] = Quote /\ s[i - 1] = Quote /\ QuotesIn(s, i) % 2 = 1 /\ QuotesIn(s, i - 2) > 0

Starts(s, i)  == s[i] = Quote /\ QuotesIn(s, i) % 2 = 1 /\ ~Doubles(s, i)
Closes(s, i) == s[i] = Quote /\ QuotesIn(s, i) % 2 = 0 /\ ~(i < Len(s) /\ Doubles(s, i + 1))

\* the end of the literal that opens at i; without a quote to end it, it runs on
literal_end(s, i) == CHOOSE e \in i..(Len(s) + 1) :
    (\A k \in (i + 1)..(e - 1) : ~Closes(s, k)) /\ (e > Len(s) \/ (e > i /\ Closes(s, e)))

\* a doubled quote in a literal is one
Body(s, i, e) == FlattenSeq([k \in 1..(e - i - 1) |-> IF Doubles(s, i + k) THEN <<>> ELSE <<s[i + k]>>])

lex(s) ==
    LET opens  == {i \in DOMAIN s : Starts(s, i)}
        inside == {k \in DOMAIN s : \E i \in opens : i < k /\ k <= literal_end(s, i)}
        comment == {i \in DOMAIN s : \E k \in 1..i : /\ k < Len(s) /\ s[k] = "-" /\ s[k + 1] = "-"
                                                    /\ k \notin inside}
        params == {i \in 1..(Len(s) - 1) : s[i] = "$" /\ s[i + 1] \in Digit} \ inside
        number == {k \in DOMAIN s : \E p \in params : p < k /\ k < digits_end(s, p + 1)}
        lexeme(i) == CASE i \in comment -> <<>>
                       [] i \in opens  -> <<<<"lit", Body(s, i, literal_end(s, i))>>>>
                       [] i \in params -> <<<<"param", index_at(s, i)>>>>
                       [] i \in inside \cup number -> <<>>
                       [] OTHER        -> <<<<"word", s[i]>>>>
    IN FlattenSeq([i \in DOMAIN s |-> lexeme(i)])

Words(t) == [i \in DOMAIN t |-> <<"word", t[i]>>]

NotFinite == {<<"N", "a", "N">>, <<"i", "n", "f">>, <<"-", "i", "n", "f">>}

\* the lexemes a value stands for; a number that is not finite is written as a string
Lexemes(p) ==
    CASE p[1] = "Text"  -> <<<<"lit", p[2]>>>>
      [] p[1] = "Bytes" -> <<<<"lit", <<"\\x">> \o p[2]>>>>
      [] p[1] = "Null"  -> <<<<"word", "NULL">>>>
      [] p[1] = "Bool"  -> <<<<"word", IF p[2] THEN "TRUE" ELSE "FALSE">>>>
      [] p[1] \in {"Int4", "Int8"} -> Words(to_string(p[2]))
      [] p[1] = "Float8" -> IF p[2] \in NotFinite THEN <<<<"lit", p[2]>>>> ELSE Words(p[2])

Substituted(ls, params) ==
    FlattenSeq([i \in DOMAIN ls |-> IF ls[i][1] = "param" THEN Lexemes(params[ls[i][2]]) ELSE <<ls[i]>>])

Stmt == IF "table" \in DOMAIN qb THEN build(qb) ELSE qb

\* what the code does not carry over: a byte above 7F outside the values; a NaN or an infinity,
\* which becomes a bare word; a negative number right after a minus sign, which makes a comment
Mangled(st) ==
    \/ \E i \in DOMAIN st.sql : st.sql[i] \in DOMAIN Latin1
    \/ \E v \in ToSet(st.params) : v[1] = "Float8" /\ v[2] \in NotFinite
    \/ \E i \in placeholders(st.sql) :
          /\ i > 1 /\ st.sql[i - 1] = "-"
          /\ index_at(st.sql, i) \in DOMAIN st.params
          /\ Head(to_sql_literal(st.params[index_at(st.sql, i)])) = "-"

\* What the server reads in the statement with inlined parameters is the statement
\* with placeholders and, at each of them, exactly the value of that parameter,
\* whatever quotes and dollars the values and the literals hold, the cases of Mangled
\* apart; a placeholder that has no parameter is an error, if its number is a usize
\* (substitute_params, to_sql_literal, build).
InlinedExact ==
    LET r  == IF "table" \in DOMAIN qb THEN build_inlined(qb) ELSE substitute_params(Stmt.sql, Stmt.params)
        ls == lex(Stmt.sql)
        indices == {ls[i][2] : i \in {k \in DOMAIN ls : ls[k][1] = "param"}}
        valid == indices \subseteq DOMAIN Stmt.params
    IN /\ (r[1] = "ok") = valid
       /\ (~valid /\ indices \subseteq 0..UsizeMax) => r = OutOfRange
       /\ (valid /\ ~Mangled(Stmt)) => lex(r[2]) = Substituted(ls, Stmt.params)
       /\ "table" \in DOMAIN qb => valid

-----------------------------------------------------------------------------
(* Parameters and columns: what a Param is sent as (ToParam,                   *)
(* param_to_text_bytes), and what Row::get, get_opt and get_by_index make of   *)
(* the text-format field that comes back (FromRow).  The character "bad"       *)
(* stands for a byte that is not UTF-8.  The server is external: prepare sends *)
(* no parameter types, so that it takes them from the statement, a `SELECT     *)
(* $1, $2` whose placeholders the application casts to the types of the values *)
(* or leaves alone, and prints the parameters again.                           *)

CONSTANTS I4Max,      \* the largest i32, at most 8
          I8Max,      \* the largest i64, at most 8
          Texts,      \* the strings the application sends
          Names       \* column names

VARIABLES tyParams,   \* the two parameters of the statement
          tyNames,    \* the names of the two columns
          tyRow,      \* the Row, <<>> before it arrives
          tyGot       \* what an accessor returned, with its arguments

tyVars == <<tyParams, tyNames, tyRow, tyGot>>

Null     == [t |-> "Null", v |-> <<>>]
TypeErr  == [t |-> "TypeMismatch", v |-> <<>>]
NullErr  == [t |-> "NullValue", v |-> <<>>]
OtherErr == [t |-> "Other", v |-> <<>>]
I4(n) == [t |-> "Int4", v |-> n]
I8(n) == [t |-> "Int8", v |-> n]

\* str::trim
trim(s) == LET part == {i \in DOMAIN s : s[i] # " "}
           IN  IF part = {} THEN <<>>
               ELSE SubSeq(s, CHOOSE i \in part : \A j \in part : i <= j,
                              CHOOSE i \in part : \A j \in part : j <= i)

\* str::parse of an integer: a sign is optional; <<>> if it is none or beyond max
parse_int(s, max) ==
    LET sign == s # <<>> /\ s[1] \in {"-", "+"}
        body == IF sign THEN Tail(s) ELSE s
        n    == IF sign /\ s[1] = "-" THEN -(SelectInSeq(Digits, LAMBDA c : c = body[1]) - 1)
                ELSE SelectInSeq(Digits, LAMBDA c : c = body[1]) - 1
    IN  IF Len(body) # 1 \/ body[1] \notin Digit THEN <<>>
        ELSE IF n \in -(max + 1)..max THEN <<n>> ELSE <<>>

\* sending

\* param_to_text_bytes: <<>> for the -1 length of NULL
param_to_text_bytes(p) ==
    CASE p.t = "Null"             -> <<>>
      [] p.t = "Bool"             -> <<IF p.v THEN <<"t">> ELSE <<"f">>>>
      [] p.t \in {"Int4", "Int8"} -> <<to_string(p.v)>>
      [] p.t \in {"Float8", "Text"} -> <<p.v>>

\* the server: the type of a placeholder, text unless the statement casts it
placeholder_oid(p, cast) ==
    CASE ~cast \/ p.t \in {"Null", "Text"} -> 25
      [] cast /\ p.t = "Bool" -> 16 [] cast /\ p.t = "Int4" -> 23
      [] cast /\ p.t = "Int8" -> 20 [] cast /\ p.t = "Float8" -> 701

\* the server: the parameter as a value of its type, printed in text format
echo(oid, bytes) ==
    IF bytes = <<>> THEN <<>>
    ELSE IF oid = 701 /\ bytes[1] = <<"i", "n", "f">> THEN <<<<"I", "n", "f", "i", "n", "i", "t", "y">>>>
    ELSE bytes

\* receiving

Utf8(b) == "bad" \notin ToSet(b)

\* PgType::from_oid
from_oid(oid) ==
    CASE oid = 16 -> "Bool" [] oid = 23 -> "Int4" [] oid = 20 -> "Int8" [] oid = 701 -> "Float8"
      [] oid = 25 -> "Text" [] oid = 1114 -> "Timestamp" [] oid = 2950 -> "Uuid" [] OTHER -> "Unknown"

\* variant: an i64 cut to 32 bits
decode_i32_Cast(b) ==
    LET n == parse_int(trim(b), I8Max)
    IN  IF ~Utf8(b) \/ n = <<>> THEN TypeErr
        ELSE I4(((n[1] + I4Max + 1) % (2 * (I4Max + 1))) - I4Max - 1)

\* decode_i32
decode_i32(b) ==
    LET n == parse_int(trim(b), I4Max) IN IF ~Utf8(b) \/ n = <<>> THEN TypeErr ELSE I4(n[1])

\* decode_i64
decode_i64(b) ==
    LET n == parse_int(trim(b), I8Max) IN IF ~Utf8(b) \/ n = <<>> THEN TypeErr ELSE I8(n[1])

\* decode_f64: "inf" and "Infinity" are the same value
decode_f64(b) ==
    LET s == trim(b)
    IN  CASE s \in {<<"i", "n", "f">>, <<"I", "n", "f", "i", "n", "i", "t", "y">>} ->
               [t |-> "Float8", v |-> <<"i", "n", "f">>]
          [] Utf8(b) /\ parse_int(s, 9) # <<>> -> [t |-> "Float8", v |-> to_string(parse_int(s, 9)[1])]
          [] OTHER -> TypeErr

\* decode_bool
decode_bool(b) ==
    CASE b \in {<<"t">>, <<"t", "r", "u", "e">>, <<"T", "R", "U", "E">>, <<"y", "e", "s">>,
                <<"o", "n">>, <<"1">>} -> [t |-> "Bool", v |-> TRUE]
      [] b \in {<<"f">>, <<"f", "a", "l", "s", "e">>, <<"F", "A", "L", "S", "E">>, <<"n", "o">>,
                <<"o", "f", "f">>, <<"0">>} -> [t |-> "Bool", v |-> FALSE]
      [] OTHER -> TypeErr

\* decode_text
decode_text(b) == IF Utf8(b) THEN [t |-> "Text", v |-> b] ELSE TypeErr

\* FromRow::from_bytes for the type asked for
from_bytes(type, b) ==
    CASE type = "Int4" -> decode_i32(b) [] type = "Int8" -> decode_i64(b)
      [] type = "Float8" -> decode_f64(b) [] type = "Bool" -> decode_bool(b)
      [] type = "Text" -> decode_text(b)

\* Row::column_index: the first column of that name, 0 if there is none
column_index(row, col) == SelectInSeq(row.columns, LAMBDA c : c.name = col)

\* Row::get
get(row, col, type) ==
    LET idx == column_index(row, col)
    IN  IF idx = 0 THEN OtherErr
        ELSE IF row.fields[idx] = <<>> THEN NullErr ELSE from_bytes(type, row.fields[idx][1])

\* Row::get_opt
get_opt(row, col, type) ==
    LET idx == column_index(row, col)
    IN  IF idx = 0 THEN OtherErr
        ELSE IF row.fields[idx] = <<>> THEN Null ELSE from_bytes(type, row.fields[idx][1])

\* Row::get_by_index, 0-based
get_by_index(row, idx, type) ==
    IF idx >= Len(row.fields) THEN OtherErr
    ELSE IF row.fields[idx + 1] = <<>> THEN NullErr ELSE from_bytes(type, row.fields[idx + 1][1])

\* ToParam: what the application can send
Params ==
    {Null} \cup {[t |-> "Bool", v |-> b] : b \in BOOLEAN}
    \cup {I4(n) : n \in -(I4Max + 1)..I4Max} \cup {I8(n) : n \in -(I8Max + 1)..I8Max}
    \cup {[t |-> "Float8", v |-> f] : f \in {<<"3">>, <<"i", "n", "f">>}}
    \cup {[t |-> "Text", v |-> s] : s \in Texts}

TyInit ==
    /\ tyParams \in [1..2 -> Params] /\ tyNames \in [1..2 -> Names]
    /\ tyRow = [columns |-> <<>>, fields |-> <<>>] /\ tyGot = [how |-> "none"]

\* From<PgRow>: the columns and fields of the answer to the prepared statement
receive ==
    /\ tyRow.columns = <<>>
    /\ \E cast \in BOOLEAN :
          LET oid == [i \in 1..2 |-> placeholder_oid(tyParams[i], cast)]
          IN  tyRow' = [columns |-> [i \in 1..2 |-> [name |-> tyNames[i], pg_type |-> from_oid(oid[i])]],
                        fields  |-> [i \in 1..2 |-> echo(oid[i], param_to_text_bytes(tyParams[i]))]]
    /\ UNCHANGED <<tyParams, tyNames, tyGot>>

Kinds == {"Bool", "Int4", "Int8", "Float8", "Text"}

\* the application reads a column
read ==
    /\ tyRow.columns # <<>> /\ tyGot.how = "none"
    /\ \E type \in Kinds :
         \/ \E col \in Names : \/ tyGot' = [how |-> "get", col |-> col, idx |-> 0, as |-> type,
                                           out |-> get(tyRow, col, type)]
                               \/ tyGot' = [how |-> "get_opt", col |-> col, idx |-> 0, as |-> type,
                                           out |-> get_opt(tyRow, col, type)]
         \/ \E i \in 0..2 : tyGot' = [how |-> "get_by_index", col |-> "", idx |-> i, as |-> type,
                                     out |-> get_by_index(tyRow, i, type)]
    /\ UNCHANGED <<tyParams, tyNames, tyRow>>

TyNext == receive \/ read

\* the parameter that the accessor's column echoes; <<>> if the row has no such column
Source ==
    IF tyGot.how = "get_by_index"
    THEN IF tyGot.idx < 2 THEN <<tyParams[tyGot.idx + 1]>> ELSE <<>>
    ELSE IF \E i \in 1..2 : tyNames[i] = tyGot.col
         THEN <<tyParams[IF tyNames[1] = tyGot.col THEN 1 ELSE 2]>> ELSE <<>>

\* A value sent as a parameter and read back at its own type is that value, NULL is reported
\* as NULL, and a number read at another numeric type keeps its value or is a
\* TypeMismatch: it never wraps (Row's accessors against param_to_text_bytes).
RowReturnsParam ==
    tyGot.how # "none" =>
        LET out == tyGot.out
            p   == Source[1]
            numeric == {"Int4", "Int8"}
        IN  IF Source = <<>> THEN out = OtherErr
            ELSE IF p = Null THEN out = (IF tyGot.how = "get_opt" THEN Null ELSE NullErr)
            ELSE IF p.t = tyGot.as THEN out = p
            ELSE p.t \in numeric /\ tyGot.as \in numeric => out = TypeErr \/ out.v = p.v
=============================================================================
