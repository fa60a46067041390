----------------------------- MODULE DataFormat -----------------------------
(***************************************************************************)
(* The language of the data plugin (plugins/data/format.c): the parser,    *)
(* which turns a string into a tree, the optimizer, which simplifies it,   *)
(* and the evaluator, which writes it into an allocator.  The string is a  *)
(* sequence of tokens: a number, word or string is one token.  Nodes refer *)
(* to each other by value, not by their number in expr_table.              *)
(***************************************************************************)
EXTENDS Allocators

\* Numbers in the tree are unsigned; a product that does not fit is refused.
Nothing == <<-1>>
MUL_OVERFLOW(a, b) == a * b >= Wrap
StringLimit == 4        \* strings repeated in the tree are at most this long

ExprNull == [t |-> "null"]
ExprList(es) == [t |-> "list", list |-> es]
ExprByte(b) == [t |-> "byte", b |-> b]
ExprString(s) == [t |-> "string", s |-> s]
ExprFill(b, n) == [t |-> "fill", b |-> b, n |-> n]
ExprRepeat(e, n) == [t |-> "repeat", e |-> e, n |-> n]
ExprSlice(e, n, m) == [t |-> "slice", e |-> e, n |-> n, m |-> m]
ExprAssign(name, e) == [t |-> "assign", name |-> name, e |-> e]
Failed == [t |-> "error"]
Offsets == {"abs", "rel", "align"}
is_data_expr(e) == e.t \notin Offsets

-----------------------------------------------------------------------------
(* The parser.  It is at a token of ts with the open lists in stack, the   *)
(* innermost last.                                                         *)

\* *N, [N:M] and -> replace the last expression of the list.
Postfix(e, k) ==
    CASE k.k = "*" -> ExprRepeat(e, k.n)
      [] k.k = "[" -> ExprSlice(e, k.n, k.m)
      [] k.k = "->" -> ExprAssign(k.name, e)
CanPostfix(list) == list # <<>> /\ is_data_expr(Last(list))

\* An @ moves the offset; a negative offset or an alignment that is not a
\* power of two is refused.
parse_offset(k) ==
    CASE k.k = "@" /\ k.n >= 0 -> [t |-> "abs", n |-> k.n]
      [] k.k = "@^" /\ is_power_of_2(k.n) -> [t |-> "align", n |-> k.n]
      [] k.k = "@+" -> [t |-> "rel", n |-> k.n]
      [] k.k = "@-" -> [t |-> "rel", n |-> -k.n]
      [] OTHER -> Failed

\* A string is its bytes or escapes the parser knows; a word is stored in the
\* byte order it names, and a number that does not fit is refused.
parse_string(k) == IF k.s = Nothing THEN Failed ELSE ExprString(k.s)
parse_word(k) ==
    LET le == [i \in 1 .. k.width |-> (k.n \div 256 ^ (i - 1)) % 256]
    IN  IF k.n >= 256 ^ k.width THEN Failed
        ELSE ExprString(IF k.k = "le" THEN le ELSE Reverse(le))

\* A token that is an expression by itself.
parse_atom(k) ==
    CASE k.k = "byte" -> IF k.n <= 255 THEN ExprByte(k.n) ELSE Failed
      [] k.k = "string" -> parse_string(k)
      [] k.k \in {"le", "be"} -> parse_word(k)
      [] k.k = "<" -> [t |-> "file", data |-> k.s]
      [] k.k = "<(" -> [t |-> "script", data |-> k.s]
      [] k.k = "name" -> [t |-> "name", name |-> k.name]
      [] OTHER -> parse_offset(k)

RECURSIVE parser(_, _, _)
parser(ts, i, stack) ==
    LET list == Last(stack)
        k == ts[i]
        push(e) == parser(ts, i + 1, Append(Front(stack), Append(list, e)))
    IN  IF i > Len(ts)
        THEN IF Len(stack) > 1 THEN Failed ELSE ExprList(list)
        ELSE CASE k.k = "(" -> parser(ts, i + 1, Append(stack, <<>>))
               [] k.k = ")" ->
                    IF Len(stack) = 1 THEN Failed
                    ELSE LET outer == stack[Len(stack) - 1]
                         IN  parser(ts, i + 1,
                               Append(SubSeq(stack, 1, Len(stack) - 2),
                                      Append(outer, ExprList(list))))
               [] k.k \in {"*", "[", "->"} ->
                    IF ~CanPostfix(list) \/ (k.k = "*" /\ k.n < 0) THEN Failed
                    ELSE parser(ts, i + 1,
                           Append(Front(stack),
                                  Append(Front(list), Postfix(Last(list), k))))
               [] k.k = "$" ->
                    \* The tokens of the variable, if there is one, are a list
                    \* of their own.
                    LET e == parser(k.var, 1, <<<<>>>>)
                    IN  IF ~k.found \/ e = Failed THEN Failed
                        ELSE push(e)
               [] OTHER -> IF parse_atom(k) = Failed THEN Failed
                           ELSE push(parse_atom(k))

-----------------------------------------------------------------------------
(* The optimizer. *)

\* Flattening a list changes the scope of assignments and offsets.
expr_safe_to_inline(e) == e.t \notin {"assign", "name"} \cup Offsets
\* Mutant: only assignments are scoped, offsets are not.
InlineOffsets(list) ==
    \A i \in 1 .. Len(list) : list[i].t \notin {"assign", "name"}
list_safe_to_inline(list) ==
    \A i \in 1 .. Len(list) : expr_safe_to_inline(list[i])

RECURSIVE expr_is_single_byte(_)
expr_is_single_byte(e) ==
    CASE e.t = "byte" -> TRUE
      [] e.t = "list" -> Len(e.list) = 1 /\ expr_is_single_byte(e.list[1])
      [] e.t = "string" -> Len(e.s) = 1
      [] e.t = "fill" -> e.n = 1
      [] e.t = "repeat" -> e.n = 1 /\ expr_is_single_byte(e.e)
      [] OTHER -> FALSE
RECURSIVE SingleByte(_)
SingleByte(e) ==
    CASE e.t = "list" -> SingleByte(e.list[1])
      [] e.t = "string" -> e.s[1]
      [] e.t = "repeat" -> SingleByte(e.e)
      [] OTHER -> e.b

\* The combination of two neighbours, or ExprNull if they do not combine.
exprs_can_combine(e0, e1) ==
    CASE e0.t = "byte" /\ e1.t = "byte" ->
           IF e0.b = e1.b THEN ExprFill(e0.b, 2)
           ELSE ExprString(<<e0.b, e1.b>>)
      [] e0.t = "byte" /\ e1.t = "string" -> ExprString(<<e0.b>> \o e1.s)
      [] e0.t = "byte" /\ e1.t = "fill" /\ e0.b = e1.b ->
           ExprFill(e0.b, e1.n + 1)
      [] e0.t = "string" /\ e1.t = "byte" -> ExprString(Append(e0.s, e1.b))
      [] e0.t = "string" /\ e1.t = "string" -> ExprString(e0.s \o e1.s)
      [] e0.t = "fill" /\ e1.t = "byte" /\ e0.b = e1.b ->
           ExprFill(e0.b, e0.n + 1)
      [] e0.t = "fill" /\ e1.t = "fill" /\ e0.b = e1.b ->
           ExprFill(e0.b, e0.n + e1.n)
      [] OTHER -> ExprNull
CombineExprs(list, e) ==
    IF list = <<>> THEN <<e>>
    ELSE LET both == exprs_can_combine(Last(list), e)
         IN  IF both = ExprNull THEN Append(list, e)
             ELSE Append(Front(list), both)

\* list holds the optimized elements.
optimize_list(list) ==
    LET inline(e) == CASE e.t = "null" -> <<>>
                       [] e.t = "list" ->
                            IF list_safe_to_inline(e.list) THEN e.list ELSE <<e>>
                       [] OTHER -> <<e>>
        flat == FlattenSeq([i \in 1 .. Len(list) |-> inline(list[i])])
        short == FoldLeft(CombineExprs, <<>>, flat)
    IN  IF short = <<>> THEN ExprNull
        ELSE IF Len(short) = 1 /\ expr_safe_to_inline(short[1]) THEN short[1]
        ELSE ExprList(short)

\* e is optimized, and n > 0.
optimize_repeat(e, n) ==
    CASE n = 1 \/ e.t = "null" -> e
      [] e.t = "repeat" ->
           IF MUL_OVERFLOW(n, e.n) THEN Failed ELSE ExprRepeat(e.e, n * e.n)
      [] e.t = "fill" ->
           IF MUL_OVERFLOW(n, e.n) THEN Failed ELSE ExprFill(e.b, n * e.n)
      [] e.t = "string" /\ n * Len(e.s) <= StringLimit ->
           ExprString([i \in 1 .. (n * Len(e.s)) |->
                         e.s[((i - 1) % Len(e.s)) + 1]])
      [] expr_is_single_byte(e) -> ExprFill(SingleByte(e), n)
      [] OTHER -> ExprRepeat(e, n)

\* e is optimized; the end of the slice is -1 if it was left out.
optimize_slice(e, n, m) ==
    LET len == IF e.t = "string" THEN Len(e.s) ELSE e.n
        end == IF m = -1 THEN len ELSE m
        valid == m >= -1 /\ n <= end /\ end <= len
    IN  CASE e.t = "null" /\ (m = 0 \/ (n = 0 /\ m = -1)) -> ExprNull
          [] e.t = "byte" /\ (m = 1 \/ (n = 0 /\ m = -1)) -> e
          [] e.t = "string" /\ valid ->
               IF end - n = 1 THEN ExprByte(e.s[n + 1])
               ELSE ExprString(SubSeq(e.s, n + 1, end))
          [] e.t = "fill" /\ valid ->
               IF end - n = 1 THEN ExprByte(e.b) ELSE ExprFill(e.b, end - n)
          [] OTHER -> ExprSlice(e, n, m)

optimize_string(e) ==
    CASE e.s = <<>> -> ExprNull
      [] Len(e.s) > 1 /\ \A i \in 1 .. Len(e.s) : e.s[i] = e.s[1] ->
           ExprFill(e.s[1], Len(e.s))
      [] OTHER -> e

RECURSIVE optimize_ast(_)
optimize_ast(e) ==
    CASE e.t = "list" ->
           LET list == [i \in 1 .. Len(e.list) |-> optimize_ast(e.list[i])]
           IN  IF \E i \in 1 .. Len(list) : list[i] = Failed THEN Failed
               ELSE optimize_list(list)
      [] e.t = "assign" ->
           LET to == optimize_ast(e.e)
           IN  IF to = Failed THEN Failed ELSE ExprAssign(e.name, to)
      [] e.t = "repeat" ->
           IF e.n = 0 THEN ExprNull
           ELSE LET of == optimize_ast(e.e)
                IN  IF of = Failed THEN Failed ELSE optimize_repeat(of, e.n)
      [] e.t = "slice" ->
           IF e.n = e.m THEN ExprNull
           ELSE LET of == optimize_ast(e.e)
                IN  IF of = Failed THEN Failed ELSE optimize_slice(of, e.n, e.m)
      [] e.t = "string" -> optimize_string(e)
      [] e.t = "fill" /\ e.n = 0 -> ExprNull
      [] OTHER -> e

-----------------------------------------------------------------------------
(* The evaluator.  d is the dictionary, its newest entry first; a nested   *)
(* expression is evaluated into a sparse array of its own.                 *)

Nested == [allocator |-> "sparse", mlock |-> FALSE]
Fresh(l, d) ==
    [l |-> l, a |-> IF l.allocator = "malloc" THEN <<>> ELSE NoPages,
     off |-> 0, size |-> 0, d |-> d, ok |-> TRUE]
Bad(s) == [s EXCEPT !.ok = FALSE]

Lookup(d, name) == {i \in 1 .. Len(d) : d[i].name = name}
Written(s, data) ==
    [s EXCEPT !.a = a_write(s.l, @, s.off, data), !.off = @ + Len(data)]
Blit(s, data) ==
    [s EXCEPT !.a = a_blit(s.l, @, s.off, data), !.off = @ + Len(data)]
DataOf(s) == sparse_array_read(s.a, 0, s.size)

\* <FILE[N:M] reads what there is; <(SCRIPT)[:LEN] reads up to LEN units.
store_file_slice(s, data, n, m) ==
    IF (m >= 0 /\ n > m) \/ m < -2 THEN Bad(s)
    ELSE Written(s, SubSeq(data, n + 1,
                           IF m = -1 THEN Len(data) ELSE MIN(m, Len(data))))
store_script_len(s, data, len) ==
    Written(s, SubSeq(data, 1, MIN(len, Len(data))))

\* What a nested expression, evaluated to s2, adds.
Insert(s, e, s2) ==
    LET data == DataOf(s2)
        m == IF e.m < 0 THEN s2.size ELSE e.m
    IN  CASE e.t \in {"list", "name"} -> Blit(s, data)
          [] e.t = "repeat" ->
               Blit(s, [i \in 1 .. (e.n * s2.size) |->
                          data[((i - 1) % s2.size) + 1]])
          [] e.n > s2.size \/ m > s2.size \/ e.n > m -> Bad(s)
          [] OTHER -> Blit(s, SubSeq(data, e.n + 1, m))

\* One element that is not nested.
Store(s, e) ==
    CASE e.t = "null" -> s
      [] e.t = "byte" -> Written(s, <<e.b>>)
      [] e.t = "abs" -> [s EXCEPT !.off = e.n]
      [] e.t = "rel" -> IF s.off + e.n < 0 THEN Bad(s)
                        ELSE [s EXCEPT !.off = @ + e.n]
      [] e.t = "align" -> [s EXCEPT !.off = ROUND_UP(@, e.n)]
      [] e.t \in {"file", "script"} -> Written(s, e.data)
      [] e.t = "string" -> Written(s, e.s)
      [] e.t = "fill" -> [s EXCEPT !.a = a_fill(s.l, @, e.b, s.off, e.n),
                                   !.off = @ + e.n]
      [] e.t = "assign" ->
           [s EXCEPT !.d = <<[name |-> e.name, e |-> e.e]>> \o @]
Grown(s) == [s EXCEPT !.size = MAX(@, s.off)]

RECURSIVE evaluate(_, _, _)
RECURSIVE Elements(_, _, _)
\* The list from element i on.
Elements(s, list, i) ==
    IF i > Len(list) \/ ~s.ok THEN s
    ELSE LET e == list[i]
             named == Lookup(s.d, e.name)
             t == Min(named)
             inner == CASE e.t = "list" -> evaluate(Nested, s.d, e)
                        [] e.t = "name" ->
                             evaluate(Nested, SubSeq(s.d, t + 1, Len(s.d)),
                                      s.d[t].e)
                        [] OTHER -> evaluate(Nested, s.d, e.e)
             next ==
               CASE e.t = "slice" /\ e.e.t = "file" ->
                      store_file_slice(s, e.e.data, e.n, e.m)
                 [] e.t = "slice" /\ e.n = 0 /\ e.e.t = "script" ->
                      store_script_len(s, e.e.data, e.m)
                 [] e.t = "name" /\ named = {} -> Bad(s)
                 [] e.t \in {"list", "name", "repeat", "slice"} ->
                      IF ~inner.ok THEN Bad(s) ELSE Insert(s, e, inner)
                 [] OTHER -> Store(s, e)
         IN  Elements(Grown(next), list, i + 1)
evaluate(l, d, root) ==
    Elements(Fresh(l, d), IF root.t = "list" THEN root.list ELSE <<root>>, 1)

\* The whole parameter: what it leaves in the allocator, and the size.
NoData == [ok |-> FALSE, a |-> <<>>, size |-> 0]
Evaluated(s) == [ok |-> s.ok, a |-> s.a, size |-> s.size]
EvaluateShort(l, short) ==
    IF short = Failed THEN NoData ELSE Evaluated(evaluate(l, <<>>, short))
EvaluateTree(l, ast) ==
    IF ast = Failed THEN NoData ELSE EvaluateShort(l, optimize_ast(ast))
read_data_format(l, ts) == EvaluateTree(l, parser(ts, 1, <<<<>>>>))

-----------------------------------------------------------------------------
(* What the documentation says a string means: the elements of a group are *)
(* written one after the other from the start of the group, and a slice is *)
(* a part of the data of its expression.                                   *)

Over(data, off, new) ==
    [i \in 1 .. MAX(Len(data), off + Len(new)) |->
       IF i > off /\ i <= off + Len(new) THEN new[i - off]
       ELSE IF i <= Len(data) THEN data[i] ELSE 0]

RECURSIVE Meaning(_, _)
RECURSIVE Sequence(_, _, _, _)
Sequence(data, off, env, list) ==
    IF list = <<>> THEN Over(data, off, <<>>)
    ELSE LET e == Head(list)
             rest == Tail(list)
             grown == Over(data, off, <<>>)
         IN  CASE e.t = "assign" ->
                    Sequence(grown, off, <<[name |-> e.name, e |-> e.e]>> \o env,
                             rest)
               [] e.t = "abs" -> Sequence(grown, e.n, env, rest)
               [] e.t = "rel" ->
                    IF off + e.n < 0 THEN Nothing
                    ELSE Sequence(grown, off + e.n, env, rest)
               [] e.t = "align" ->
                    Sequence(grown, ROUND_UP(off, e.n), env, rest)
               [] OTHER ->
                    LET new == Meaning(e, env)
                    IN  IF new = Nothing THEN Nothing
                        ELSE Sequence(Over(data, off, new), off + Len(new),
                                      env, rest)
Meaning(e, env) ==
    CASE e.t = "list" -> Sequence(<<>>, 0, env, e.list)
      [] e.t = "byte" -> <<e.b>>
      [] e.t = "string" -> e.s
      [] e.t \in {"file", "script"} -> e.data
      [] e.t = "name" ->
           IF Lookup(env, e.name) = {} THEN Nothing
           ELSE LET i == Min(Lookup(env, e.name))
                IN  Sequence(<<>>, 0, SubSeq(env, i + 1, Len(env)), <<env[i].e>>)
      [] e.t = "repeat" ->
           LET of == Sequence(<<>>, 0, env, <<e.e>>)
           IN  IF of = Nothing THEN Nothing
               ELSE FlattenSeq([i \in 1 .. e.n |-> of])
      [] e.t = "slice" ->
           LET of == Sequence(<<>>, 0, env, <<e.e>>)
               end == IF e.m = -1 THEN Len(of) ELSE e.m
           IN  IF of = Nothing \/ e.n > end \/ end > Len(of) THEN Nothing
               ELSE SubSeq(of, e.n + 1, end)
MeaningOf(ts) ==
    LET ast == parser(ts, 1, <<<<>>>>)
    IN  IF ast = Failed THEN Nothing ELSE Meaning(ast, <<>>)
=============================================================================
