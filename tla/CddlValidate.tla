---------------------------- MODULE CddlValidate ----------------------------
(* DataTranslator: zcbor.py checks data, as cbor2 decoded it, against the
   parsed CDDL ("zcbor.py validate", and the first half of "convert").

   An iterator of Python is the sequence of what it has left.  A call ends with
   out = "ok", with "fail" for CddlValidationError, which a union and a
   repetition catch, or with "crash" for any other exception, which nothing
   catches; objs are the objects that it
   decoded.  Operators are named after the methods, less a leading underscore;
   validate_obj is the public decode_obj.

   A definition Bug... is the one after it with a plausible mistake in it: the
   property it breaks is named in PROJECT.json.  No model uses it. *)
EXTENDS CddlTree, CborItem

CONSTANT default_max_qty    \* how often "*" repeats at most

Decoded(it, objs) == [out |-> "ok", it |-> it, objs |-> objs]
Raises(out) == [out |-> out, it |-> << >>, objs |-> << >>]
IsOk(r) == r.out = "ok"

\* The first attempt that was not refused, or the refusal of all of them.
FirstOf(attempts) ==
    LET taken == SelectInSeq(attempts, LAMBDA r : r.out # "fail")
    IN  IF taken = 0 THEN Raises("fail") ELSE attempts[taken]

multi_var_condition(e) == e.max_qty # 1 \/ e.min_qty = 0

-----------------------------------------------------------------------------
(* One object. *)

\* _check_tag(): what is left of the tags of the element and of the object.
RECURSIVE Untag(_, _, _)
Untag(e, tags, x) ==
    IF x.k = "tag" /\ (Contains(tags, x.n) \/ IsType(e, {"ANY"}))
      THEN Untag(e, Remove(tags, x.n), x.sub[1])
    ELSE [ok |-> tags = << >> /\ (x.k = "tag" => IsType(e, {"OTHER", "GROUP", "UNION"})), x |-> x]

\* _exp_types
Kinds(e) ==
    CASE IsType(e, IntTypes)  -> {"uint", "nint"}
      [] IsType(e, {"TSTR"})  -> {"tstr"}
      [] IsType(e, {"BSTR"})  -> {"bstr"}
      [] IsType(e, {"NIL"})   -> {"nil"}
      [] IsType(e, {"UNDEF"}) -> {"undef"}
      [] IsType(e, {"BOOL"})  -> {"bool"}
      [] IsType(e, {"LIST"})  -> {"list"}
      [] IsType(e, {"MAP"})   -> {"map"}
      [] OTHER -> {"uint", "nint", "tstr", "bstr", "nil", "undef", "bool", "list", "map"}

check_type(e, x) == IsType(e, {"OTHER", "GROUP", "UNION"}) \/ x.k \in Kinds(e)

check_value(e, x) ==
    /\ IsType(e, IntTypes \cup {"BOOL"}) => e.value \in {None, Some(x.n)}
    /\ IsType(e, {"TSTR"}) => e.value \in {None, Some(x.n)}
    /\ IsType(e, {"BSTR"}) => e.value = None          \* str == bytes is never true
    /\ IsType(e, IntTypes) =>
         /\ e.min_value # None => IF e.min_value_inclusive THEN x.n >= e.min_value[1] ELSE x.n > e.min_value[1]
         /\ e.max_value # None => IF e.max_value_inclusive THEN x.n <= e.max_value[1] ELSE x.n < e.max_value[1]
    /\ IsType(e, StringTypes) =>
         /\ e.min_size # None => Length(x) >= e.min_size[1]
         /\ e.max_size # None => Length(x) <= e.max_size[1]

-----------------------------------------------------------------------------
is_cbor(e) == ~IsType(e, PlainTypes)     \* an OTHER asks its type: see cbor_var_condition
RECURSIVE ReferredType(_)
ReferredType(e) == IF IsOther(e) THEN ReferredType(Ref(e)) ELSE e
cbor_var_condition(e) == IsSome(e.cbor) /\ is_cbor(ReferredType(e.cbor[1]))

RECURSIVE decode_single_obj(_, _), decode_obj(_, _), decode_full(_, _),
          add_if(_, _, _), Children(_, _, _), Repeat(_, _, _, _)

\* The second of two calls, unless the first raised something.
Both(first, second) == IF IsOk(first) THEN second ELSE first

\* Nothing is left of the elements of a list or map.
BugLeavesTheRest(r) == r
Exhausted(r) == IF IsOk(r) /\ r.it # << >> THEN Raises("fail") ELSE r

\* Whether anything asks for an object before decode_full() accepts.
RECURSIVE Asks(_)
Asks(e) == /\ e.max_qty # 0
           /\ IF IsSome(e.key) \/ e.tags # << >> THEN TRUE
              ELSE IF IsOther(e) THEN Asks(Ref(e))
              ELSE IF IsType(e, {"GROUP"}) THEN \E i \in DOMAIN e.kids : Asks(e.kids[i])
              ELSE IF IsType(e, {"UNION"}) THEN Asks(e.kids[1])
              ELSE TRUE

\* The iterator that validate_obj() looks at in the end is the one that it
\* began with: empty once somebody asked, whatever was accepted.
validate_obj(e, x) ==
    LET r == decode_full(e, << x >>)
    IN  IF IsOk(r) /\ ~Asks(e) THEN Raises("fail") ELSE r

\* loads() reads the first item of the string and fails if there is none.
decode_str(e, x) == IF x.sub = << >> THEN Raises("crash") ELSE validate_obj(e, x.sub[1])

AllOk(results) ==
    LET bad == SelectInSeq(results, LAMBDA r : ~IsOk(r))
    IN  IF bad = 0 THEN Decoded(<< >>, << >>) ELSE results[bad]

\* Of add_if() what decides over the data: the contents of a byte string.
add_if(e, objs, expect_key) ==
    IF expect_key /\ IsOther(e) /\ e.key = None THEN add_if(Ref(e), objs, FALSE)
    ELSE IF is_unambiguous(e) \/ ~IsType(e, {"BSTR"}) \/ ~cbor_var_condition(e) THEN Decoded(<< >>, << >>)
    ELSE AllOk([i \in DOMAIN objs |-> decode_str(e.cbor[1], objs[i])])

Added(e, expect_key, r) == IF IsOk(r) THEN Both(add_if(e, r.objs, expect_key), r) ELSE r

\* The members of a list, map or group, each followed by its add_if().
NextChild(kids, r, expect_key) == IF IsOk(r) THEN Children(kids, r.it, expect_key) ELSE r
Children(kids, it, expect_key) ==
    IF kids = << >> THEN Decoded(it, << >>)
    ELSE NextChild(Tail(kids), Added(Head(kids), expect_key, decode_full(Head(kids), it)), expect_key)

\* What is inside an object of the right type.
DecodeInside(e, x) ==
    CASE IsOther(e) -> decode_single_obj(Ref(e), x)
      [] IsType(e, {"LIST", "MAP"}) ->
           [Exhausted(Children(e.kids, x.sub, IsType(e, {"MAP"}))) EXCEPT !.objs = << x >>]
      [] IsType(e, {"UNION"}) ->
           FirstOf([i \in DOMAIN e.kids |-> Added(e.kids[i], FALSE, decode_single_obj(e.kids[i], x))])
      [] IsType(e, {"GROUP"}) -> Raises("crash")      \* assert False
      [] OTHER -> Decoded(<< >>, << x >>)

DecodeUntagged(e, u) ==
    IF u.ok /\ check_type(e, u.x) /\ check_value(e, u.x) THEN DecodeInside(e, u.x) ELSE Raises("fail")

decode_single_obj(e, obj) ==
    IF obj.k = "pair" THEN Raises("fail") ELSE DecodeUntagged(e, Untag(e, e.tags, obj))

handle_key(e, next_obj) ==
    IF next_obj.k # "pair" THEN Raises("fail")
    ELSE Both(decode_single_obj(e.key[1], next_obj.sub[1]), decode_single_obj(e, next_obj.sub[2]))

\* The next object of it, which f decodes, leaves the rest to the iterator.
DecodeNext(it, f(_)) == IF it = << >> THEN Raises("fail") ELSE [f(Head(it)) EXCEPT !.it = Tail(it)]

decode_obj(e, it) ==
    IF IsSome(e.key) THEN DecodeNext(it, LAMBDA x : handle_key(e, x))
    ELSE IF e.tags # << >> /\ it = << >> THEN Raises("crash")          \* StopIteration
    ELSE IF e.tags # << >> /\ Head(it).k = "tag" THEN DecodeNext(it, LAMBDA x : decode_single_obj(e, x))
    ELSE IF IsOther(e) THEN decode_full(Ref(e), it)
    ELSE IF IsType(e, {"GROUP"}) THEN Children(e.kids, it, FALSE)
    ELSE IF IsType(e, {"UNION"})
      THEN FirstOf([i \in DOMAIN e.kids |-> Added(e.kids[i], FALSE, decode_full(e.kids[i], it))])
    ELSE DecodeNext(it, LAMBDA x : decode_single_obj(e, x))

\* n repetitions, of which those after the first "needed" may fail.
AfterRound(e, n, needed, r, next) ==
    IF next.out = "fail" /\ needed <= 0 THEN r
    ELSE IF ~IsOk(next) THEN next
    ELSE Repeat(e, n - 1, needed - 1, [next EXCEPT !.objs = r.objs \o @])

Repeat(e, n, needed, r) == IF n = 0 THEN r ELSE AfterRound(e, n, needed, r, decode_obj(e, r.it))

decode_full(e, it) ==
    IF multi_var_condition(e)
      THEN Repeat(e, IF e.max_qty = Many THEN default_max_qty ELSE e.max_qty, e.min_qty, Decoded(it, << >>))
      ELSE decode_obj(e, it)

=============================================================================
