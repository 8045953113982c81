------------------------------ MODULE CddlCode ------------------------------
(* The decoder that CodeGenerator writes for an element, run on a payload.  An
   operator with the name of a method is what the C code that this method
   returns does to a zcbor machine m: a result of ZcborState.  The code's calls
   to the library are the operators of ZcborDecode and ZcborPayload.

   A machine has three more fields here: bytes, the payload; and the high-water
   marks of the backups and of the flag bytes in use.

   A definition Bug... is the one after it with a plausible mistake in it: the
   property it breaks is named in PROJECT.json.  No model uses it. *)
EXTENDS CddlXcoder, CborItem

CONSTANTS SIZE_MAX, NumBackups, FlagBytes, SmartSearch
LOCAL INSTANCE ZcborPayload WITH BitsPerByte <- FlagsPerByte, HasFlags <- TRUE,
                                 EnforceCanonical <- FALSE

\* The marks are drawn after every call that may use more of either.
Marked(r) ==
    [r EXCEPT !.m.backups_used = IF Len(r.m.backup_list) > @ THEN Len(r.m.backup_list) ELSE @,
              !.m.flags_used   = IF FlagEnd(r.m.state) > @ THEN FlagEnd(r.m.state) ELSE @]

-----------------------------------------------------------------------------
(* Primitives: a header of the type, then what else the function checks. *)

NextHeader(m) == HeaderAt(m.bytes, m.state.payload)

\* The value of an integer, or the length of a string.
NumberOf(h) == IF h.major = NINT THEN -1 - h.value ELSE h.value

MajorTypes(e) == CASE IsType(e, {"UINT"}) -> {PINT}
                   [] IsType(e, {"INT", "NINT"}) -> {PINT, NINT}
                   [] IsType(e, {"BSTR"}) -> {BSTR}
                   [] IsType(e, {"TSTR"}) -> {TSTR}
                   [] OTHER -> {SIMPLE}

\* What the function itself expects: a value is expected, not decoded.
Expects(e, n) == CASE IsType(e, {"NIL"})   -> n = 22
                   [] IsType(e, {"UNDEF"}) -> n = 23
                   [] IsType(e, {"BOOL"})  -> n \in {20, 21} /\ e.value \in {None, Some(n - 20)}
                   [] OTHER                -> e.value \in {None, Some(n)}

\* After the header v: a string has to be in the payload, a number as expected.
Contents(v, len, expected) ==
    IF ~v.ok THEN v
    ELSE IF len > v.m.state.payload_end - v.m.state.payload THEN ERR_RESTORE(v.m, "NO_PAYLOAD")
    ELSE IF ~expected THEN ERR_RESTORE(v.m, "WRONG_VALUE")
    ELSE Success([v.m EXCEPT !.state.payload = @ + len])

ReadOne(m, h, majors, expected) ==
    IF ~initial_checks(m).ok THEN initial_checks(m)
    ELSE IF h.major \notin majors THEN Err(m, "WRONG_TYPE")
    ELSE Contents(value_extract(m, h, 8, FALSE), IF h.major \in {BSTR, TSTR} THEN h.value ELSE 0, expected)

ReadPrim(e, m) == ReadOne(m, NextHeader(m), MajorTypes(e), Expects(e, NumberOf(NextHeader(m))))

\* The count is one too large after a wrong tag: it was not taken down for it.
TagIs(h, tag, v) ==
    IF ~v.ok THEN v
    ELSE IF h.value # tag THEN ERR_RESTORE([v.m EXCEPT !.state.elem_count = @ + 1], "WRONG_VALUE")
    ELSE Success([v.m EXCEPT !.state.elem_count = @ + 1])

zcbor_tag_expect(m, h, tag) ==
    IF ~initial_checks(m).ok THEN initial_checks(m)
    ELSE IF h.major # TAG THEN Err(m, "WRONG_TYPE")
    ELSE TagIs(h, tag, value_extract(m, h, 4, FALSE))

\* a && b: the step b on the machine that a left.
Then(r, step(_)) == IF r.ok THEN step(r.m) ELSE r

xcode_tags(tags, r) ==
    FoldLeft(LAMBDA t, tag : IF t.ok THEN zcbor_tag_expect(t.m, NextHeader(t.m), tag) ELSE t, r, tags)

-----------------------------------------------------------------------------
(* Maps in any order. *)

AtMapEnd(m) == AtEnd(m.bytes, m.state)

\* Values are skipped until none is left.  (Where one cannot be skipped the
\* code never returns: see ZcborMap.)
RECURSIVE SkipRest(_)
SkipRest(m) == IF AtMapEnd(m) THEN m ELSE Then(zcbor_any_skip(m, m.bytes), LAMBDA n : Success(SkipRest(n))).m

UnorderedMapEnd(m) ==
    Then(EndChecks(m, FALSE), LAMBDA n : list_map_end_decode(SkipRest(n), FALSE))

BugSkipsKey(m) == zcbor_any_skip(m, m.bytes)
SkipPair(m) == Then(zcbor_any_skip(m, m.bytes), LAMBDA n : zcbor_any_skip(n, n.bytes))

\* The cursor of m is where that of at is.
Back(m, at) == [m EXCEPT !.state.payload = at.state.payload, !.state.elem_count = at.state.elem_count]

-----------------------------------------------------------------------------
RECURSIVE full_xcode(_, _, _), single_func(_, _, _), AllOf(_, _), Alternatives(_, _, _),
          Search(_, _, _, _), multi_decode(_, _, _)

\* u is the union_int of the code: "", "EXPECT" or "DROP".
single_func_prim(e, u, m) ==
    IF IsOther(e) THEN single_func(Ref(e), u, m)
    ELSE IF IsType(e, {"GROUP"}) \/ (IsSome(e.value) /\ u = "DROP") THEN Success(m)
    ELSE IF IsType(e, {"ANY"}) THEN zcbor_any_skip(m, m.bytes)
    ELSE IF IsSome(e.value) /\ u = "EXPECT"
      THEN Then(Marked(zcbor_union_elem_code(m)), LAMBDA n : ReadPrim(e, n))
    ELSE ReadPrim(e, m)

\* A function of its own knows nothing of the union around the call.
single_func(e, u, m) ==
    IF single_func_impl_condition(e) THEN full_xcode(e, "", m) ELSE single_func_prim(e, u, m)

\* Elements joined by &&.
AllOf(es, r) == IF es = << >> \/ ~r.ok THEN r ELSE AllOf(Tail(es), full_xcode(Head(es), "", r.m))

ListStart(e, m, h) ==
    IF ~initial_checks(m).ok THEN initial_checks(m)
    ELSE IF IsType(e, {"LIST"}) THEN zcbor_list_start_decode(m, h)
    ELSE IF unordered_maps THEN zcbor_unordered_map_start_decode(m, h)
    ELSE zcbor_map_start_decode(m, h)

\* The end is forced where an element failed.
ListEnd(e, kids) ==
    IF ~kids.ok THEN Failure(zcbor_list_map_end_force_decode(kids.m).m)
    ELSE IF IsType(e, {"MAP"}) /\ unordered_maps THEN UnorderedMapEnd(kids.m)
    ELSE list_map_end_decode(kids.m, FALSE)

xcode_list(e, m) ==
    Then(Marked(ListStart(e, m, NextHeader(m))), LAMBDA n : ListEnd(e, AllOf(e.kids, Success(n))))

xcode_group(e, u, m) == AllOf(Tail(e.kids), full_xcode(Head(e.kids), u, m))

BugNeverResets(e, i) == FALSE

\* Whether an alternative begins with a call of zcbor_union_elem_code().
Resets(e, i) == i > 1 /\ ~expect_union_condition(e.kids[i]) /\ simple_func_condition(e.kids[i - 1])

\* Alternatives joined by ||, from the i-th on.
Alternatives(e, i, r) ==
    IF r.ok \/ i > Len(e.kids) THEN r
    ELSE Alternatives(e, i + 1,
           Then(IF Resets(e, i) THEN Marked(zcbor_union_elem_code(r.m)) ELSE Success(r.m),
                LAMBDA n : full_xcode(e.kids[i], IF expect_union_condition(e.kids[i]) THEN "EXPECT" ELSE "", n)))

\* A union whose number has been decoded as n.
SwitchOn(e, n, m) ==
    LET chosen == {i \in DOMAIN e.kids : int_val(e.kids[i]) = Some(n)}
    IN  IF chosen = {} THEN Err(m, "WRONG_VALUE") ELSE full_xcode(e.kids[MaxOf(chosen)], "DROP", m)

IntTypesOf(e) == IF \E i \in DOMAIN e.kids : int_val(e.kids[i])[1] < 0 THEN {PINT, NINT} ELSE {PINT}

xcode_union(e, m) ==
    IF implicit_union_condition(e)
      THEN Then(ReadOne(m, NextHeader(m), IntTypesOf(e), TRUE), LAMBDA n : SwitchOn(e, NumberOf(NextHeader(m)), n))
    ELSE Then(Marked(zcbor_union_start_code(m)),
              LAMBDA n : [Alternatives(e, 1, Failure(n)) EXCEPT !.m = zcbor_union_end_code(@).m])

\* What bstr_end returns is not looked at.
xcode_bstr(e, m) ==
    Then(Then(initial_checks(m), LAMBDA n : Marked(zcbor_bstr_start_decode(n, NextHeader(n)))),
         LAMBDA n : [full_xcode(e.cbor[1], "", n) EXCEPT !.m = zcbor_bstr_end_decode(@).m])

-----------------------------------------------------------------------------
(* zcbor_unordered_map_search() for the key of e, from where it began: at the
   end of the map, at a pair to be tried or at one to be skipped. *)

SearchOn(e, u, next, began) ==
    IF ~next.ok THEN Failure(Back(next.m, began))
    ELSE IF next.m.state.elem_count = began.state.elem_count
      THEN Failure(Back(zcbor_error(next.m, "ELEM_NOT_FOUND"), began))
    ELSE Search(e, u, next.m, began)

Tried(e, u, m, try, began) ==
    IF try.ok THEN try ELSE SearchOn(e, u, SkipPair(Back(try.m, m)), began)

Search(e, u, m, began) ==
    IF AtMapEnd(m) THEN SearchOn(e, u, handle_map_end(m), began)
    ELSE IF should_try_key(m).ok THEN Tried(e, u, m, single_func(e.key[1], u, m), began)
    ELSE SearchOn(e, u, SkipPair(m), began)

xcode_key(e, u, m) ==
    IF e.key = None THEN Success(m)
    ELSE IF ~unordered_maps \/ u = "DROP" THEN full_xcode(e.key[1], u, m)
    ELSE IF m.state.elem_count % 2 = 1 THEN Err(m, "MAP_MISALIGNED")
    ELSE Search(e, u, m, m)

-----------------------------------------------------------------------------
\* Bounds that look like the limits of the C type are left out.
exc_vals(e) == IF IsType(e, {"UINT"}) THEN {0} ELSE {}

\* n is the number, or the length of the string, that was just decoded.
RECURSIVE range_checks(_, _)
range_checks(e, n) ==
    IF IsOther(e) THEN single_func_impl_condition(Ref(e)) \/ range_checks(Ref(e), n)
    ELSE \/ IsSome(e.value)
         \/ IsType(e, IntTypes) /\
              /\ IsSome(e.min_value) /\ e.min_value[1] \notin exc_vals(e) =>
                   IF e.min_value_inclusive THEN n >= e.min_value[1] ELSE n > e.min_value[1]
              /\ IsSome(e.max_value) /\ e.max_value[1] \notin exc_vals(e) =>
                   IF e.max_value_inclusive THEN n <= e.max_value[1] ELSE n < e.max_value[1]
         \/ IsType(e, StringTypes) /\ (IsSome(e.min_size) => n >= e.min_size[1])
                                   /\ (IsSome(e.max_size) => n <= e.max_size[1])
         \/ ~IsType(e, IntTypes \cup StringTypes)

xcoder(e, u, m) ==
    CASE IsType(e, {"BSTR"}) /\ IsSome(e.cbor)       -> xcode_bstr(e, m)
      [] IsType(e, {"LIST", "MAP"})                  -> xcode_list(e, m)
      [] IsType(e, {"GROUP"}) /\ e.kids # << >>      -> xcode_group(e, u, m)
      [] IsType(e, {"UNION"})                        -> xcode_union(e, m)
      [] OTHER -> single_func_prim(e, IF IsType(e, {"UINT", "NINT", "OTHER"}) THEN u ELSE "", m)

\* The range checks, and the mark of a pair, after a value that began at h.
Finish(e, h, m) ==
    IF ~range_checks(e, NumberOf(h)) THEN Err(m, "WRONG_RANGE")
    ELSE IF IsSome(e.key) /\ unordered_maps THEN zcbor_elem_processed(m)
    ELSE Success(m)

xcode_value(e, u, m) == Then(xcoder(e, u, m), LAMBDA n : Finish(e, NextHeader(m), n))

\* Key, tags, value, range checks and the mark, joined by &&.
repeated_xcode(e, u, m) ==
    Then(xcode_tags(e.tags, xcode_key(e, u, m)), LAMBDA n : xcode_value(e, IF IsSome(e.key) THEN "" ELSE u, n))

repeated_single_func(e, m) ==
    IF repeated_single_func_impl_condition(e) THEN repeated_xcode(e, "", m) ELSE single_func_prim(e, "", m)

-----------------------------------------------------------------------------
(* multi_decode_backup(), from the i-th repetition on; multi_decode() is the
   same without the backups. *)

SaveRound(e, m) ==
    IF multi_decode_w_backup_condition(e)
      THEN Marked(zcbor_new_backup_w_elem_state(m, m.state.elem_count, TRUE)) ELSE Success(m)

BugKeepsFailedRound(e, r, m) ==
    IF multi_decode_w_backup_condition(e) THEN zcbor_process_backup(r.m, {"CONSUME"}) ELSE Success(r.m)

\* A round that failed is undone, one that did not is kept.
EndRound(e, r, m) ==
    IF multi_decode_w_backup_condition(e)
      THEN zcbor_process_backup(r.m, IF r.ok THEN {"CONSUME"} ELSE {"CONSUME", "RESTORE"})
    ELSE Success(IF r.ok THEN r.m ELSE Back(r.m, m))

NextRound(e, i, done, m) ==
    IF done THEN multi_decode(e, i + 1, m)
    ELSE IF i < e.min_qty THEN Err(m, "ITERATIONS")
    ELSE Success(m)

Round(e, i, r, m) == Then(EndRound(e, r, m), LAMBDA n : NextRound(e, i, r.ok, n))

multi_decode(e, i, m) ==
    IF i = Times(e) THEN Success(m)
    ELSE Then(SaveRound(e, m), LAMBDA n : Round(e, i, repeated_single_func(e, n), m))

\* An optional element is (present = ..., true).
full_xcode(e, u, m) ==
    IF count_var_condition(e) \/ (present_var_condition(e) /\ repeated_single_func_impl_condition(e))
      THEN multi_decode(e, 0, m)
    ELSE [repeated_xcode(e, u, m) EXCEPT !.ok = @ \/ present_var_condition(e)]

-----------------------------------------------------------------------------
(* The entry function. *)

NewMachine(payload) ==
    [state |-> [payload |-> 0, payload_bak |-> 0, payload_end |-> Len(payload),
                elem_count |-> ZCBOR_LARGE_ELEM_COUNT, payload_moved |-> FALSE, inside_cbor_bstr |-> FALSE,
                decode_state |->
                   [indefinite_length_array |-> FALSE, counting_map_elems |-> FALSE,
                    elem_state_backed_up |-> FALSE, map_search_elem_state |-> 0,
                    map_elem_count |-> 0, map_elems_processed |-> 0, map_start_backup_num |-> 0]],
     backup_list |-> << >>, mem |-> [a \in Address |-> {}], error |-> "SUCCESS", stop_on_error |-> FALSE,
     bytes |-> payload, backups_used |-> 0, flags_used |-> 0]

render_entry_function(e, payload) == single_func(e, "", NewMachine(payload))

=============================================================================
