----------------------------- MODULE CddlXcoder -----------------------------
(* What the code for an element needs: the conditions of CddlXcoder by which
   the code generator gives an element variables, a type and a function of its
   own.  Names are those of the methods.

   A definition Bug... is the one after it with a plausible mistake in it: the
   property it breaks is named in PROJECT.json.  No model uses it. *)
EXTENDS CddlTree, FiniteSets

VARIABLE unordered_maps     \* --unordered-maps

CONSTANTS
    FlagsPerByte,       \* 8 in the code
    DEFAULT_MAX_QTY     \* how often a "*" repeats at most

present_var_condition(e) == e.min_qty = 0 /\ e.max_qty \in {0, 1}
count_var_condition(e)   == e.max_qty = Many \/ e.max_qty > 1
multi_var_condition(e)   == present_var_condition(e) \/ count_var_condition(e)
choice_var_condition(e)  == IsType(e, {"UNION"})
reduced_key_var_condition(e) == IsSome(e.key)

RECURSIVE key_var_condition(_), range_check_condition(_)

key_var_condition(e) ==
    \/ reduced_key_var_condition(e)
    \/ IsOther(e) /\ key_var_condition(Ref(e))
    \/ IsType(e, {"GROUP", "UNION"}) /\ e.kids # << >> /\ reduced_key_var_condition(e.kids[1])

range_check_condition(e) ==
    IF IsOther(e) THEN range_check_condition(Ref(e))
    ELSE /\ e.value = None
         /\ \/ IsType(e, IntTypes) /\ (IsSome(e.min_value) \/ IsSome(e.max_value))
            \/ IsType(e, {"UINT"}) /\ IsSome(e.bits)
            \/ IsType(e, StringTypes) /\ (IsSome(e.min_size) \/ IsSome(e.max_size))

RECURSIVE HasTypeName(_), is_cbor(_), multi_member(_)

cbor_var_condition(e) == IsSome(e.cbor) /\ is_cbor(e.cbor[1])

self_repeated_multi_var_condition(e) ==
    key_var_condition(e) \/ cbor_var_condition(e) \/ choice_var_condition(e)

multi_val_condition(e) ==
    /\ IsType(e, Compound)
    /\ Len(e.kids) > 1 \/ (Len(e.kids) = 1 /\ multi_member(e.kids[1]))

repeated_multi_var_condition(e) == self_repeated_multi_var_condition(e) \/ multi_val_condition(e)

multi_member(e) == multi_var_condition(e) \/ repeated_multi_var_condition(e)

\* type_name() is not None.
HasTypeName(e) ==
    \/ multi_member(e)
    \/ ~IsType(e, PlainTypes \cup {"LIST", "MAP", "GROUP", "OTHER"})
    \/ IsType(e, {"LIST", "MAP", "GROUP"}) /\ e.kids # << >> /\ HasTypeName(e.kids[1])
    \/ IsOther(e) /\ HasTypeName(Ref(e))

\* CodeGenerator.is_cbor(), where no .cbor refers to a type with an entry function.
is_cbor(e) == HasTypeName(e) /\ (IsOther(e) => is_cbor(Ref(e)))

type_def_condition(e) == e.top /\ multi_member(e) /\ ~is_unambiguous(e)

repeated_type_def_condition(e) ==
    repeated_multi_var_condition(e) /\ multi_var_condition(e) /\ ~is_unambiguous_repeated(e)

repeated_single_func_impl_condition(e) ==
    \/ repeated_type_def_condition(e)
    \/ IsType(e, {"LIST", "MAP", "GROUP"}) /\ multi_member(e)
    \/ multi_var_condition(e) /\ (self_repeated_multi_var_condition(e) \/ range_check_condition(e))

single_func_impl_condition(e) ==
    \/ reduced_key_var_condition(e) \/ cbor_var_condition(e)
    \/ e.tags # << >> /\ e.top
    \/ type_def_condition(e)
    \/ IsType(e, {"LIST", "MAP"}) \/ (IsType(e, {"GROUP"}) /\ e.kids # << >>)
    \/ unordered_maps /\ e.is_key /\ (repeated_single_func_impl_condition(e) \/ range_check_condition(e))

RECURSIVE simple_func_condition(_)
simple_func_condition(e) ==
    \/ range_check_condition(e) \/ single_func_impl_condition(e)
    \/ IsOther(e) /\ simple_func_condition(Ref(e))

-----------------------------------------------------------------------------
(* Alternatives that a number at their start tells apart. *)

RECURSIVE int_val(_)            \* the number, or None
int_val(e) ==
    IF IsSome(e.key) THEN int_val(e.key[1])
    ELSE IF IsType(e, {"UINT", "NINT"}) /\ is_unambiguous(e) THEN e.value
    ELSE IF IsType(e, {"GROUP"}) /\ ~count_var_condition(e) THEN int_val(e.kids[1])
    ELSE IF /\ IsOther(e) /\ ~count_var_condition(e)
            /\ ~single_func_impl_condition(e) /\ ~single_func_impl_condition(Ref(e))
      THEN int_val(Ref(e))
    ELSE None

is_int_disambiguated(e) == int_val(e) # None

\* All numbers here are in the range of an int32_t.
all_children_int_disambiguated(e) ==
    \A i \in DOMAIN e.kids :
       /\ is_int_disambiguated(e.kids[i])
       /\ \A j \in 1 .. i - 1 : int_val(e.kids[i]) # int_val(e.kids[j])

RECURSIVE is_in_map(_)
is_in_map(e) ==
    \/ IsSome(e.key)
    \/ IsType(e, {"GROUP", "UNION"}) /\ \E i \in DOMAIN e.kids : is_in_map(e.kids[i])
    \/ IsOther(e) /\ is_in_map(Ref(e))

InUnorderedMap(e) == unordered_maps /\ is_in_map(e)

expect_union_condition(e)   == is_int_disambiguated(e) /\ ~InUnorderedMap(e)
implicit_union_condition(e) == all_children_int_disambiguated(e) /\ ~InUnorderedMap(e)

multi_decode_w_backup_condition(e) == multi_var_condition(e) /\ repeated_single_func_impl_condition(e)

-----------------------------------------------------------------------------
(* The sizes that the generated entry function asks for. *)

MaxOf(S) == CHOOSE n \in S : \A k \in S : k <= n

RECURSIVE num_backups(_)
BugNotForRounds(e) ==
    Cardinality({c \in {"cbor", "type"} :
       IF c = "cbor" THEN cbor_var_condition(e) ELSE IsType(e, {"LIST", "MAP", "UNION"})})

num_backups_self(e) ==
    Cardinality({c \in {"cbor", "type", "multi"} :
       CASE c = "cbor"  -> cbor_var_condition(e)
         [] c = "type"  -> IsType(e, {"LIST", "MAP", "UNION"})
         [] c = "multi" -> multi_decode_w_backup_condition(e)})

num_backups(e) ==
    LET of(option) == IF IsSome(option) THEN num_backups(option[1]) ELSE 0
    IN  num_backups_self(e)
          + of(e.key)
          + (IF cbor_var_condition(e) THEN of(e.cbor) ELSE 0)
          + MaxOf({0} \cup {num_backups(e.kids[i]) : i \in DOMAIN e.kids})
          + (IF IsOther(e) THEN num_backups(Ref(e)) ELSE 0)

\* _num_map_search_flags(): how many of the innermost map around e, for the
\* maps inside e, and how many rollback points may hold copies of them.
RoundUp(n) == ((n + FlagsPerByte - 1) \div FlagsPerByte) * FlagsPerByte

\* How many copies of the flags of a map rollback points inside it may make.
BugOneCopy(multi, unions)  == 1
CopiesOf(multi, unions)    == IF unordered_maps THEN 1 + multi + unions ELSE 1

NoFlags == [this |-> 0, nested |-> 0, multi |-> 0, unions |-> 0]
Times(e) == IF e.max_qty = Many THEN DEFAULT_MAX_QTY ELSE e.max_qty

RECURSIVE num_flags(_)
num_flags(e) ==
    LET Of(option) == IF IsSome(option) THEN num_flags(option[1]) ELSE NoFlags
        kids    == [i \in DOMAIN e.kids |-> num_flags(e.kids[i])]
        Most(f) == MaxOf({0} \cup {kids[i][f] : i \in DOMAIN kids})
        All     == FoldLeft(LAMBDA n, k : n + k.this, 0, kids)
        ref     == IF IsOther(e) THEN num_flags(Ref(e)) ELSE NoFlags
        shared  == IsType(e, {"GROUP", "UNION"})         \* its members are in the same map
        own     == Of(e.key).nested + (IF cbor_var_condition(e) THEN Of(e.cbor).nested ELSE 0)
    IN  [this   |-> Times(e) * (Len(e.key) + ref.this +
                       (IF IsType(e, {"GROUP"}) THEN All ELSE IF IsType(e, {"UNION"}) THEN Most("this") ELSE 0)),
         nested |-> IF IsType(e, Compound)
                      THEN MaxOf({own, Most("nested")}) + (IF IsType(e, {"MAP"}) THEN RoundUp(All) * CopiesOf(Most("multi"), Most("unions")) ELSE 0)
                      ELSE own + ref.nested,
         multi  |-> ref.multi + (IF multi_decode_w_backup_condition(e) THEN 1 ELSE 0)
                       + (IF shared THEN Most("multi") ELSE 0),
         unions |-> ref.unions + (IF shared THEN Most("unions") ELSE 0)
                       + (IF IsType(e, {"UNION"}) /\ ~implicit_union_condition(e) THEN 1 ELSE 0)]

num_map_search_flags(e) == num_flags(e).nested

-----------------------------------------------------------------------------
(* Whether the code needs ZCBOR_MAP_SMART_SEARCH. *)

\* Which pair a member stands for is not known by its key alone.
BugLooksAtKeys(e) == IsSome(e.key) /\ ~is_unambiguous_repeated(e.key[1])
IsOneOfMany(e) == \/ e.max_qty = Many \/ e.max_qty > 1
                  \/ IsSome(e.key) /\ ~is_unambiguous_repeated(e.key[1])

RECURSIVE elem_needs_map_smart_search(_, _)
elem_needs_map_smart_search(e, inMap) ==
    \/ inMap /\ unordered_maps /\ IsOneOfMany(e)
    \/ IsOther(e) /\ elem_needs_map_smart_search(Ref(e), inMap)
    \/ \E i \in DOMAIN e.kids :
         elem_needs_map_smart_search(e.kids[i], ~IsType(e, {"LIST"}) /\ (inMap \/ IsType(e, {"MAP"})))
    \/ IsSome(e.cbor) /\ elem_needs_map_smart_search(e.cbor[1], FALSE)

=============================================================================
