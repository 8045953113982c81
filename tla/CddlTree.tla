------------------------------ MODULE CddlTree ------------------------------
(* What CddlParser does with whole elements, children, keys and .cbor contents
   included: flatten() them when a type has been parsed, find the default of a
   union, and validate them once every type is there.  An operator has the name
   of the method that it stands for and takes the element, Python's self.

   A definition Bug... is the one after it with a plausible mistake in it: the
   property it breaks is named in PROJECT.json.  No model uses it. *)
EXTENDS CddlTypes, SequencesExt

VARIABLE my_types           \* the types by name, in the state they are in

Ref(e)    == my_types[e.ref[1]]
IsOther(e) == IsType(e, {"OTHER"})
IsOnce(e) == e.min_qty = 1 /\ e.max_qty = 1

mult_or_none(a, b) == IF Many \in {a, b} THEN Many ELSE a * b

Refused == [ok |-> FALSE, e |-> NewElement]        \* CddlParsingError
Parsed(e) == [ok |-> TRUE, e |-> e]

-----------------------------------------------------------------------------
(* Elements whose encoding is known beforehand. *)

RECURSIVE is_unambiguous(_), is_unambiguous_repeated(_)

is_unambiguous_value(e) ==
    \/ IsType(e, PlainTypes)
    \/ IsType(e, NumberTypes \cup StringTypes \cup {"BOOL"}) /\ IsSome(e.value)
    \/ IsOther(e) /\ is_unambiguous(Ref(e))

is_unambiguous_repeated(e) ==
    \/ is_unambiguous_value(e) /\ (IsSome(e.key) => is_unambiguous_repeated(e.key[1]))
    \/ /\ IsType(e, {"LIST", "GROUP", "MAP"})
       /\ \A i \in DOMAIN e.kids : is_unambiguous(e.kids[i])

is_unambiguous(e) == is_unambiguous_repeated(e) /\ e.min_qty = e.max_qty

-----------------------------------------------------------------------------
(* flatten(): a group or a union of one member becomes that member. *)

\* The other element's modifiers except its value; only tags may occur twice.
merge_modifiers(e, other) ==
    LET extra == DOMAIN other.modifiers \ {"value"}
    IN  IF extra \cap DOMAIN e.modifiers \subseteq {"tag"}
        THEN Parsed([e EXCEPT !.modifiers = [m \in DOMAIN @ \cup extra |->
                        IF m \in extra THEN other.modifiers[m] ELSE @[m]]])
        ELSE Refused

BugKeepsQuantifier(e, outer) ==
    [e EXCEPT !.label = @ \/ outer.label,
              !.key = IF IsSome(@) THEN @ ELSE outer.key,
              !.is_key = outer.is_key,
              !.tags = @ \o outer.tags,
              !.default = outer.default]

\* e takes the place of the group or union it is the only member of.
Inherit(e, outer) ==
    [e EXCEPT !.min_qty = @ * outer.min_qty,
              !.max_qty = mult_or_none(@, outer.max_qty),
              !.label = @ \/ outer.label,
              !.key = IF IsSome(@) THEN @ ELSE outer.key,
              !.is_key = outer.is_key,
              !.tags = @ \o outer.tags,
              !.default = outer.default]

\* flatten() returns a list of elements; "ok" is FALSE where one raised.
RECURSIVE flatten(_, _)

OnlyOne(option) == IF IsSome(option) THEN << flatten(option[1], FALSE) >> ELSE << >>
TheOne(option)  == IF IsSome(option) THEN Some(flatten(option[1], FALSE).es[1]) ELSE None

flatten(e, allow_multi) ==
    LET inner == [i \in DOMAIN e.kids |-> flatten(e.kids[i], e.type # Some("UNION"))]
        parts == inner \o OnlyOne(e.key) \o OnlyOne(e.cbor)
        f     == [e EXCEPT !.kids = FlattenSeq([i \in DOMAIN inner |-> inner[i].es]),
                           !.key = TheOne(@), !.cbor = TheOne(@)]
        only  == IF Len(f.kids) = 1 THEN merge_modifiers(f.kids[1], f) ELSE Refused
    IN  IF \E i \in DOMAIN parts : ~parts[i].ok THEN [ok |-> FALSE, es |-> << e >>]
        ELSE IF IsOther(f) /\ f.is_socket /\ f.ref[1] \notin DOMAIN my_types
          THEN [ok |-> TRUE, es |-> << >>]
        ELSE IF IsType(f, {"GROUP", "UNION"}) /\ Len(f.kids) = 1
          THEN [ok |-> only.ok, es |-> << Inherit(only.e, f) >>]
        ELSE IF allow_multi /\ IsType(f, {"GROUP"}) /\ IsOnce(f)
          THEN [ok |-> TRUE, es |-> f.kids]
        ELSE [ok |-> TRUE, es |-> << f >>]

-----------------------------------------------------------------------------
(* .default: an operand is stripped of indirections and, for a union, compared
   with its members. *)

IsIndirect(e) == \/ IsOther(e)
                 \/ IsType(e, {"GROUP"}) /\ Len(e.kids) = 1

\* unpack_value(), with the names that it has been through already.
RECURSIVE unpack_value(_, _)
unpack_value(e, already_unpacked) ==
    LET names == IF IsOther(e) THEN {e.ref[1]} ELSE {}
    IN  IF ~IsIndirect(e) THEN Parsed(e)
        ELSE IF ~(DOMAIN e.modifiers \subseteq {"value"}) \/ names \cap already_unpacked # {} THEN Refused
        ELSE unpack_value(IF IsOther(e) THEN Ref(e) ELSE e.kids[1], already_unpacked \cup names)

\* What all() makes of its arguments, and a search of its candidates: the first
\* result that is not the usual one decides.  A match is "yes" or "no", or it
\* "raises", from unpack_value().
Decides(usual, results) ==
    LET others == {i \in DOMAIN results : results[i] # usual}
    IN  IF others = {} THEN usual ELSE results[Min(others)]

RECURSIVE match_elem(_, _)
match_elem(e, other) ==
    LET u     == unpack_value(e, {})
        Is(c) == IF c THEN "yes" ELSE "no"
    IN  IF ~u.ok THEN "raises"
        ELSE IF u.e.type # other.type \/ DOMAIN u.e.modifiers # DOMAIN other.modifiers THEN "no"
        ELSE IF IsType(u.e, NumberTypes \cup StringTypes \cup {"BOOL", "NIL", "UNDEF"})
          THEN Is(u.e.value = other.value)
        ELSE IF IsType(u.e, {"GROUP", "LIST", "MAP"}) /\ Len(u.e.kids) = Len(other.kids)
          THEN Decides("yes", [i \in DOMAIN other.kids |-> match_elem(u.e.kids[i], other.kids[i])])
        ELSE "no"

ChildMatches(e, val_to_match) ==
    [i \in DOMAIN e.kids |-> IF is_unambiguous(e.kids[i]) THEN match_elem(e.kids[i], val_to_match)
                                                         ELSE "no"]

\* Where ChildMatches decides on "yes".
find_matching_child(e, val_to_match) ==
    e.kids[Min({i \in DOMAIN e.kids : ChildMatches(e, val_to_match)[i] = "yes"})]

set_default(e, operand) ==
    LET u == unpack_value(operand, {})
    IN  IF e.min_qty # 0 \/ e.max_qty # 1 \/ ~u.ok THEN Refused
        ELSE IF IsType(e, {"UNION"})
          THEN IF Decides("no", ChildMatches(e, u.e)) # "yes" THEN Refused
               ELSE Parsed([e EXCEPT !.default = Some(find_matching_child(e, u.e))])
        ELSE IF /\ IsType(e, NumberTypes \cup StringTypes \cup {"BOOL"})
                /\ DOMAIN u.e.modifiers = {"value"}
                /\ \/ u.e.type = e.type
                   \/ e.type = Some("INT") /\ IsType(u.e, {"UINT", "NINT"})
          THEN Parsed([e EXCEPT !.default = Some(u.e)])
        ELSE Refused

\* The operators that bound a number are in CddlElement.
RECURSIVE process_modifiers(_)
process_modifiers(e) ==
    LET own  == IF ".default" \in DOMAIN e.modifiers
                  THEN set_default(e, e.modifiers[".default"][1]) ELSE Parsed(e)
        kids == [i \in DOMAIN e.kids |-> process_modifiers(e.kids[i])]
        cbor == [i \in DOMAIN e.cbor |-> process_modifiers(e.cbor[i])]
        key  == [i \in DOMAIN e.key |-> process_modifiers(e.key[i])]
        all  == << own >> \o kids \o cbor \o key
    IN  IF \E i \in DOMAIN all : ~all[i].ok THEN Refused
        ELSE Parsed([own.e EXCEPT !.kids = [i \in DOMAIN @ |-> kids[i].e],
                                  !.cbor = [i \in DOMAIN @ |-> cbor[i].e],
                                  !.key  = [i \in DOMAIN @ |-> key[i].e]])

-----------------------------------------------------------------------------
(* post_validate(): members of maps have keys and members of lists do not,
   nothing is ambiguous that the decoder could not tell apart. *)

RECURSIVE has_key(_)
has_key(e) ==
    \/ IsSome(e.key)
    \/ IsOther(e) /\ has_key(Ref(e))
    \/ /\ IsType(e, {"GROUP", "UNION"})
       /\ e.kids # << >>
       /\ \A i \in DOMAIN e.kids : has_key(e.kids[i])

IsAny(e) == IsType(e, {"ANY"})

RECURSIVE post_validate(_)
post_validate(e) ==
    /\ IsType(e, {"MAP"})  => \A i \in DOMAIN e.kids : has_key(e.kids[i])
    /\ IsType(e, {"LIST"}) => \A i \in DOMAIN e.kids : ~has_key(e.kids[i])
    /\ IsOther(e) => e.ref[1] \in DOMAIN my_types
    /\ IsType(e, {"LIST"}) => \A i \in DOMAIN e.kids :
           IsAny(e.kids[i]) /\ i < Len(e.kids) => e.kids[i].min_qty = e.kids[i].max_qty
    /\ IsType(e, {"UNION"}) /\ Len(e.kids) > 1 => \A i \in DOMAIN e.kids :
           IF IsSome(e.kids[i].key) THEN ~IsAny(e.kids[i].key[1]) ELSE ~IsAny(e.kids[i])
    /\ IsType(e, {"BSTR"}) => e.cbor = None \/ e.default = None
    /\ \A i \in DOMAIN e.kids : post_validate(e.kids[i])
    /\ \A i \in DOMAIN e.cbor : post_validate(e.cbor[i])
    /\ \A i \in DOMAIN e.key : post_validate(e.key[i])
    /\ \A i \in DOMAIN e.default : post_validate(e.default[i])

=============================================================================
