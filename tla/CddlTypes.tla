----------------------------- MODULE CddlTypes -----------------------------
(* What zcbor.py keeps of one CDDL element: the attributes of a CddlParser,
   and the values they take.  The element is a record whose fields have the
   names of the attributes.  The attribute "value" means something else for
   each type, so it is three fields here: value (a literal), kids (the members
   of a list, map, group or union) and ref (the name that an OTHER refers to).
   Python's None is the empty sequence, and a value that is there is the
   sequence of itself. *)
EXTENDS Integers, Sequences

None    == << >>
Some(x) == << x >>
IsSome(o) == o # << >>

Many == -1                        \* max_qty = None, as left by "*" and "+"

IntTypes    == {"INT", "UINT", "NINT"}
NumberTypes == IntTypes \cup {"FLOAT"}
StringTypes == {"BSTR", "TSTR"}
PlainTypes  == {"NIL", "UNDEF", "ANY"}           \* never carry a value
Compound    == {"LIST", "MAP", "GROUP", "UNION"}
ElementTypes == NumberTypes \cup StringTypes \cup PlainTypes \cup Compound
                   \cup {"BOOL", "OTHER"}

NoModifiers == [m \in {} |-> None]

\* A CddlParser as __init__() leaves it.  "top" tells whether the element is
\* itself in my_types.values(); "error" whether it raised CddlParsingError.
NewElement ==
    [ type |-> None, value |-> None, kids |-> << >>, ref |-> None, is_socket |-> FALSE,
      label |-> FALSE,
      max_value |-> None, min_value |-> None,
      max_value_inclusive |-> TRUE, min_value_inclusive |-> TRUE,
      min_qty |-> 1, max_qty |-> 1,
      min_size |-> None, max_size |-> None,
      key |-> None, is_key |-> FALSE, cbor |-> None, tags |-> << >>,
      bits |-> None, default |-> None, modifiers |-> NoModifiers,
      top |-> FALSE, error |-> FALSE ]

IsType(e, types) == \E t \in types : e.type = Some(t)

=============================================================================
