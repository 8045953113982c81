---------------------------- MODULE CddlElement ----------------------------
(* One element of a CDDL file while zcbor.py builds it.  get_value() applies
   the handler of one token of the text after the other; the control operators
   that bound the element (.gt, .ge, .lt, .le, .size, .eq, .default) are only
   noted then.  process_modifiers() applies them once all of the CDDL has been
   read, in the order in which Python happens to iterate over a set, and
   post_validate() has the last word.  Tokens come in any order here, as they
   do in a text that somebody writes, except that nothing but a control operator
   follows a type (zcbor.py takes "nint 1..3" for the range alone).

   Byte is 256 in the code, MaxSize 8 and InlineMax 23.

   A definition Bug... is the one after it with a plausible mistake in it: the
   property it breaks is named in PROJECT.json.  No model uses it. *)
EXTENDS CddlTypes

CONSTANTS
    Byte,        \* how many values a byte has
    MaxSize,     \* the bytes of the largest integer
    InlineMax,   \* the largest integer that needs no bytes after its header
    Literals,    \* the numbers that a CDDL text may name
    MaxTokens,   \* how many tokens are read of one element
    Combos,      \* the sets of control operators that occur on one element
    Ranges,      \* the ranges that occur: << min, max, whether max is included >>
    NotSizedByRange  \* the types to which no text applies .size with a range

ASSUME ByteAssumption == Byte \in Nat /\ Byte >= 2
ASSUME SizeAssumption == MaxSize \in Nat /\ InlineMax \in Nat /\ MaxTokens \in Nat
ASSUME LiteralAssumption == Literals \subseteq Int /\ Ranges \subseteq (Int \X Int \X BOOLEAN)
\* What ^ is, for the provers, which do not know it.
ASSUME PowerAssumption == \A k \in 0 .. MaxSize : Byte ^ k \in Nat
ASSUME PowerSteps == Byte ^ 0 = 1 /\ \A k \in 0 .. (MaxSize - 1) : Byte ^ (k + 1) = Byte * Byte ^ k

VARIABLES
    self,        \* the element
    todo,        \* the modifiers that process_modifiers() has yet to apply
    tokens,      \* how many tokens were read
    phase        \* "parse", "process", "done" or "failed"

vars == << self, todo, tokens, phase >>

Inequalities == {".gt", ".ge", ".lt", ".le"}
deferred_mod_processors == Inequalities \cup {".size", ".eq", ".default"}
ops == deferred_mod_processors \cup {".cbor", ".cborseq", ".bits"}
eq_types == NumberTypes \cup StringTypes \cup {"BOOL"}

-----------------------------------------------------------------------------
(* Numbers *)

Abs(n) == IF n < 0 THEN -n ELSE n

\* divide_round_up(n.bit_length(), 8): the bytes that hold the magnitude of n.
ByteLength(n) == CHOOSE k \in 0 .. (MaxSize + 1) :
                    /\ k <= MaxSize => Abs(n) < Byte ^ k
                    /\ \A j \in 0 .. (k - 1) : Abs(n) >= Byte ^ j

\* The bytes of the "additional" field of a header: 0, 1, 2, 4 or 8.
sizeof(n) == IF n <= InlineMax THEN 0
             ELSE CHOOSE s \in {1, 2, 4, 8} :
                    /\ n < Byte ^ s
                    /\ \A r \in {1, 2, 4} : r < s => n >= Byte ^ r

NumberType(n) == IF n < 0 THEN "NINT" ELSE "UINT"

-----------------------------------------------------------------------------
(* The element's methods: each returns the element that it leaves. *)

Failed(e) == [e EXCEPT !.error = TRUE]

add_modifier(e, m, operand, no_duplicates) ==
    IF no_duplicates /\ m \in DOMAIN e.modifiers THEN Failed(e)
    ELSE [e EXCEPT !.modifiers = [x \in DOMAIN @ \cup {m} |-> IF x = m THEN operand ELSE @[x]]]

\* check_size() does not raise.
SizeIsValid(e, size) ==
    /\ IsType(e, IntTypes) => size \in 0 .. MaxSize
    /\ IsType(e, {"FLOAT"}) => size \in {2, 4, 8}
    /\ IsType(e, StringTypes) => size >= 0

\* enforce_sizeable() does not raise.
Sizeable(e) == /\ IsType(e, StringTypes \cup NumberTypes)
               /\ e.value = None \/ e.type = Some("FLOAT")

\* set_min_value() as set_min_size() calls it: the set_min_size() inside it
\* finds, or leaves, no more than the size that its caller writes next.
RaiseMinValue(e, v) ==
    IF IsSome(e.min_value) /\ e.min_value[1] >= v THEN e
    ELSE [e EXCEPT !.min_value = Some(v), !.min_value_inclusive = TRUE]

set_min_size(e, size) ==
    IF ~SizeIsValid(e, size) THEN Failed(e)
    ELSE IF IsSome(e.min_size) /\ e.min_size[1] >= size THEN e
    ELSE LET raised == IF e.type = Some("UINT")
                         THEN RaiseMinValue(e, IF size <= 1 THEN 0 ELSE Byte ^ (size - 1))
                         ELSE e
         IN  [raised EXCEPT !.min_size = Some(size)]

BugCapsTooLow(e, size) ==
    IF IsSome(e.max_size) /\ e.max_size[1] <= size THEN e
    ELSE IF ~SizeIsValid(e, size) THEN Failed(e)
    ELSE LET capped == IF e.type = Some("UINT") /\ size # 0 /\ e.max_value = None
                         THEN [e EXCEPT !.max_value = Some(Byte ^ size - 1), !.max_value_inclusive = FALSE]
                         ELSE e
         IN  [capped EXCEPT !.max_size = Some(size)]

set_max_size(e, size) ==
    IF IsSome(e.max_size) /\ e.max_size[1] <= size THEN e
    ELSE IF ~SizeIsValid(e, size) THEN Failed(e)
    ELSE LET capped == IF e.type = Some("UINT") /\ size # 0 /\ e.max_value = None
                         THEN [e EXCEPT !.max_value = Some(Byte ^ size - 1), !.max_value_inclusive = TRUE]
                         ELSE e
         IN  [capped EXCEPT !.max_size = Some(size)]

BugLastOneCounts(e, v, inclusive) ==
    LET bounded == [e EXCEPT !.min_value = Some(v), !.min_value_inclusive = inclusive]
    IN  IF IsType(e, IntTypes) THEN set_min_size(bounded, ByteLength(v)) ELSE bounded

set_min_value(e, v, inclusive) ==
    IF IsSome(e.min_value) /\ e.min_value[1] >= v THEN e
    ELSE LET bounded == [e EXCEPT !.min_value = Some(v), !.min_value_inclusive = inclusive]
         IN  IF IsType(e, IntTypes) THEN set_min_size(bounded, ByteLength(v)) ELSE bounded

set_max_value(e, v, inclusive) ==
    IF IsSome(e.max_value) /\ e.max_value[1] <= v THEN e
    ELSE LET bounded == [e EXCEPT !.max_value = Some(v), !.max_value_inclusive = inclusive]
         IN  IF IsType(e, IntTypes) THEN set_max_size(bounded, ByteLength(v)) ELSE bounded

\* Either bound may be None.
set_size_range(e, min_size, max_size_in, inc_end) ==
    LET max_size == IF IsSome(max_size_in) /\ ~inc_end THEN Some(max_size_in[1] - 1) ELSE max_size_in
        low(x)   == IF IsSome(min_size) THEN set_min_size(x, min_size[1]) ELSE x
        high(x)  == IF IsSome(max_size) THEN set_max_size(x, max_size[1]) ELSE x
    IN  IF \/ ~Sizeable(e)
           \/ IsSome(min_size) /\ min_size[1] < 0
           \/ IsSome(max_size) /\ max_size[1] < 0
           \/ IsSome(min_size) /\ IsSome(max_size) /\ min_size[1] > max_size[1]
        THEN Failed(e)
        ELSE high(low(e))

set_size(e, size) ==
    IF ~Sizeable(e) \/ ~SizeIsValid(e, size) THEN Failed(e)
    ELSE LET half == (Byte ^ size) \div 2
         IN  CASE e.type = Some("UINT") -> [e EXCEPT !.max_value = Some(Byte ^ size - 1)]
               [] e.type = Some("INT")  -> [e EXCEPT !.max_value = Some(half - 1), !.min_value = Some(-half)]
               [] e.type = Some("NINT") -> [e EXCEPT !.min_value = Some(-half)]
               [] OTHER -> set_size_range(e, Some(size), Some(size), TRUE)

set_value(e, v) ==
    LET noted  == IF IsSome(v) THEN add_modifier(e, "value", v, TRUE) ELSE e
        valued == [noted EXCEPT !.value = v]
        lower  == IF IsSome(v) /\ IsType(e, {"UINT", "NINT"})
                    THEN set_max_value(set_min_value(valued, v[1], TRUE), v[1], TRUE) ELSE valued
    IN  IF IsSome(v) /\ IsSome(e.value) THEN Failed(e)
        ELSE IF e.type = Some("NINT") THEN [lower EXCEPT !.max_value = Some(-1)] ELSE lower

type_and_value(e, type, v) ==
    IF IsSome(e.type) THEN Failed(e) ELSE set_value([e EXCEPT !.type = Some(type)], v)

type_and_range(e, type, min, max, inc_end) ==
    IF min > max \/ (min = max /\ ~inc_end) THEN Failed(e)
    ELSE IF min = max THEN type_and_value(e, type, Some(min))
    ELSE LET typed == [e EXCEPT !.type = Some(type)]
             bounded == set_max_value(set_min_value(typed, min, TRUE), max, inc_end)
             \* Python: if new_type in "UINT", which "INT" is too.
             sized == IF type \in {"UINT", "INT"}
                        THEN set_size_range(bounded, Some(sizeof(min)), Some(sizeof(max)), TRUE)
                        ELSE set_size_range(bounded, Some(sizeof(-max)), Some(sizeof(-min)), TRUE)
             \* and the union of the two for an integer of either sign
             larger == IF sizeof(Abs(max)) > sizeof(Abs(min)) THEN sizeof(Abs(max)) ELSE sizeof(Abs(min))
             final == IF type = "INT" THEN set_size_range(sized, None, Some(larger), TRUE) ELSE sized
         IN  add_modifier(final, "range", << min, max, inc_end >>, TRUE)

-----------------------------------------------------------------------------
(* The operand of a control operator is an element of its own: a literal, a
   range, or a type without a value. *)

Literal(n)  == [type |-> NumberType(n), value |-> Some(n), range |-> None]
Range(r)    == [type |-> "UINT", value |-> None, range |-> Some(r)]
Vague       == [type |-> "UINT", value |-> None, range |-> None]

\* extract_ineq_val() does not raise.
IneqIsValid(e, operand) ==
    /\ IsType(e, NumberTypes)
    /\ e.value = None
    /\ IsSome(operand.value)
    /\ IsType(e, {"UINT", "NINT"}) => e.type = Some(operand.type)

set_size_op(e, operand) ==
    IF IsSome(operand.value)
      THEN IF operand.type = "UINT" THEN set_size(e, operand.value[1]) ELSE Failed(e)
      ELSE IF IsSome(operand.range)
             THEN LET r == operand.range[1] IN set_size_range(e, Some(r[1]), Some(r[2]), r[3])
             ELSE Failed(e)

SameType(e, operand) == \/ e.type = Some(operand.type)
                        \/ e.type = Some("INT") /\ operand.type \in {"UINT", "NINT"}

set_eq(e, operand) ==
    IF IsType(e, eq_types) /\ IsSome(operand.value) /\ SameType(e, operand)
      THEN set_value(e, operand.value) ELSE Failed(e)

\* For the types that eq_types has; .default of a union is in CddlTree.
set_default(e, operand) ==
    IF /\ IsType(e, eq_types) /\ e.min_qty = 0 /\ e.max_qty = 1
       /\ IsSome(operand.value) /\ SameType(e, operand)
      THEN [e EXCEPT !.default = operand.value] ELSE Failed(e)

mod_processors(e, m, operand) ==
    CASE m \in Inequalities ->
           IF ~IneqIsValid(e, operand) THEN Failed(e)
           ELSE IF m \in {".gt", ".ge"} THEN set_min_value(e, operand.value[1], m = ".ge")
           ELSE set_max_value(e, operand.value[1], m = ".le")
      [] m = ".size"    -> set_size_op(e, operand)
      [] m = ".eq"      -> set_eq(e, operand)
      [] m = ".default" -> set_default(e, operand)
      [] m \in {".cbor", ".cborseq"} ->       \* that .cborseq repeats its operand is left out
           IF e.type = Some("BSTR") THEN [e EXCEPT !.cbor = Some(operand)] ELSE Failed(e)
      [] m = ".bits" ->
           IF e.type = Some("UINT") THEN [e EXCEPT !.bits = Some(operand)] ELSE Failed(e)

-----------------------------------------------------------------------------
(* The tokens.  Read(e) is the end of every handler: CddlParsingError ends the
   program. *)

Init == /\ self = NewElement
        /\ todo = {}
        /\ tokens = 0
        /\ phase = "parse"

Read(e) == /\ phase = "parse"
           /\ tokens < MaxTokens
           /\ tokens' = tokens + 1
           /\ self' = e
           /\ phase' = IF self'.error THEN "failed" ELSE "parse"
           /\ UNCHANGED todo

BeforeType == self.type = None

SetQuantifier ==
    /\ BeforeType
    /\ \E q \in {<< 0, 1 >>, << 1, Many >>} :
          Read(add_modifier([self EXCEPT !.min_qty = q[1], !.max_qty = q[2]], "quantifier", None, TRUE))

SetLabel == BeforeType /\ ~self.label /\ Read([self EXCEPT !.label = TRUE])

\* The key is parsed by parse_one(), an element like this one; only its type matters.
SetKey ==
    /\ BeforeType
    /\ \E type \in {"UINT", "GROUP"} :
          Read(IF IsSome(self.key) \/ type = "GROUP" THEN Failed(self)
               ELSE add_modifier([self EXCEPT !.key = Some(type)], "key", None, TRUE))

AddTag == /\ BeforeType
          /\ Read([add_modifier(self, "tag", None, FALSE) EXCEPT !.tags = Append(@, 1)])

TypeName ==
    /\ BeforeType
    /\ \E type \in {"UINT", "NINT", "INT", "FLOAT", "BSTR", "BOOL", "NIL"} :
          Read(type_and_value(self, type, None))

FloatWithSize ==
    /\ BeforeType
    /\ \E s \in {<< 2, 2 >>, << 4, 8 >>} :
          \E typed \in {type_and_value(self, "FLOAT", None)} :
             Read(IF s[1] = s[2] THEN set_size(typed, s[1])
                  ELSE set_size_range(typed, Some(s[1]), Some(s[2]), TRUE))

LiteralNumber ==
    /\ BeforeType
    /\ \E n \in Literals : Read(type_and_value(self, NumberType(n), Some(n)))

SetNumRange ==
    /\ BeforeType
    /\ \E r \in Ranges :
          Read(type_and_range(self, IF NumberType(r[1]) = NumberType(r[2]) THEN NumberType(r[1]) ELSE "INT",
                              r[1], r[2], r[3]))

Operands(m) ==
    CASE m = ".size" -> {Literal(n) : n \in Literals \cap (-1 .. MaxSize + 1)}
                           \cup {Range(r) : r \in {x \in Ranges : x[1] < x[2]}}
      [] m \in {".cbor", ".cborseq", ".bits"} -> {Vague}
      [] OTHER -> {Literal(n) : n \in Literals} \cup {Vague}

\* Two bounds of one side that name the same number.  Which of them counts is
\* a matter of the order of a set then, so they do not come.
SameSide(m) == IF m \in {".gt", ".ge"} THEN {".gt", ".ge"} ELSE {".lt", ".le"}
IsEqualBound(m, operand) ==
    m \in Inequalities /\ \E x \in SameSide(m) \cap DOMAIN self.modifiers : self.modifiers[x] = operand

IsSizeRange(m, operand) == m = ".size" /\ IsSome(operand.range)

\* A range takes the rest of the text with it, and refuses an operator there.
AddControlOp ==
    \E m \in ops : \E operand \in Operands(m) : \E noted \in {add_modifier(self, m, operand, TRUE)} :
       /\ ~IsEqualBound(m, operand)
       /\ ~(IsSizeRange(m, operand) /\ IsType(self, NotSizedByRange))
       /\ \E c \in Combos : {m} \cup (DOMAIN self.modifiers \cap ops) \subseteq c
       /\ Read(IF self.type = None \/ noted.error \/ "range" \in DOMAIN self.modifiers THEN Failed(self)
               ELSE IF m \in deferred_mod_processors THEN noted
               ELSE mod_processors(noted, m, operand))

BugProcessesAll == /\ phase = "parse"
                   /\ phase' = IF IsSome(self.type) THEN "process" ELSE "failed"
                   /\ todo' = DOMAIN self.modifiers
                   /\ UNCHANGED << self, tokens >>

\* The text ends: an element without a type is an error.
EndOfText == /\ phase = "parse"
             /\ phase' = IF IsSome(self.type) THEN "process" ELSE "failed"
             /\ todo' = deferred_mod_processors \cap DOMAIN self.modifiers
             /\ UNCHANGED << self, tokens >>

\* One turn of the loop of process_modifiers().
ProcessModifier(m) ==
    /\ phase = "process"
    /\ m \in todo
    /\ todo' = todo \ {m}
    /\ self' = mod_processors(self, m, self.modifiers[m])
    /\ phase' = IF self'.error THEN "failed" ELSE phase
    /\ UNCHANGED tokens

\* What post_validate() asks of an element that has no children.
PostValidate ==
    /\ phase = "process"
    /\ todo = {}
    /\ phase' = IF IsSome(self.cbor) /\ IsSome(self.default) THEN "failed" ELSE "done"
    /\ UNCHANGED << self, todo, tokens >>

Next == \/ SetQuantifier \/ SetLabel \/ SetKey \/ AddTag
        \/ TypeName \/ FloatWithSize \/ LiteralNumber \/ SetNumRange
        \/ AddControlOp \/ EndOfText
        \/ \E m \in deferred_mod_processors : ProcessModifier(m)
        \/ PostValidate

Spec == Init /\ [][Next]_vars

-----------------------------------------------------------------------------
(* Properties *)

IsOption(o, S) == o \in Seq(S) /\ Len(o) <= 1

\* The attributes hold what the rest of zcbor.py reads them as: bounds are
\* integers or absent, and no bound is exclusive that was never set.
TypeOK ==
    /\ IsOption(self.type, ElementTypes)
    /\ IsOption(self.min_value, Int) /\ IsOption(self.max_value, Int)
    /\ IsOption(self.min_size, Int) /\ IsOption(self.max_size, Int)
    /\ self.min_value_inclusive \in BOOLEAN /\ self.max_value_inclusive \in BOOLEAN
    /\ IsOption(self.value, Int)
    /\ todo \subseteq deferred_mod_processors
    /\ phase \in {"parse", "process", "done", "failed"}

\* What the checks that follow from the attributes let through.
Accepts(e, n) ==
    /\ IsSome(e.value) => n = e.value[1]
    /\ IsSome(e.min_value) => (IF e.min_value_inclusive THEN n >= e.min_value[1] ELSE n > e.min_value[1])
    /\ IsSome(e.max_value) => (IF e.max_value_inclusive THEN n <= e.max_value[1] ELSE n < e.max_value[1])

OfType(e, n) == CASE e.type = Some("UINT") -> n >= 0
                  [] e.type = Some("NINT") -> n < 0
                  [] OTHER -> TRUE

InRange(r, n) == r[1] <= n /\ (IF r[3] THEN n <= r[2] ELSE n < r[2])

\* What one modifier of the text asks of an integer.
Asked(e, m, n) ==
    LET operand == e.modifiers[m]
    IN  CASE m = "value" -> n = operand[1]
          [] m = "range" -> InRange(operand, n)
          [] m = ".gt"   -> n > operand.value[1]
          [] m = ".ge"   -> n >= operand.value[1]
          [] m = ".lt"   -> n < operand.value[1]
          [] m = ".le"   -> n <= operand.value[1]
          [] m = ".size" ->
               LET size == IF IsSome(operand.value) THEN operand.value[1] ELSE 0
                   r    == IF IsSome(operand.range) THEN operand.range[1] ELSE << 0, 0, TRUE >>
                   fits(s) == IF e.type = Some("UINT") THEN n < Byte ^ s
                              ELSE s > 0 /\ 2 * n < Byte ^ s /\ 2 * n >= -(Byte ^ s)
               IN  IF IsSome(operand.value) THEN fits(size)
                   ELSE \E s \in r[1] .. r[2] :
                          InRange(r, s) /\ fits(s) /\ (s > 1 => ~fits(s - 1))
          [] OTHER -> TRUE

\* The values by which TLC tells two sets of integers apart.
Window == -(2 * Byte ^ MaxSize) .. (2 * Byte ^ MaxSize)

\* Of the integers of its type, a finished element accepts those that every
\* modifier of its text asks for and no other, although type_and_range(),
\* set_size() and the operators write the same four attributes.
MeansWhatIsAsked ==
    phase = "done" /\ IsType(self, IntTypes) =>
        \A n \in Window : OfType(self, n) =>
            (Accepts(self, n) <=> \A m \in DOMAIN self.modifiers : Asked(self, m, n))

\* Nothing reads the sizes of an integer later: its bounds decide.
SizesAside(e) == IF IsType(e, IntTypes) THEN [e EXCEPT !.min_size = None, !.max_size = None] ELSE e

\* process_modifiers() iterates over a set: whichever of two modifiers comes
\* first, the element is the same afterwards, or an error either way.
ModifiersCommute ==
    phase = "process" =>
        \A m, n \in todo :
            LET mn == mod_processors(mod_processors(self, m, self.modifiers[m]), n, self.modifiers[n])
                nm == mod_processors(mod_processors(self, n, self.modifiers[n]), m, self.modifiers[m])
            IN  mn.error = nm.error /\ (~mn.error => SizesAside(mn) = SizesAside(nm))

\* An inequality never gives back a value that an earlier bound took away.
OnlyTightens ==
    [][\A m \in Inequalities : ProcessModifier(m) /\ ~self'.error =>
         \A n \in Window : Accepts(self', n) => Accepts(self, n)]_vars

=============================================================================
