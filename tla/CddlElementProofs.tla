------------------------- MODULE CddlElementProofs -------------------------
(* Theorems about CddlElement, for any numbers and ranges that a text may
   name, any size of a byte and any number of tokens: the types of an element's
   attributes, that a bound only tightens, that the order in which
   process_modifiers() takes the operators does not matter, and that the bounds
   it ends with are those that the text asks for. *)
EXTENDS CddlElement, TLAPS, WellFoundedInduction

Opt(S) == {None} \cup {Some(x) : x \in S}

Operand == [ type : {"UINT", "NINT"}, value : Opt(Int), range : Opt(Int \X Int \X BOOLEAN) ]

\* The attributes that the methods write, and that they may be read.
Attributes ==
    { "type", "value", "kids", "ref", "is_socket", "label", "max_value", "min_value",
      "max_value_inclusive", "min_value_inclusive", "min_qty", "max_qty", "min_size",
      "max_size", "key", "is_key", "cbor", "tags", "bits", "default", "modifiers", "top", "error" }

Bounded(e) ==
    /\ e.value \in Opt(Int)
    /\ e.min_value \in Opt(Int) /\ e.max_value \in Opt(Int)
    /\ e.min_size \in Opt(Int) /\ e.max_size \in Opt(Int)
    /\ e.min_value_inclusive \in BOOLEAN /\ e.max_value_inclusive \in BOOLEAN

\* What is noted for process_modifiers() are operands.
Noted(e) == \A m \in DOMAIN e.modifiers \cap deferred_mod_processors : e.modifiers[m] \in Operand

IsElement(e) ==
    /\ DOMAIN e = Attributes
    /\ e.type \in Opt(ElementTypes)
    /\ Bounded(e)
    /\ Noted(e)

IInv == /\ IsElement(self)
        /\ phase = "parse" => todo = {}
        /\ todo \subseteq deferred_mod_processors \cap DOMAIN self.modifiers
        /\ phase \in {"parse", "process", "done", "failed"}

-----------------------------------------------------------------------------
(* Options. *)

LEMMA OptionIsOne ==
    ASSUME NEW S, NEW o \in Opt(S)
    PROVE  /\ o # None => o[1] \in S
           /\ IsOption(o, S)
  <1>1. CASE o = None
    BY <1>1 DEF None, IsOption
  <1>2. CASE o # None
    <2>1. PICK x \in S : o = << x >>
      BY <1>2 DEF Opt, Some
    <2>2. << x >> \in Seq(S) /\ Len(<< x >>) = 1 /\ << x >>[1] = x
      OBVIOUS
    <2> QED  BY <2>1, <2>2 DEF IsOption
  <1> QED  BY <1>1, <1>2

LEMMA SomeIsOption ==
    ASSUME NEW S, NEW x \in S
    PROVE  Some(x) \in Opt(S) /\ Some(x) # None /\ Some(x)[1] = x
  BY DEF Opt, None, Some

LEMMA NoneIsOption ==
    ASSUME NEW S
    PROVE  None \in Opt(S)
  BY DEF Opt

-----------------------------------------------------------------------------
(* The methods keep an element an element. *)

LEMMA FailedKeeps ==
    ASSUME NEW e, IsElement(e)
    PROVE  IsElement(Failed(e)) /\ Failed(e).error
  BY DEF Failed, IsElement, Attributes, Bounded, Noted

\* An element whose bounds are written is one.
LEMMA BoundsKeep ==
    ASSUME NEW e, NEW f, IsElement(e), DOMAIN f = Attributes,
           f.type = e.type, f.modifiers = e.modifiers, Bounded(f)
    PROVE  IsElement(f)
  BY DEF IsElement, Noted

LEMMA RaiseMinValueKeeps ==
    ASSUME NEW e, NEW v \in Int, IsElement(e)
    PROVE  IsElement(RaiseMinValue(e, v))
  <1>1. Some(v) \in Opt(Int)
    BY SomeIsOption
  <1> QED  BY <1>1 DEF RaiseMinValue, IsElement, Attributes, Bounded, Noted

\* The number that a size of an integer raises a lower bound to.
Least(size) == IF size <= 1 THEN 0 ELSE Byte ^ (size - 1)

LEMMA LeastIsNat ==
    ASSUME NEW size \in 0 .. MaxSize
    PROVE  Least(size) \in Nat
  <1>1. CASE size <= 1
    BY <1>1 DEF Least
  <1>2. CASE ~(size <= 1)
    <2>1. size - 1 \in 0 .. MaxSize
      BY <1>2, SizeAssumption
    <2> QED  BY <1>2, <2>1, PowerAssumption DEF Least
  <1> QED  BY <1>1, <1>2

LEMMA SetMinSizeKeeps ==
    ASSUME NEW e, NEW size, IsElement(e), IsType(e, IntTypes) \/ size \in Int
    PROVE  IsElement(set_min_size(e, size))
  <1>1. CASE ~SizeIsValid(e, size)
    BY <1>1, FailedKeeps DEF set_min_size
  <1>2. CASE SizeIsValid(e, size) /\ IsSome(e.min_size) /\ e.min_size[1] >= size
    BY <1>2 DEF set_min_size
  <1>3. CASE SizeIsValid(e, size) /\ ~(IsSome(e.min_size) /\ e.min_size[1] >= size)
    <2> DEFINE raised == IF e.type = Some("UINT") THEN RaiseMinValue(e, Least(size)) ELSE e
    <2>1. size \in Int
      BY <1>3, SizeAssumption DEF SizeIsValid
    <2>2. IsElement(raised)
      <3>1. CASE e.type = Some("UINT")
        <4>1. size \in 0 .. MaxSize
          BY <1>3, <3>1 DEF SizeIsValid, IsType, IntTypes
        <4> QED  BY <3>1, <4>1, LeastIsNat, RaiseMinValueKeeps
      <3> QED  BY <3>1
    <2>3. Some(size) \in Opt(Int)
      BY <2>1, SomeIsOption
    <2>4. set_min_size(e, size) = [raised EXCEPT !.min_size = Some(size)]
      BY <1>3 DEF set_min_size, Least
    <2> HIDE DEF raised
    <2> QED  BY <2>2, <2>3, <2>4 DEF IsElement, Attributes, Bounded, Noted
  <1> QED  BY <1>1, <1>2, <1>3

LEMMA SetMaxSizeKeeps ==
    ASSUME NEW e, NEW size, IsElement(e), IsType(e, IntTypes) \/ size \in Int
    PROVE  IsElement(set_max_size(e, size))
  <1>1. CASE IsSome(e.max_size) /\ e.max_size[1] <= size
    BY <1>1 DEF set_max_size
  <1>2. CASE ~(IsSome(e.max_size) /\ e.max_size[1] <= size) /\ ~SizeIsValid(e, size)
    BY <1>2, FailedKeeps DEF set_max_size
  <1>3. CASE ~(IsSome(e.max_size) /\ e.max_size[1] <= size) /\ SizeIsValid(e, size)
    <2> DEFINE capped == IF e.type = Some("UINT") /\ size # 0 /\ e.max_value = None
                           THEN [e EXCEPT !.max_value = Some(Byte ^ size - 1), !.max_value_inclusive = TRUE]
                           ELSE e
    <2>1. size \in Int
      BY <1>3, SizeAssumption DEF SizeIsValid
    <2>2. IsElement(capped)
      <3>1. CASE e.type = Some("UINT")
        <4>1. size \in 0 .. MaxSize
          BY <1>3, <3>1 DEF SizeIsValid, IsType, IntTypes
        <4>2. Byte ^ size - 1 \in Int
          BY <4>1, PowerAssumption
        <4>3. Some(Byte ^ size - 1) \in Opt(Int)
          BY <4>2, SomeIsOption
        <4> QED  BY <3>1, <4>3 DEF IsElement, Attributes, Bounded, Noted
      <3> QED  BY <3>1
    <2>3. Some(size) \in Opt(Int)
      BY <2>1, SomeIsOption
    <2>4. set_max_size(e, size) = [capped EXCEPT !.max_size = Some(size)]
      BY <1>3 DEF set_max_size
    <2> HIDE DEF capped
    <2> QED  BY <2>2, <2>3, <2>4 DEF IsElement, Attributes, Bounded, Noted
  <1> QED  BY <1>1, <1>2, <1>3

LEMMA SetMinValueKeeps ==
    ASSUME NEW e, NEW v \in Int, NEW inclusive \in BOOLEAN, IsElement(e)
    PROVE  IsElement(set_min_value(e, v, inclusive))
  <1> DEFINE bounded == [e EXCEPT !.min_value = Some(v), !.min_value_inclusive = inclusive]
  <1>1. Some(v) \in Opt(Int)
    BY SomeIsOption
  <1>2. IsElement(bounded) /\ bounded.type = e.type
    BY <1>1 DEF IsElement, Attributes, Bounded, Noted
  <1>3. IsType(e, IntTypes) => IsElement(set_min_size(bounded, ByteLength(v)))
    BY <1>2, SetMinSizeKeeps DEF IsType
  <1> HIDE DEF bounded
  <1>4. set_min_value(e, v, inclusive) \in {e, bounded, set_min_size(bounded, ByteLength(v))}
        /\ (set_min_value(e, v, inclusive) \notin {e, bounded} => IsType(e, IntTypes))
    BY DEF set_min_value, bounded
  <1> QED  BY <1>2, <1>3, <1>4

LEMMA SetMaxValueKeeps ==
    ASSUME NEW e, NEW v \in Int, NEW inclusive \in BOOLEAN, IsElement(e)
    PROVE  IsElement(set_max_value(e, v, inclusive))
  <1> DEFINE bounded == [e EXCEPT !.max_value = Some(v), !.max_value_inclusive = inclusive]
  <1>1. Some(v) \in Opt(Int)
    BY SomeIsOption
  <1>2. IsElement(bounded) /\ bounded.type = e.type
    BY <1>1 DEF IsElement, Attributes, Bounded, Noted
  <1>3. IsType(e, IntTypes) => IsElement(set_max_size(bounded, ByteLength(v)))
    BY <1>2, SetMaxSizeKeeps DEF IsType
  <1> HIDE DEF bounded
  <1>4. set_max_value(e, v, inclusive) \in {e, bounded, set_max_size(bounded, ByteLength(v))}
        /\ (set_max_value(e, v, inclusive) \notin {e, bounded} => IsType(e, IntTypes))
    BY DEF set_max_value, bounded
  <1> QED  BY <1>2, <1>3, <1>4

\* Sizes, where the type does not bound them by itself.
IsSize(e, option) == IsSome(option) => option[1] \in Int \/ IsType(e, IntTypes)

LEMMA SetSizeRangeKeeps ==
    ASSUME NEW e, NEW min_size, NEW max_size_in, NEW inc_end \in BOOLEAN, IsElement(e),
           IsSize(e, min_size), IsSize(e, max_size_in)
    PROVE  IsElement(set_size_range(e, min_size, max_size_in, inc_end))
  <1> DEFINE max_size == IF IsSome(max_size_in) /\ ~inc_end THEN Some(max_size_in[1] - 1) ELSE max_size_in
             low  == IF IsSome(min_size) THEN set_min_size(e, min_size[1]) ELSE e
             high == IF IsSome(max_size) THEN set_max_size(low, max_size[1]) ELSE low
  <1>1. IsElement(low)
    BY SetMinSizeKeeps DEF IsSize
  <1>2. IsType(e, IntTypes) => IsType(low, IntTypes)
    BY DEF IsType, set_min_size, Failed, RaiseMinValue, IsElement, Attributes
  <1>3. IsSome(max_size) => max_size[1] \in Int \/ IsType(low, IntTypes)
    BY <1>2 DEF IsSize, Some, IsSome
  <1>4. IsElement(high)
    BY <1>1, <1>3, SetMaxSizeKeeps
  <1>5. set_size_range(e, min_size, max_size_in, inc_end) \in {Failed(e), high}
    BY DEF set_size_range
  <1> HIDE DEF high
  <1> QED  BY <1>4, <1>5, FailedKeeps

LEMMA SetSizeKeeps ==
    ASSUME NEW e, NEW size \in Int, IsElement(e)
    PROVE  IsElement(set_size(e, size))
  <1>1. CASE ~Sizeable(e) \/ ~SizeIsValid(e, size)
    BY <1>1, FailedKeeps DEF set_size
  <1>2. CASE Sizeable(e) /\ SizeIsValid(e, size) /\ IsType(e, IntTypes)
    <2> DEFINE half == (Byte ^ size) \div 2
    <2>1. Byte ^ size \in Nat
      BY <1>2, PowerAssumption DEF SizeIsValid
    <2>2. /\ Some(Byte ^ size - 1) \in Opt(Int)
          /\ Some(half - 1) \in Opt(Int)
          /\ Some(-half) \in Opt(Int)
      <3>1. half \in Int /\ Byte ^ size - 1 \in Int
        BY <2>1
      <3> HIDE DEF half
      <3>2. half - 1 \in Int /\ -half \in Int
        BY <3>1
      <3> QED  BY <3>1, <3>2, SomeIsOption
    <2>3. set_size(e, size) \in { [e EXCEPT !.max_value = Some(Byte ^ size - 1)],
                                 [e EXCEPT !.max_value = Some(half - 1), !.min_value = Some(-half)],
                                 [e EXCEPT !.min_value = Some(-half)] }
      BY <1>2 DEF set_size, IsType, IntTypes
    <2> HIDE DEF half
    <2>4. \A v \in Opt(Int) :
             IsElement([e EXCEPT !.max_value = v]) /\ IsElement([e EXCEPT !.min_value = v])
      BY DEF IsElement, Attributes, Bounded, Noted
    <2>5. IsElement([e EXCEPT !.max_value = Some(half - 1), !.min_value = Some(-half)])
      BY <2>2 DEF IsElement, Attributes, Bounded, Noted
    <2> QED  BY <2>2, <2>3, <2>4, <2>5
  <1>3. CASE Sizeable(e) /\ SizeIsValid(e, size) /\ ~IsType(e, IntTypes)
    <2>1. set_size(e, size) = set_size_range(e, Some(size), Some(size), TRUE)
      BY <1>3 DEF set_size, IsType, IntTypes
    <2>2. IsSize(e, Some(size))
      BY SomeIsOption DEF IsSize
    <2> QED  BY <2>1, <2>2, SetSizeRangeKeeps
  <1> QED  BY <1>1, <1>2, <1>3

\* A modifier of the text that process_modifiers() will not look at.
LEMMA AddModifierKeeps ==
    ASSUME NEW e, NEW m, NEW operand, NEW no_duplicates \in BOOLEAN, IsElement(e),
           m \in deferred_mod_processors => operand \in Operand
    PROVE  IsElement(add_modifier(e, m, operand, no_duplicates))
  <1>1. CASE no_duplicates /\ m \in DOMAIN e.modifiers
    BY <1>1, FailedKeeps DEF add_modifier
  <1>2. CASE ~(no_duplicates /\ m \in DOMAIN e.modifiers)
    <2> DEFINE more == [x \in DOMAIN e.modifiers \cup {m} |-> IF x = m THEN operand ELSE e.modifiers[x]]
    <2>1. add_modifier(e, m, operand, no_duplicates) = [e EXCEPT !.modifiers = more]
      BY <1>2 DEF add_modifier
    <2>2. \A x \in DOMAIN more \cap deferred_mod_processors : more[x] \in Operand
      BY DEF IsElement, Noted
    <2> HIDE DEF more
    <2> QED  BY <2>1, <2>2 DEF IsElement, Attributes, Bounded, Noted
  <1> QED  BY <1>1, <1>2

LEMMA SetValueKeeps ==
    ASSUME NEW e, NEW v \in Opt(Int), IsElement(e)
    PROVE  IsElement(set_value(e, v))
  <1> DEFINE noted  == IF IsSome(v) THEN add_modifier(e, "value", v, TRUE) ELSE e
             valued == [noted EXCEPT !.value = v]
             lower  == IF IsSome(v) /\ IsType(e, {"UINT", "NINT"})
                         THEN set_max_value(set_min_value(valued, v[1], TRUE), v[1], TRUE) ELSE valued
             below  == [lower EXCEPT !.max_value = Some(-1)]
  <1>1. IsElement(noted)
    BY AddModifierKeeps DEF deferred_mod_processors, Inequalities
  <1>2. IsElement(valued)
    BY <1>1 DEF IsElement, Attributes, Bounded, Noted
  <1>3. IsSome(v) => v[1] \in Int
    BY OptionIsOne DEF IsSome, None
  <1> HIDE DEF valued
  <1>4. IsElement(lower)
    BY <1>2, <1>3, SetMinValueKeeps, SetMaxValueKeeps
  <1> HIDE DEF lower
  <1>5. Some(-1) \in Opt(Int)
    BY SomeIsOption
  <1>6. IsElement(below)
    BY <1>4, <1>5 DEF IsElement, Attributes, Bounded, Noted
  <1>7. set_value(e, v) \in {Failed(e), below, lower}
    BY DEF set_value, lower, valued
  <1> HIDE DEF below
  <1> QED  BY <1>4, <1>6, <1>7, FailedKeeps

LEMMA TypeAndValueKeeps ==
    ASSUME NEW e, NEW type \in ElementTypes, NEW v \in Opt(Int), IsElement(e)
    PROVE  IsElement(type_and_value(e, type, v))
  <1> DEFINE typed == [e EXCEPT !.type = Some(type)]
  <1>1. Some(type) \in Opt(ElementTypes)
    BY SomeIsOption
  <1>2. IsElement(typed)
    BY <1>1 DEF IsElement, Attributes, Bounded, Noted
  <1>3. type_and_value(e, type, v) \in {Failed(e), set_value(typed, v)}
    BY DEF type_and_value
  <1> HIDE DEF typed
  <1> QED  BY <1>2, <1>3, FailedKeeps, SetValueKeeps

\* The type of an element whose bounds are written stays.
LEMMA BoundsLeaveType ==
    ASSUME NEW e, NEW v \in Int, NEW inclusive \in BOOLEAN, IsElement(e)
    PROVE  /\ set_min_value(e, v, inclusive).type = e.type
           /\ set_max_value(e, v, inclusive).type = e.type
  <1>1. ASSUME NEW f, NEW size, DOMAIN f = Attributes
        PROVE  set_min_size(f, size).type = f.type /\ set_max_size(f, size).type = f.type
    BY <1>1 DEF set_min_size, set_max_size, Failed, RaiseMinValue, Attributes
  <1> QED  BY <1>1 DEF set_min_value, set_max_value, IsElement, Attributes

LEMMA SizeRangeLeavesType ==
    ASSUME NEW e, NEW min_size, NEW max_size_in, NEW inc_end, IsElement(e)
    PROVE  set_size_range(e, min_size, max_size_in, inc_end).type = e.type
  <1>1. ASSUME NEW f, NEW size, DOMAIN f = Attributes
        PROVE  /\ set_min_size(f, size).type = f.type /\ set_max_size(f, size).type = f.type
               /\ DOMAIN set_min_size(f, size) = Attributes
    BY <1>1 DEF set_min_size, set_max_size, Failed, RaiseMinValue, Attributes
  <1> QED  BY <1>1 DEF set_size_range, Failed, IsElement, Attributes

LEMMA TypeAndRangeKeeps ==
    ASSUME NEW e, NEW type \in IntTypes, NEW min \in Int, NEW max \in Int, NEW inc_end \in BOOLEAN,
           IsElement(e)
    PROVE  IsElement(type_and_range(e, type, min, max, inc_end))
  <1>1. CASE min > max \/ (min = max /\ ~inc_end)
    BY <1>1, FailedKeeps DEF type_and_range
  <1>2. CASE ~(min > max \/ (min = max /\ ~inc_end)) /\ min = max
    <2>1. type \in ElementTypes /\ Some(min) \in Opt(Int)
      BY SomeIsOption DEF ElementTypes, IntTypes, NumberTypes
    <2>2. type_and_range(e, type, min, max, inc_end) = type_and_value(e, type, Some(min))
      BY <1>2 DEF type_and_range
    <2> QED  BY <2>1, <2>2, TypeAndValueKeeps
  <1>3. CASE ~(min > max \/ (min = max /\ ~inc_end)) /\ min # max
    <2> DEFINE typed   == [e EXCEPT !.type = Some(type)]
               lowered == set_min_value(typed, min, TRUE)
               bounded == set_max_value(lowered, max, inc_end)
               sized == IF type \in {"UINT", "INT"}
                          THEN set_size_range(bounded, Some(sizeof(min)), Some(sizeof(max)), TRUE)
                          ELSE set_size_range(bounded, Some(sizeof(-max)), Some(sizeof(-min)), TRUE)
               larger == IF sizeof(Abs(max)) > sizeof(Abs(min)) THEN sizeof(Abs(max)) ELSE sizeof(Abs(min))
               final == IF type = "INT" THEN set_size_range(sized, None, Some(larger), TRUE) ELSE sized
    <2>1. Some(type) \in Opt(ElementTypes)
      BY SomeIsOption DEF ElementTypes, IntTypes, NumberTypes
    <2>2. IsElement(typed) /\ typed.type = Some(type)
      BY <2>1 DEF IsElement, Attributes, Bounded, Noted
    <2> HIDE DEF typed
    <2>3. IsElement(lowered) /\ lowered.type = Some(type)
      BY <2>2, SetMinValueKeeps, BoundsLeaveType
    <2> HIDE DEF lowered
    <2>4. IsElement(bounded) /\ bounded.type = Some(type)
      BY <2>3, SetMaxValueKeeps, BoundsLeaveType
    <2> HIDE DEF bounded
    <2>5. ASSUME NEW f, f.type = Some(type)
          PROVE  \A o : IsSize(f, o)
      BY <2>5 DEF IsSize, IsType
    <2>6. IsElement(sized) /\ sized.type = Some(type)
      BY <2>4, <2>5, SetSizeRangeKeeps, SizeRangeLeavesType
    <2> HIDE DEF sized
    <2>7. IsElement(final)
      BY <2>5, <2>6, SetSizeRangeKeeps
    <2> HIDE DEF larger, final
    <2>8. type_and_range(e, type, min, max, inc_end) = add_modifier(final, "range", << min, max, inc_end >>, TRUE)
      BY <1>3 DEF type_and_range, final, sized, larger, bounded, lowered, typed
    <2>9. "range" \notin deferred_mod_processors
      BY DEF deferred_mod_processors, Inequalities
    <2> QED  BY <2>7, <2>8, <2>9, AddModifierKeeps
  <1> QED  BY <1>1, <1>2, <1>3

-----------------------------------------------------------------------------
(* Control operators. *)

LEMMA LiteralIsOperand ==
    ASSUME NEW n \in Int
    PROVE  Literal(n) \in Operand
  BY SomeIsOption, NoneIsOption DEF Literal, Operand, NumberType

LEMMA RangeIsOperand ==
    ASSUME NEW r \in Ranges
    PROVE  Range(r) \in Operand
  <1>1. Some(r) \in Opt(Int \X Int \X BOOLEAN)
    BY LiteralAssumption, SomeIsOption
  <1> QED  BY <1>1, NoneIsOption DEF Range, Operand

LEMMA VagueIsOperand == Vague \in Operand
  BY NoneIsOption DEF Vague, Operand

LEMMA SetSizeOpKeeps ==
    ASSUME NEW e, NEW operand \in Operand, IsElement(e)
    PROVE  IsElement(set_size_op(e, operand))
  <1>1. CASE IsSome(operand.value)
    <2>1. operand.value[1] \in Int
      BY <1>1, OptionIsOne DEF Operand, IsSome, None
    <2> QED  BY <1>1, <2>1, SetSizeKeeps, FailedKeeps DEF set_size_op
  <1>2. CASE ~IsSome(operand.value) /\ IsSome(operand.range)
    <2> DEFINE r == operand.range[1]
    <2>1. r \in Int \X Int \X BOOLEAN
      BY <1>2, OptionIsOne DEF Operand, IsSome, None
    <2>2. set_size_op(e, operand) = set_size_range(e, Some(r[1]), Some(r[2]), r[3])
      BY <1>2 DEF set_size_op
    <2> HIDE DEF r
    <2>3. IsSize(e, Some(r[1])) /\ IsSize(e, Some(r[2])) /\ r[3] \in BOOLEAN
      BY <2>1, SomeIsOption DEF IsSize
    <2> QED  BY <2>2, <2>3, SetSizeRangeKeeps
  <1>3. CASE ~IsSome(operand.value) /\ ~IsSome(operand.range)
    BY <1>3, FailedKeeps DEF set_size_op
  <1> QED  BY <1>1, <1>2, <1>3

LEMMA ModProcessorsKeep ==
    ASSUME NEW e, NEW m \in ops, NEW operand \in Operand, IsElement(e)
    PROVE  IsElement(mod_processors(e, m, operand))
  <1>1. CASE m \in Inequalities
    <2>1. CASE ~IneqIsValid(e, operand)
      BY <1>1, <2>1, FailedKeeps DEF mod_processors, Inequalities
    <2>2. CASE IneqIsValid(e, operand)
      <3>1. operand.value[1] \in Int
        BY <2>2, OptionIsOne DEF IneqIsValid, Operand, IsSome, None
      <3>2. mod_processors(e, m, operand) \in { set_min_value(e, operand.value[1], m = ".ge"),
                                               set_max_value(e, operand.value[1], m = ".le") }
        BY <1>1, <2>2 DEF mod_processors, Inequalities
      <3> QED  BY <3>1, <3>2, SetMinValueKeeps, SetMaxValueKeeps
    <2> QED  BY <2>1, <2>2
  <1>2. CASE m = ".size"
    BY <1>2, SetSizeOpKeeps DEF mod_processors, Inequalities
  <1>3. CASE m = ".eq"
    <2>1. operand.value \in Opt(Int)
      BY DEF Operand
    <2> QED  BY <1>3, <2>1, SetValueKeeps, FailedKeeps DEF mod_processors, Inequalities, set_eq
  <1>4. CASE m \in {".default", ".cbor", ".cborseq", ".bits"}
    <2>1. mod_processors(e, m, operand) \in { Failed(e), [e EXCEPT !.default = operand.value],
                                             [e EXCEPT !.cbor = Some(operand)], [e EXCEPT !.bits = Some(operand)] }
      BY <1>4 DEF mod_processors, Inequalities, set_default
    <2> QED  BY <2>1, FailedKeeps DEF IsElement, Attributes, Bounded, Noted
  <1> QED  BY <1>1, <1>2, <1>3, <1>4 DEF ops, deferred_mod_processors

\* No operator forgets what process_modifiers() has yet to apply.
LEMMA SizesLeaveModifiers ==
    ASSUME NEW e, NEW size, DOMAIN e = Attributes
    PROVE  /\ set_min_size(e, size).modifiers = e.modifiers
           /\ set_max_size(e, size).modifiers = e.modifiers
           /\ DOMAIN set_min_size(e, size) = Attributes
           /\ DOMAIN set_max_size(e, size) = Attributes
  BY DEF set_min_size, set_max_size, Failed, RaiseMinValue, Attributes

LEMMA ValuesLeaveModifiers ==
    ASSUME NEW e, NEW v, NEW inclusive, DOMAIN e = Attributes
    PROVE  /\ set_min_value(e, v, inclusive).modifiers = e.modifiers
           /\ set_max_value(e, v, inclusive).modifiers = e.modifiers
           /\ DOMAIN set_min_value(e, v, inclusive) = Attributes
           /\ DOMAIN set_max_value(e, v, inclusive) = Attributes
  BY SizesLeaveModifiers DEF set_min_value, set_max_value, Attributes

LEMMA ClosedBoundsLeaveModifiers ==
    ASSUME NEW e, NEW v, DOMAIN e = Attributes
    PROVE  /\ set_min_value(e, v, TRUE).modifiers = e.modifiers
           /\ set_max_value(e, v, TRUE).modifiers = e.modifiers
           /\ DOMAIN set_min_value(e, v, TRUE) = Attributes
           /\ DOMAIN set_max_value(e, v, TRUE) = Attributes
  BY ValuesLeaveModifiers, Zenon

LEMMA SizeRangeLeavesModifiers ==
    ASSUME NEW e, NEW min_size, NEW max_size_in, NEW inc_end, DOMAIN e = Attributes
    PROVE  set_size_range(e, min_size, max_size_in, inc_end).modifiers = e.modifiers
  BY SizesLeaveModifiers DEF set_size_range, Failed, Attributes

LEMMA SetSizeLeavesModifiers ==
    ASSUME NEW e, NEW size, DOMAIN e = Attributes
    PROVE  set_size(e, size).modifiers = e.modifiers
  <1>1. PICK half : set_size(e, size) \in
           { Failed(e), [e EXCEPT !.max_value = Some(Byte ^ size - 1)],
             [e EXCEPT !.max_value = Some(half - 1), !.min_value = Some(-half)],
             [e EXCEPT !.min_value = Some(-half)], set_size_range(e, Some(size), Some(size), TRUE) }
    BY DEF set_size
  <1>2. set_size_range(e, Some(size), Some(size), TRUE).modifiers = e.modifiers
    BY SizeRangeLeavesModifiers
  <1>3. /\ Failed(e).modifiers = e.modifiers
        /\ [e EXCEPT !.max_value = Some(Byte ^ size - 1)].modifiers = e.modifiers
        /\ [e EXCEPT !.max_value = Some(half - 1), !.min_value = Some(-half)].modifiers = e.modifiers
        /\ [e EXCEPT !.min_value = Some(-half)].modifiers = e.modifiers
    BY DEF Failed, Attributes
  <1> QED  BY <1>1, <1>2, <1>3, Zenon

LEMMA SetValueAddsModifiers ==
    ASSUME NEW e, NEW v, DOMAIN e = Attributes
    PROVE  DOMAIN e.modifiers \subseteq DOMAIN set_value(e, v).modifiers
  <1> DEFINE noted  == IF IsSome(v) THEN add_modifier(e, "value", v, TRUE) ELSE e
             valued == [noted EXCEPT !.value = v]
             lower  == IF IsSome(v) /\ IsType(e, {"UINT", "NINT"})
                         THEN set_max_value(set_min_value(valued, v[1], TRUE), v[1], TRUE) ELSE valued
             below  == [lower EXCEPT !.max_value = Some(-1)]
  <1>1. DOMAIN noted = Attributes /\ DOMAIN e.modifiers \subseteq DOMAIN noted.modifiers
    BY DEF add_modifier, Failed, Attributes
  <1> HIDE DEF noted
  <1>2. DOMAIN valued = Attributes /\ DOMAIN e.modifiers \subseteq DOMAIN valued.modifiers
    BY <1>1 DEF Attributes
  <1> HIDE DEF valued
  <1>3. DOMAIN lower = Attributes /\ DOMAIN e.modifiers \subseteq DOMAIN lower.modifiers
    <2> DEFINE raised == set_min_value(valued, v[1], TRUE)
    <2>1. DOMAIN raised = Attributes /\ raised.modifiers = valued.modifiers
      BY <1>2, ClosedBoundsLeaveModifiers
    <2> HIDE DEF raised
    <2>2. /\ DOMAIN set_max_value(raised, v[1], TRUE) = Attributes
          /\ set_max_value(raised, v[1], TRUE).modifiers = valued.modifiers
      BY <2>1, ClosedBoundsLeaveModifiers
    <2>3. lower \in {valued, set_max_value(raised, v[1], TRUE)}
      BY DEF raised
    <2> HIDE DEF lower
    <2> QED  BY <1>2, <2>2, <2>3
  <1> HIDE DEF lower
  <1>4. DOMAIN e.modifiers \subseteq DOMAIN below.modifiers
    BY <1>3 DEF Attributes
  <1>5. DOMAIN e.modifiers \subseteq DOMAIN Failed(e).modifiers
    BY DEF Failed, Attributes
  <1>6. set_value(e, v) \in {Failed(e), below, lower}
    BY DEF set_value, lower, valued, noted
  <1> HIDE DEF below
  <1> QED  BY <1>3, <1>4, <1>5, <1>6

LEMMA ModProcessorsAddModifiers ==
    ASSUME NEW e, NEW m \in ops, NEW operand, IsElement(e)
    PROVE  DOMAIN e.modifiers \subseteq DOMAIN mod_processors(e, m, operand).modifiers
  <1> DEFINE f == mod_processors(e, m, operand)
  <1>0. DOMAIN e = Attributes
    BY DEF IsElement
  <1>1. CASE m \in Inequalities
    <2>1. f \in { Failed(e), set_min_value(e, operand.value[1], m = ".ge"),
                 set_max_value(e, operand.value[1], m = ".le") }
      BY <1>1 DEF mod_processors, Inequalities
    <2> QED  BY <1>0, <2>1, ValuesLeaveModifiers DEF Failed, Attributes
  <1>2. CASE m = ".size"
    <2>1. f \in { Failed(e), set_size(e, operand.value[1]),
                 set_size_range(e, Some(operand.range[1][1]), Some(operand.range[1][2]), operand.range[1][3]) }
      BY <1>2 DEF mod_processors, Inequalities, set_size_op
    <2> QED  BY <1>0, <2>1, SetSizeLeavesModifiers, SizeRangeLeavesModifiers DEF Failed, Attributes
  <1>3. CASE m = ".eq"
    <2>1. f \in {Failed(e), set_value(e, operand.value)}
      BY <1>3 DEF mod_processors, Inequalities, set_eq
    <2> QED  BY <1>0, <2>1, SetValueAddsModifiers DEF Failed, Attributes
  <1>4. CASE m \in {".default", ".cbor", ".cborseq", ".bits"}
    <2>1. f \in { Failed(e), [e EXCEPT !.default = operand.value],
                 [e EXCEPT !.cbor = Some(operand)], [e EXCEPT !.bits = Some(operand)] }
      BY <1>4 DEF mod_processors, Inequalities, set_default
    <2> QED  BY <1>0, <2>1 DEF Failed, Attributes
  <1> QED  BY <1>1, <1>2, <1>3, <1>4 DEF ops, deferred_mod_processors

-----------------------------------------------------------------------------
(* The tokens. *)

LEMMA InitSound == Init => IInv
  <1> SUFFICES ASSUME Init PROVE IInv
    OBVIOUS
  <1>1. DOMAIN NewElement = Attributes
    BY DEF NewElement, Attributes
  <1>2. /\ NewElement.type = None /\ NewElement.value = None
        /\ NewElement.min_value = None /\ NewElement.max_value = None
        /\ NewElement.min_size = None /\ NewElement.max_size = None
        /\ NewElement.min_value_inclusive = TRUE /\ NewElement.max_value_inclusive = TRUE
        /\ NewElement.modifiers = NoModifiers
    BY DEF NewElement
  <1>3. DOMAIN NoModifiers = {}
    BY DEF NoModifiers
  <1> QED  BY <1>1, <1>2, <1>3, NoneIsOption DEF Init, IInv, IsElement, Bounded, Noted

LEMMA ReadSound ==
    ASSUME IInv, NEW e, IsElement(e), Read(e)
    PROVE  IInv'
  <1>1. /\ self' = e /\ todo' = {}
        /\ phase' \in {"failed", "parse"}
    BY DEF Read, IInv
  <1>2. IsElement(self)'
    BY <1>1 DEF IsElement, Bounded, Noted
  <1> QED  BY <1>1, <1>2 DEF IInv

LEMMA TokenSound ==
    ASSUME IInv, SetQuantifier \/ SetLabel \/ SetKey \/ AddTag
    PROVE  IInv'
  <1> USE DEF IInv
  <1>0. {"quantifier", "key", "tag"} \cap deferred_mod_processors = {}
    BY DEF deferred_mod_processors, Inequalities
  <1>1. CASE SetQuantifier
    <2>1. PICK q \in {<< 0, 1 >>, << 1, Many >>} :
             Read(add_modifier([self EXCEPT !.min_qty = q[1], !.max_qty = q[2]], "quantifier", None, TRUE))
      BY <1>1 DEF SetQuantifier
    <2> DEFINE e == [self EXCEPT !.min_qty = q[1], !.max_qty = q[2]]
    <2>2. IsElement(e)
      BY DEF IsElement, Attributes, Bounded, Noted
    <2> HIDE DEF e
    <2>3. Read(add_modifier(e, "quantifier", None, TRUE))
      BY <2>1 DEF e
    <2> QED  BY <1>0, <2>2, <2>3, AddModifierKeeps, ReadSound
  <1>2. CASE SetLabel
    <2> DEFINE e == [self EXCEPT !.label = TRUE]
    <2>1. IsElement(e)
      BY DEF IsElement, Attributes, Bounded, Noted
    <2>2. Read(e)
      BY <1>2 DEF SetLabel
    <2> QED  BY <2>1, <2>2, ReadSound
  <1>3. CASE SetKey
    <2>1. PICK type \in {"UINT", "GROUP"} :
             Read(IF IsSome(self.key) \/ type = "GROUP" THEN Failed(self)
                  ELSE add_modifier([self EXCEPT !.key = Some(type)], "key", None, TRUE))
      BY <1>3 DEF SetKey
    <2> DEFINE e == [self EXCEPT !.key = Some(type)]
    <2>2. IsElement(e)
      BY DEF IsElement, Attributes, Bounded, Noted
    <2> HIDE DEF e
    <2>3. Read(Failed(self)) \/ Read(add_modifier(e, "key", None, TRUE))
      BY <2>1 DEF e
    <2> QED  BY <1>0, <2>2, <2>3, AddModifierKeeps, FailedKeeps, ReadSound
  <1>4. CASE AddTag
    <2> DEFINE e == add_modifier(self, "tag", None, FALSE)
               f == [e EXCEPT !.tags = Append(@, 1)]
    <2>1. IsElement(e)
      BY <1>0, AddModifierKeeps
    <2> HIDE DEF e
    <2>2. IsElement(f)
      BY <2>1 DEF IsElement, Attributes, Bounded, Noted
    <2>3. Read(f)
      BY <1>4 DEF AddTag, e
    <2> QED  BY <2>2, <2>3, ReadSound
  <1> QED  BY <1>1, <1>2, <1>3, <1>4

LEMMA NumberTypeIsType ==
    ASSUME NEW n
    PROVE  NumberType(n) \in IntTypes /\ NumberType(n) \in ElementTypes
  BY DEF NumberType, IntTypes, NumberTypes, ElementTypes

LEMMA TypeTokenSound ==
    ASSUME IInv, TypeName \/ FloatWithSize \/ LiteralNumber \/ SetNumRange
    PROVE  IInv'
  <1> USE DEF IInv
  <1>1. CASE TypeName
    <2>1. PICK type \in {"UINT", "NINT", "INT", "FLOAT", "BSTR", "BOOL", "NIL"} :
             Read(type_and_value(self, type, None))
      BY <1>1 DEF TypeName
    <2>2. type \in ElementTypes
      BY DEF ElementTypes, NumberTypes, IntTypes, StringTypes, PlainTypes
    <2> QED  BY <2>1, <2>2, NoneIsOption, TypeAndValueKeeps, ReadSound
  <1>2. CASE FloatWithSize
    <2> DEFINE typed == type_and_value(self, "FLOAT", None)
    <2>1. PICK s \in {<< 2, 2 >>, << 4, 8 >>} :
             Read(IF s[1] = s[2] THEN set_size(typed, s[1])
                  ELSE set_size_range(typed, Some(s[1]), Some(s[2]), TRUE))
      BY <1>2 DEF FloatWithSize
    <2>2. IsElement(typed)
      BY NoneIsOption, TypeAndValueKeeps DEF ElementTypes, NumberTypes
    <2> HIDE DEF typed
    <2>3. s[1] \in Int /\ s[2] \in Int
      OBVIOUS
    <2>4. IsSize(typed, Some(s[1])) /\ IsSize(typed, Some(s[2]))
      BY <2>3, SomeIsOption DEF IsSize
    <2>5. Read(set_size(typed, s[1])) \/ Read(set_size_range(typed, Some(s[1]), Some(s[2]), TRUE))
      BY <2>1
    <2> QED  BY <2>2, <2>3, <2>4, <2>5, SetSizeKeeps, SetSizeRangeKeeps, ReadSound
  <1>3. CASE LiteralNumber
    <2>1. PICK n \in Literals : Read(type_and_value(self, NumberType(n), Some(n)))
      BY <1>3 DEF LiteralNumber
    <2>2. Some(n) \in Opt(Int)
      BY LiteralAssumption, SomeIsOption
    <2> QED  BY <2>1, <2>2, NumberTypeIsType, TypeAndValueKeeps, ReadSound
  <1>4. CASE SetNumRange
    <2>1. PICK r \in Ranges :
             Read(type_and_range(self, IF NumberType(r[1]) = NumberType(r[2]) THEN NumberType(r[1]) ELSE "INT",
                                 r[1], r[2], r[3]))
      BY <1>4 DEF SetNumRange
    <2> DEFINE type == IF NumberType(r[1]) = NumberType(r[2]) THEN NumberType(r[1]) ELSE "INT"
    <2>2. type \in IntTypes
      BY NumberTypeIsType DEF IntTypes
    <2>3. r[1] \in Int /\ r[2] \in Int /\ r[3] \in BOOLEAN
      BY LiteralAssumption
    <2>4. Read(type_and_range(self, type, r[1], r[2], r[3]))
      BY <2>1
    <2> HIDE DEF type
    <2> QED  BY <2>2, <2>3, <2>4, TypeAndRangeKeeps, ReadSound
  <1> QED  BY <1>1, <1>2, <1>3, <1>4

LEMMA OperandsAreOperands ==
    ASSUME NEW m, NEW operand \in Operands(m)
    PROVE  operand \in Operand
  <1>1. \/ \E n \in Literals : operand = Literal(n)
        \/ \E r \in Ranges : operand = Range(r)
        \/ operand = Vague
    BY DEF Operands
  <1> QED  BY <1>1, LiteralAssumption, LiteralIsOperand, RangeIsOperand, VagueIsOperand

LEMMA AddControlOpSound ==
    ASSUME IInv, AddControlOp
    PROVE  IInv'
  <1>0. PICK m \in ops : \E operand \in Operands(m) : \E noted \in {add_modifier(self, m, operand, TRUE)} :
           \/ Read(Failed(self)) \/ Read(noted) \/ Read(mod_processors(noted, m, operand))
    BY DEF AddControlOp
  <1>1. PICK operand \in Operands(m) : \E noted \in {add_modifier(self, m, operand, TRUE)} :
           \/ Read(Failed(self)) \/ Read(noted) \/ Read(mod_processors(noted, m, operand))
    BY <1>0
  <1>2. operand \in Operand
    BY OperandsAreOperands
  <1> DEFINE noted == add_modifier(self, m, operand, TRUE)
  <1>3. IsElement(noted)
    BY <1>2, AddModifierKeeps DEF IInv
  <1>4. \/ Read(Failed(self)) \/ Read(noted) \/ Read(mod_processors(noted, m, operand))
    BY <1>1
  <1> HIDE DEF noted
  <1> QED  BY <1>2, <1>3, <1>4, FailedKeeps, ModProcessorsKeep, ReadSound DEF IInv

LEMMA ProcessModifierSound ==
    ASSUME IInv, NEW m \in deferred_mod_processors, ProcessModifier(m)
    PROVE  IInv'
  <1> DEFINE f == mod_processors(self, m, self.modifiers[m])
  <1>1. self.modifiers[m] \in Operand /\ m \in ops
    BY DEF IInv, IsElement, Noted, ProcessModifier, ops
  <1>2. IsElement(f) /\ DOMAIN self.modifiers \subseteq DOMAIN f.modifiers
    BY <1>1, ModProcessorsKeep, ModProcessorsAddModifiers DEF IInv
  <1>3. /\ self' = f /\ todo' \subseteq todo
        /\ phase' \in {"failed", "process"}
    BY DEF ProcessModifier
  <1> HIDE DEF f
  <1>4. IsElement(self)'
    BY <1>2, <1>3 DEF IsElement, Bounded, Noted
  <1> QED  BY <1>2, <1>3, <1>4 DEF IInv

LEMMA NextSound == IInv /\ [Next]_vars => IInv'
  <1> SUFFICES ASSUME IInv, [Next]_vars PROVE IInv'
    OBVIOUS
  <1>1. ASSUME UNCHANGED self, todo' \subseteq deferred_mod_processors \cap DOMAIN self.modifiers,
               phase' \in {"parse", "process", "done", "failed"}, phase' = "parse" => todo' = {}
        PROVE  IInv'
    BY <1>1 DEF IInv, IsElement, Bounded, Noted
  <1>2. CASE EndOfText
    BY <1>1, <1>2 DEF EndOfText
  <1>3. CASE PostValidate
    BY <1>1, <1>3 DEF PostValidate, IInv
  <1>4. CASE UNCHANGED vars
    BY <1>1, <1>4 DEF vars, IInv
  <1>5. CASE SetQuantifier \/ SetLabel \/ SetKey \/ AddTag
    BY <1>5, TokenSound
  <1>6. CASE TypeName \/ FloatWithSize \/ LiteralNumber \/ SetNumRange
    BY <1>6, TypeTokenSound
  <1>7. CASE AddControlOp
    BY <1>7, AddControlOpSound
  <1>8. CASE \E m \in deferred_mod_processors : ProcessModifier(m)
    BY <1>8, ProcessModifierSound
  <1> QED  BY <1>2, <1>3, <1>4, <1>5, <1>6, <1>7, <1>8 DEF Next

LEMMA AlwaysSound == Spec => []IInv
  BY InitSound, NextSound, PTL DEF Spec

-----------------------------------------------------------------------------
(* The theorems. *)

\* TypeOK: the attributes of an element hold what the rest of zcbor.py reads
\* them as, whatever the tokens and the order of its control operators.
THEOREM ElementTypeCorrect == Spec => []TypeOK
  <1>1. IInv => TypeOK
    BY OptionIsOne DEF IInv, TypeOK, IsElement, Bounded
  <1> QED  BY <1>1, AlwaysSound, PTL

-----------------------------------------------------------------------------
(* Inequalities. *)

LEMMA WindowIsInt == Window \subseteq Int
  <1>1. Byte ^ MaxSize \in Nat
    BY PowerAssumption, SizeAssumption
  <1> QED  BY <1>1 DEF Window

\* A lower bound may be raised, and bounds may come where there were none.
Tightens(e, f) == \A n \in Int : Accepts(f, n) => Accepts(e, n)

LEMMA RaiseMinValueTightens ==
    ASSUME NEW e, NEW v \in Int, IsElement(e)
    PROVE  Tightens(e, RaiseMinValue(e, v))
  <1>1. CASE IsSome(e.min_value) /\ e.min_value[1] >= v
    BY <1>1 DEF RaiseMinValue, Tightens
  <1>2. CASE ~(IsSome(e.min_value) /\ e.min_value[1] >= v)
    <2> DEFINE f == [e EXCEPT !.min_value = Some(v), !.min_value_inclusive = TRUE]
    <2>1. /\ f.value = e.value /\ f.max_value = e.max_value
          /\ f.max_value_inclusive = e.max_value_inclusive
          /\ f.min_value = Some(v) /\ f.min_value_inclusive = TRUE
      BY DEF IsElement, Attributes
    <2>2. IsSome(f.min_value) /\ f.min_value[1] = v
      BY <2>1, SomeIsOption DEF IsSome, None
    <2>3. IsSome(e.min_value) => e.min_value[1] \in Int
      BY OptionIsOne DEF IsElement, Bounded, IsSome, None
    <2>4. RaiseMinValue(e, v) = f
      BY <1>2 DEF RaiseMinValue
    <2> HIDE DEF f
    <2> QED  BY <1>2, <2>1, <2>2, <2>3, <2>4 DEF Tightens, Accepts
  <1> QED  BY <1>1, <1>2

LEMMA SetMinSizeTightens ==
    ASSUME NEW e, NEW size, IsElement(e), ~set_min_size(e, size).error
    PROVE  Tightens(e, set_min_size(e, size))
  <1>0. SizeIsValid(e, size)
    BY FailedKeeps DEF set_min_size
  <1>1. CASE IsSome(e.min_size) /\ e.min_size[1] >= size
    BY <1>0, <1>1 DEF set_min_size, Tightens
  <1>2. CASE ~(IsSome(e.min_size) /\ e.min_size[1] >= size)
    <2> DEFINE raised == IF e.type = Some("UINT") THEN RaiseMinValue(e, Least(size)) ELSE e
    <2>1. Tightens(e, raised) /\ IsElement(raised)
      <3>1. CASE e.type = Some("UINT")
        <4>1. size \in 0 .. MaxSize
          BY <1>0, <3>1 DEF SizeIsValid, IsType, IntTypes
        <4> QED  BY <3>1, <4>1, LeastIsNat, RaiseMinValueTightens, RaiseMinValueKeeps
      <3>2. CASE e.type # Some("UINT")
        BY <3>2 DEF Tightens
      <3> QED  BY <3>1, <3>2
    <2>2. set_min_size(e, size) = [raised EXCEPT !.min_size = Some(size)]
      BY <1>0, <1>2 DEF set_min_size, Least
    <2> HIDE DEF raised
    <2> DEFINE f == [raised EXCEPT !.min_size = Some(size)]
    <2>3. /\ f.value = raised.value
          /\ f.min_value = raised.min_value /\ f.min_value_inclusive = raised.min_value_inclusive
          /\ f.max_value = raised.max_value /\ f.max_value_inclusive = raised.max_value_inclusive
      BY <2>1 DEF IsElement, Attributes
    <2> HIDE DEF f
    <2>4. Tightens(raised, f)
      BY <2>3 DEF Tightens, Accepts
    <2>5. set_min_size(e, size) = f
      BY <2>2 DEF f
    <2> QED  BY <2>1, <2>4, <2>5 DEF Tightens
  <1> QED  BY <1>1, <1>2

LEMMA SetMinValueTightens ==
    ASSUME NEW e, NEW v \in Int, NEW inclusive \in BOOLEAN, IsElement(e),
           ~set_min_value(e, v, inclusive).error
    PROVE  Tightens(e, set_min_value(e, v, inclusive))
  <1>1. CASE IsSome(e.min_value) /\ e.min_value[1] >= v
    BY <1>1 DEF set_min_value, Tightens
  <1>2. CASE ~(IsSome(e.min_value) /\ e.min_value[1] >= v)
    <2> DEFINE f == [e EXCEPT !.min_value = Some(v), !.min_value_inclusive = inclusive]
    <2>0. Some(v) \in Opt(Int)
      BY SomeIsOption
    <2>1. /\ f.value = e.value /\ f.max_value = e.max_value
          /\ f.max_value_inclusive = e.max_value_inclusive
          /\ f.min_value = Some(v) /\ f.min_value_inclusive = inclusive
      BY DEF IsElement, Attributes
    <2>2. IsSome(f.min_value) /\ f.min_value[1] = v
      BY <2>1, SomeIsOption DEF IsSome, None
    <2>3. IsSome(e.min_value) => e.min_value[1] \in Int
      BY OptionIsOne DEF IsElement, Bounded, IsSome, None
    <2>4. IsElement(f)
      BY <2>0 DEF IsElement, Attributes, Bounded, Noted
    <2>5. set_min_value(e, v, inclusive) \in {f, set_min_size(f, ByteLength(v))}
      BY <1>2 DEF set_min_value
    <2> HIDE DEF f
    <2>6. Tightens(e, f)
      BY <1>2, <2>1, <2>2, <2>3 DEF Tightens, Accepts
    <2>7. CASE set_min_value(e, v, inclusive) = set_min_size(f, ByteLength(v))
      BY <2>4, <2>6, <2>7, SetMinSizeTightens DEF Tightens
    <2> QED  BY <2>5, <2>6, <2>7
  <1> QED  BY <1>1, <1>2

\* A size caps only an element that has no largest value.
LEMMA SetMaxSizeTightens ==
    ASSUME NEW e, NEW size, IsElement(e), IsSome(e.max_value), ~set_max_size(e, size).error
    PROVE  Tightens(e, set_max_size(e, size))
  <1> DEFINE f == [e EXCEPT !.max_size = Some(size)]
  <1>1. set_max_size(e, size) \in {e, f}
    BY FailedKeeps DEF set_max_size, IsSome, None
  <1>2. /\ f.value = e.value
        /\ f.min_value = e.min_value /\ f.min_value_inclusive = e.min_value_inclusive
        /\ f.max_value = e.max_value /\ f.max_value_inclusive = e.max_value_inclusive
    BY DEF IsElement, Attributes
  <1> HIDE DEF f
  <1> QED  BY <1>1, <1>2 DEF Tightens, Accepts

LEMMA SetMaxValueTightens ==
    ASSUME NEW e, NEW v \in Int, NEW inclusive \in BOOLEAN, IsElement(e),
           ~set_max_value(e, v, inclusive).error
    PROVE  Tightens(e, set_max_value(e, v, inclusive))
  <1>1. CASE IsSome(e.max_value) /\ e.max_value[1] <= v
    BY <1>1 DEF set_max_value, Tightens
  <1>2. CASE ~(IsSome(e.max_value) /\ e.max_value[1] <= v)
    <2> DEFINE f == [e EXCEPT !.max_value = Some(v), !.max_value_inclusive = inclusive]
    <2>0. Some(v) \in Opt(Int)
      BY SomeIsOption
    <2>1. /\ f.value = e.value /\ f.min_value = e.min_value
          /\ f.min_value_inclusive = e.min_value_inclusive
          /\ f.max_value = Some(v) /\ f.max_value_inclusive = inclusive
      BY DEF IsElement, Attributes
    <2>2. IsSome(f.max_value) /\ f.max_value[1] = v
      BY <2>1, SomeIsOption DEF IsSome, None
    <2>3. IsSome(e.max_value) => e.max_value[1] \in Int
      BY OptionIsOne DEF IsElement, Bounded, IsSome, None
    <2>4. IsElement(f)
      BY <2>0 DEF IsElement, Attributes, Bounded, Noted
    <2>5. set_max_value(e, v, inclusive) \in {f, set_max_size(f, ByteLength(v))}
      BY <1>2 DEF set_max_value
    <2> HIDE DEF f
    <2>6. Tightens(e, f)
      BY <1>2, <2>1, <2>2, <2>3 DEF Tightens, Accepts
    <2>7. CASE set_max_value(e, v, inclusive) = set_max_size(f, ByteLength(v))
      BY <2>2, <2>4, <2>6, <2>7, SetMaxSizeTightens DEF Tightens
    <2> QED  BY <2>5, <2>6, <2>7
  <1> QED  BY <1>1, <1>2

LEMMA InequalityTightens ==
    ASSUME IInv, NEW m \in Inequalities, ProcessModifier(m), ~self'.error
    PROVE  Tightens(self, self')
  <1> DEFINE operand == self.modifiers[m]
  <1>1. operand \in Operand
    BY DEF IInv, IsElement, Noted, ProcessModifier, deferred_mod_processors
  <1>2. self' = mod_processors(self, m, operand) /\ IsElement(self)
    BY DEF ProcessModifier, IInv
  <1> HIDE DEF operand
  <1>3. /\ IneqIsValid(self, operand)
        /\ self' \in { set_min_value(self, operand.value[1], m = ".ge"),
                      set_max_value(self, operand.value[1], m = ".le") }
    BY <1>2, FailedKeeps DEF mod_processors, Inequalities
  <1>4. operand.value[1] \in Int
    BY <1>1, <1>3, OptionIsOne DEF IneqIsValid, Operand, IsSome, None
  <1> QED  BY <1>2, <1>3, <1>4, SetMinValueTightens, SetMaxValueTightens

\* OnlyTightens: no inequality that process_modifiers() applies gives back an
\* integer that an earlier bound of the element took away, whatever bound it
\* was and wherever it came from.
THEOREM InequalitiesOnlyTighten == Spec => OnlyTightens
  <1>1. IInv => [\A m \in Inequalities : ProcessModifier(m) /\ ~self'.error =>
                   \A n \in Window : Accepts(self', n) => Accepts(self, n)]_vars
    BY InequalityTightens, WindowIsInt DEF Tightens
  <1> QED  BY <1>1, AlwaysSound, PTL DEF OnlyTightens

-----------------------------------------------------------------------------
(* What every method leaves alone.                                         *)

Recorded(e) == e = [a \in Attributes |-> e[a]]

Controls(e) == DOMAIN e.modifiers \cap ops

SameControls(e, f) ==
    /\ Controls(f) = Controls(e)
    /\ \A m \in Controls(e) : f.modifiers[m] = e.modifiers[m]

SameKind(e, f) == f.type = e.type /\ f.min_qty = e.min_qty /\ f.max_qty = e.max_qty

\* f is what a token or an operator makes of e: an error stays one, and no
\* control operator that is noted is forgotten, replaced or added.
Kept(e, f) ==
    /\ Recorded(e) => Recorded(f)
    /\ f.error \in {e.error, TRUE}
    /\ SameControls(e, f)

\* What an operator makes of it has the type and the quantity that it had.
Worked(e, f) == Kept(e, f) /\ SameKind(e, f)

LEMMA KeptOn ==
    ASSUME NEW e, NEW f, NEW g, Kept(e, f), Kept(f, g)
    PROVE  Kept(e, g)
  BY DEF Kept, SameControls

LEMMA WorkedOn ==
    ASSUME NEW e, NEW f, NEW g, Worked(e, f), Worked(f, g)
    PROVE  Worked(e, g)
  BY KeptOn DEF Worked, SameKind

LEMMA IdleWorked ==
    ASSUME NEW e
    PROVE  Worked(e, e)
  BY DEF Worked, Kept, SameControls, SameKind

LEMMA FailedWorked ==
    ASSUME NEW e, DOMAIN e = Attributes
    PROVE  Worked(e, Failed(e))
  BY DEF Worked, Kept, SameKind, SameControls, Controls, Recorded, Failed, Attributes

LEMMA FieldKept ==
    ASSUME NEW e, DOMAIN e = Attributes, NEW a \in Attributes \ {"error", "modifiers"}, NEW x
    PROVE  /\ Kept(e, [e EXCEPT ![a] = x])
           /\ DOMAIN [e EXCEPT ![a] = x] = Attributes
  BY DEF Kept, SameControls, Controls, Recorded, Attributes

LEMMA FieldWorked ==
    ASSUME NEW e, DOMAIN e = Attributes, NEW x,
           NEW a \in Attributes \ {"error", "modifiers", "type", "min_qty", "max_qty"}
    PROVE  /\ Worked(e, [e EXCEPT ![a] = x])
           /\ DOMAIN [e EXCEPT ![a] = x] = Attributes
  BY DEF Worked, Kept, SameKind, SameControls, Controls, Recorded, Attributes

LEMMA AddModifierWorked ==
    ASSUME NEW e, DOMAIN e = Attributes, NEW m, m \notin ops, NEW operand, NEW once
    PROVE  Worked(e, add_modifier(e, m, operand, once))
  <1> DEFINE more == [x \in DOMAIN e.modifiers \cup {m} |-> IF x = m THEN operand ELSE e.modifiers[x]]
  <1>1. add_modifier(e, m, operand, once) \in {Failed(e), [e EXCEPT !.modifiers = more]}
    BY DEF add_modifier
  <1>2. DOMAIN more \cap ops = Controls(e) /\ \A x \in Controls(e) : more[x] = e.modifiers[x]
    BY DEF Controls
  <1> HIDE DEF more
  <1>3. Worked(e, [e EXCEPT !.modifiers = more])
    BY <1>2 DEF Worked, Kept, SameKind, SameControls, Controls, Recorded, Attributes
  <1> QED  BY <1>1, <1>3, FailedWorked

LEMMA SizesWorked ==
    ASSUME NEW e, NEW size, DOMAIN e = Attributes
    PROVE  Worked(e, set_min_size(e, size)) /\ Worked(e, set_max_size(e, size))
  <1> DEFINE v == IF size <= 1 THEN 0 ELSE Byte ^ (size - 1)
             raised == RaiseMinValue(e, v)
             capped == IF e.type = Some("UINT") /\ size # 0 /\ e.max_value = None
                         THEN [e EXCEPT !.max_value = Some(Byte ^ size - 1), !.max_value_inclusive = TRUE]
                         ELSE e
  <1>1. /\ set_min_size(e, size) \in {e, Failed(e), [e EXCEPT !.min_size = Some(size)], [raised EXCEPT !.min_size = Some(size)]}
        /\ set_max_size(e, size) \in {e, Failed(e), [capped EXCEPT !.max_size = Some(size)]}
    BY DEF set_min_size, set_max_size
  <1>2. Worked(e, raised) /\ DOMAIN raised = Attributes
    BY IdleWorked DEF RaiseMinValue, Worked, Kept, SameKind, SameControls, Controls, Recorded, Attributes
  <1>3. Worked(e, capped) /\ DOMAIN capped = Attributes
    BY IdleWorked DEF Worked, Kept, SameKind, SameControls, Controls, Recorded, Attributes
  <1> HIDE DEF raised, capped
  <1>4. Worked(raised, [raised EXCEPT !.min_size = Some(size)])
    BY <1>2, FieldWorked DEF Attributes
  <1>5. Worked(capped, [capped EXCEPT !.max_size = Some(size)])
    BY <1>3, FieldWorked DEF Attributes
  <1>6. Worked(e, [e EXCEPT !.min_size = Some(size)])
    BY FieldWorked DEF Attributes
  <1>7. Worked(e, [raised EXCEPT !.min_size = Some(size)]) /\ Worked(e, [capped EXCEPT !.max_size = Some(size)])
    BY <1>2, <1>3, <1>4, <1>5, WorkedOn
  <1> QED  BY <1>1, <1>6, <1>7, FailedWorked, IdleWorked

LEMMA ValuesWorked ==
    ASSUME NEW e, NEW v, NEW inclusive, DOMAIN e = Attributes
    PROVE  Worked(e, set_min_value(e, v, inclusive)) /\ Worked(e, set_max_value(e, v, inclusive))
  <1> DEFINE low  == [e EXCEPT !.min_value = Some(v), !.min_value_inclusive = inclusive]
             high == [e EXCEPT !.max_value = Some(v), !.max_value_inclusive = inclusive]
  <1>1. Worked(e, low) /\ DOMAIN low = Attributes /\ Worked(e, high) /\ DOMAIN high = Attributes
    BY DEF Worked, Kept, SameKind, SameControls, Controls, Recorded, Attributes
  <1>2. /\ set_min_value(e, v, inclusive) \in {e, low, set_min_size(low, ByteLength(v))}
        /\ set_max_value(e, v, inclusive) \in {e, high, set_max_size(high, ByteLength(v))}
    BY DEF set_min_value, set_max_value
  <1> HIDE DEF low, high
  <1>3. Worked(e, set_min_size(low, ByteLength(v))) /\ Worked(e, set_max_size(high, ByteLength(v)))
    BY <1>1, SizesWorked, WorkedOn
  <1> QED  BY <1>1, <1>2, <1>3, IdleWorked

LEMMA ClosedBoundsWorked ==
    ASSUME NEW e, NEW v, DOMAIN e = Attributes
    PROVE  Worked(e, set_min_value(e, v, TRUE)) /\ Worked(e, set_max_value(e, v, TRUE))
  BY ValuesWorked, Zenon

LEMMA SizeRangeWorked ==
    ASSUME NEW e, NEW min_size, NEW max_size_in, NEW inc_end, DOMAIN e = Attributes
    PROVE  Worked(e, set_size_range(e, min_size, max_size_in, inc_end))
  <1> DEFINE max_size == IF IsSome(max_size_in) /\ ~inc_end THEN Some(max_size_in[1] - 1) ELSE max_size_in
             low  == IF IsSome(min_size) THEN set_min_size(e, min_size[1]) ELSE e
             high == IF IsSome(max_size) THEN set_max_size(low, max_size[1]) ELSE low
  <1>1. Worked(e, low) /\ DOMAIN low = Attributes
    BY SizesWorked, SizesLeaveModifiers, IdleWorked
  <1>2. set_size_range(e, min_size, max_size_in, inc_end) \in {Failed(e), high}
    BY DEF set_size_range
  <1> HIDE DEF low, max_size
  <1>3. Worked(low, high)
    BY <1>1, SizesWorked, IdleWorked
  <1> HIDE DEF high
  <1> QED  BY <1>1, <1>2, <1>3, WorkedOn, FailedWorked

LEMMA SetSizeWorked ==
    ASSUME NEW e, NEW size, DOMAIN e = Attributes
    PROVE  Worked(e, set_size(e, size))
  <1>1. PICK half : set_size(e, size) \in
           { Failed(e), [e EXCEPT !.max_value = Some(Byte ^ size - 1)],
             [e EXCEPT !.max_value = Some(half - 1), !.min_value = Some(-half)],
             [e EXCEPT !.min_value = Some(-half)], set_size_range(e, Some(size), Some(size), TRUE) }
    BY DEF set_size
  <1>2. Worked(e, set_size_range(e, Some(size), Some(size), TRUE)) /\ Worked(e, Failed(e))
    BY SizeRangeWorked, FailedWorked
  <1>3. /\ Worked(e, [e EXCEPT !.max_value = Some(Byte ^ size - 1)])
        /\ Worked(e, [e EXCEPT !.max_value = Some(half - 1), !.min_value = Some(-half)])
        /\ Worked(e, [e EXCEPT !.min_value = Some(-half)])
    BY DEF Worked, Kept, SameKind, SameControls, Controls, Recorded, Attributes
  <1> QED  BY <1>1, <1>2, <1>3, Zenon

LEMMA SetValueWorked ==
    ASSUME NEW e, NEW v, DOMAIN e = Attributes
    PROVE  Worked(e, set_value(e, v))
  <1> DEFINE noted  == IF IsSome(v) THEN add_modifier(e, "value", v, TRUE) ELSE e
             valued == [noted EXCEPT !.value = v]
             raised == set_min_value(valued, v[1], TRUE)
             closed == set_max_value(raised, v[1], TRUE)
             lower  == IF IsSome(v) /\ IsType(e, {"UINT", "NINT"}) THEN closed ELSE valued
             below  == [lower EXCEPT !.max_value = Some(-1)]
  <1>1. Worked(e, noted) /\ DOMAIN noted = Attributes
    <2>1. "value" \notin ops
      BY DEF ops, deferred_mod_processors, Inequalities
    <2>2. DOMAIN noted = Attributes
      BY DEF add_modifier, Failed, Attributes
    <2> QED  BY <2>1, <2>2, AddModifierWorked, IdleWorked
  <1>7. set_value(e, v) \in {Failed(e), below, lower}
    BY DEF set_value
  <1> HIDE DEF noted
  <1>2. Worked(noted, valued) /\ DOMAIN valued = Attributes
    BY <1>1, FieldWorked DEF Attributes
  <1> HIDE DEF valued
  <1>3. Worked(valued, raised) /\ DOMAIN raised = Attributes
    BY <1>2, ClosedBoundsWorked, ClosedBoundsLeaveModifiers
  <1> HIDE DEF raised
  <1>4. Worked(raised, closed) /\ DOMAIN closed = Attributes
    BY <1>3, ClosedBoundsWorked, ClosedBoundsLeaveModifiers
  <1> HIDE DEF closed
  <1>5. Worked(e, lower) /\ DOMAIN lower = Attributes
    BY <1>1, <1>2, <1>3, <1>4, WorkedOn
  <1> HIDE DEF lower
  <1>6. Worked(lower, below)
    BY <1>5, FieldWorked DEF Attributes
  <1> HIDE DEF below
  <1> QED  BY <1>5, <1>6, <1>7, WorkedOn, FailedWorked

LEMMA ModProcessorsWorked ==
    ASSUME NEW e, DOMAIN e = Attributes, NEW m \in ops, NEW operand
    PROVE  Worked(e, mod_processors(e, m, operand))
  <1> DEFINE f == mod_processors(e, m, operand)
  <1>1. CASE m \in Inequalities
    <2>1. f \in { Failed(e), set_min_value(e, operand.value[1], m = ".ge"),
                 set_max_value(e, operand.value[1], m = ".le") }
      BY <1>1 DEF mod_processors, Inequalities
    <2> QED  BY <2>1, ValuesWorked, FailedWorked
  <1>2. CASE m = ".size"
    <2>1. f \in { Failed(e), set_size(e, operand.value[1]),
                 set_size_range(e, Some(operand.range[1][1]), Some(operand.range[1][2]), operand.range[1][3]) }
      BY <1>2 DEF mod_processors, Inequalities, set_size_op
    <2> QED  BY <2>1, SetSizeWorked, SizeRangeWorked, FailedWorked
  <1>3. CASE m = ".eq"
    <2>1. f \in {Failed(e), set_value(e, operand.value)}
      BY <1>3 DEF mod_processors, Inequalities, set_eq
    <2> QED  BY <2>1, SetValueWorked, FailedWorked
  <1>4. CASE m \in {".default", ".cbor", ".cborseq", ".bits"}
    <2>1. f \in { Failed(e), [e EXCEPT !.default = operand.value],
                 [e EXCEPT !.cbor = Some(operand)], [e EXCEPT !.bits = Some(operand)] }
      BY <1>4 DEF mod_processors, Inequalities, set_default
    <2> QED  BY <2>1, FieldWorked, FailedWorked DEF Attributes
  <1> QED  BY <1>1, <1>2, <1>3, <1>4 DEF ops, deferred_mod_processors

LEMMA RecordedDomain ==
    ASSUME NEW e, Recorded(e)
    PROVE  DOMAIN e = Attributes
  BY DEF Recorded

LEMMA WorkedIsKept ==
    ASSUME NEW e, NEW f, Worked(e, f)
    PROVE  Kept(e, f)
  BY DEF Worked

LEMMA TypeAndValueKept ==
    ASSUME NEW e, NEW type, NEW v, Recorded(e)
    PROVE  Kept(e, type_and_value(e, type, v))
  <1> DEFINE typed == [e EXCEPT !.type = Some(type)]
  <1>0. DOMAIN e = Attributes
    BY RecordedDomain
  <1>1. Kept(e, typed) /\ DOMAIN typed = Attributes
    BY <1>0, FieldKept DEF Attributes
  <1>2. type_and_value(e, type, v) \in {Failed(e), set_value(typed, v)}
    BY DEF type_and_value
  <1> HIDE DEF typed
  <1> QED  BY <1>0, <1>1, <1>2, SetValueWorked, WorkedIsKept, FailedWorked, WorkedIsKept, KeptOn

LEMMA TypeAndRangeKept ==
    ASSUME NEW e, NEW type, NEW min, NEW max, NEW inc_end, Recorded(e)
    PROVE  Kept(e, type_and_range(e, type, min, max, inc_end))
  <1> DEFINE typed   == [e EXCEPT !.type = Some(type)]
             lowered == set_min_value(typed, min, TRUE)
             bounded == set_max_value(lowered, max, inc_end)
             sized == IF type \in {"UINT", "INT"}
                        THEN set_size_range(bounded, Some(sizeof(min)), Some(sizeof(max)), TRUE)
                        ELSE set_size_range(bounded, Some(sizeof(-max)), Some(sizeof(-min)), TRUE)
             larger == IF sizeof(Abs(max)) > sizeof(Abs(min)) THEN sizeof(Abs(max)) ELSE sizeof(Abs(min))
             final == IF type = "INT" THEN set_size_range(sized, None, Some(larger), TRUE) ELSE sized
             ranged == add_modifier(final, "range", << min, max, inc_end >>, TRUE)
  <1>0. DOMAIN e = Attributes
    BY RecordedDomain
  <1>1. type_and_range(e, type, min, max, inc_end) \in {Failed(e), type_and_value(e, type, Some(min)), ranged}
    BY DEF type_and_range
  <1>2. Kept(e, typed) /\ DOMAIN typed = Attributes
    BY <1>0, FieldKept DEF Attributes
  <1> HIDE DEF typed
  <1>3. Kept(typed, lowered) /\ DOMAIN lowered = Attributes
    BY <1>2, ValuesWorked, WorkedIsKept, ValuesLeaveModifiers
  <1> HIDE DEF lowered
  <1>4. Kept(lowered, bounded) /\ DOMAIN bounded = Attributes
    BY <1>3, ValuesWorked, WorkedIsKept, ValuesLeaveModifiers
  <1> HIDE DEF bounded
  <1>5. Kept(bounded, sized)
    BY <1>4, SizeRangeWorked, WorkedIsKept
  <1> HIDE DEF sized
  <1>6. Kept(e, sized)
    BY <1>2, <1>3, <1>4, <1>5, KeptOn
  <1>7. DOMAIN sized = Attributes
    BY <1>6, RecordedDomain DEF Kept
  <1>8. Kept(sized, final)
    BY <1>7, SizeRangeWorked, WorkedIsKept, IdleWorked, WorkedIsKept
  <1> HIDE DEF larger, final
  <1>9. Kept(e, final)
    BY <1>6, <1>8, KeptOn
  <1>10. DOMAIN final = Attributes
    BY <1>9, RecordedDomain DEF Kept
  <1>11. "range" \notin ops
    BY DEF ops, deferred_mod_processors, Inequalities
  <1>12. Kept(e, ranged)
    BY <1>9, <1>10, <1>11, AddModifierWorked, WorkedIsKept, KeptOn
  <1> HIDE DEF ranged
  <1> QED  BY <1>0, <1>1, <1>12, TypeAndValueKept, FailedWorked, WorkedIsKept

-----------------------------------------------------------------------------
(* What holds of the control operators that are noted.                     *)

Lower == {".gt", ".ge"}
Upper == {".lt", ".le"}

\* They occur together in a text, bounds name numbers, and no two of the lower
\* side the same.
ControlsSound(e) ==
    /\ \A m, n \in Controls(e) : \E c \in Combos : {m, n} \subseteq c
    /\ \A m \in Controls(e) \cap Inequalities :
          e.modifiers[m] = Vague \/ \E n \in Literals : e.modifiers[m] = Literal(n)
    /\ \A m, n \in Controls(e) \cap Lower : m # n => e.modifiers[m] # e.modifiers[n]

OInv == /\ IInv
        /\ Recorded(self) /\ self.error \in BOOLEAN
        /\ ControlsSound(self)

LEMMA ControlsStaySound ==
    ASSUME NEW e, NEW f, ControlsSound(e), SameControls(e, f)
    PROVE  ControlsSound(f)
  BY DEF ControlsSound, SameControls

LEMMA ReadKept ==
    ASSUME OInv, NEW e, Kept(self, e), Read(e)
    PROVE  Recorded(self') /\ self'.error \in BOOLEAN /\ ControlsSound(self')
  BY ControlsStaySound DEF OInv, Read, Kept

LEMMA OrderInit == Init => OInv
  <1> SUFFICES ASSUME Init PROVE OInv
    OBVIOUS
  <1>1. Recorded(NewElement)
    BY DEF Recorded, NewElement, Attributes
  <1>2. NewElement.error = FALSE /\ Controls(NewElement) = {}
    BY DEF NewElement, NoModifiers, Controls
  <1> QED  BY <1>1, <1>2, InitSound DEF Init, OInv, ControlsSound

LEMMA TokenKept ==
    ASSUME OInv, SetQuantifier \/ SetLabel \/ SetKey \/ AddTag
    PROVE  Recorded(self') /\ self'.error \in BOOLEAN /\ ControlsSound(self')
  <1>0. DOMAIN self = Attributes
    BY RecordedDomain DEF OInv
  <1>5. {"quantifier", "key", "tag"} \cap ops = {}
    BY DEF ops, deferred_mod_processors, Inequalities
  <1>1. CASE SetQuantifier
    <2>1. PICK q \in {<< 0, 1 >>, << 1, Many >>} :
             Read(add_modifier([self EXCEPT !.min_qty = q[1], !.max_qty = q[2]], "quantifier", None, TRUE))
      BY <1>1 DEF SetQuantifier
    <2> DEFINE e == [self EXCEPT !.min_qty = q[1], !.max_qty = q[2]]
    <2>2. Kept(self, e) /\ DOMAIN e = Attributes
      BY <1>0 DEF Kept, SameKind, SameControls, Controls, Recorded, Attributes
    <2>3. Read(add_modifier(e, "quantifier", None, TRUE))
      BY <2>1
    <2> HIDE DEF e
    <2> QED  BY <1>5, <2>2, <2>3, AddModifierWorked, WorkedIsKept, KeptOn, ReadKept
  <1>2. CASE SetLabel
    BY <1>0, <1>2, FieldKept, ReadKept DEF SetLabel, Attributes
  <1>3. CASE SetKey
    <2>1. PICK type \in {"UINT", "GROUP"} :
             Read(IF IsSome(self.key) \/ type = "GROUP" THEN Failed(self)
                  ELSE add_modifier([self EXCEPT !.key = Some(type)], "key", None, TRUE))
      BY <1>3 DEF SetKey
    <2> DEFINE e == [self EXCEPT !.key = Some(type)]
    <2>2. Kept(self, e) /\ DOMAIN e = Attributes
      BY <1>0, FieldKept DEF Attributes
    <2>3. Read(Failed(self)) \/ Read(add_modifier(e, "key", None, TRUE))
      BY <2>1
    <2> HIDE DEF e
    <2> QED  BY <1>0, <1>5, <2>2, <2>3, AddModifierWorked, WorkedIsKept, FailedWorked, WorkedIsKept, KeptOn, ReadKept
  <1>4. CASE AddTag
    <2> DEFINE e == add_modifier(self, "tag", None, FALSE)
               f == [e EXCEPT !.tags = Append(@, 1)]
    <2>1. Kept(self, e)
      BY <1>0, <1>5, AddModifierWorked, WorkedIsKept
    <2>2. Read(f)
      BY <1>4 DEF AddTag
    <2> HIDE DEF e
    <2>3. DOMAIN e = Attributes
      BY <2>1, RecordedDomain DEF OInv, Kept
    <2>4. Kept(e, f)
      BY <2>3, FieldKept DEF Attributes
    <2> HIDE DEF f
    <2> QED  BY <2>1, <2>2, <2>4, KeptOn, ReadKept
  <1> QED  BY <1>1, <1>2, <1>3, <1>4

LEMMA TypeTokenKept ==
    ASSUME OInv, TypeName \/ FloatWithSize \/ LiteralNumber \/ SetNumRange
    PROVE  Recorded(self') /\ self'.error \in BOOLEAN /\ ControlsSound(self')
  <1>0. Recorded(self)
    BY DEF OInv
  <1>1. CASE TypeName
    BY <1>0, <1>1, TypeAndValueKept, ReadKept DEF TypeName
  <1>2. CASE FloatWithSize
    <2> DEFINE typed == type_and_value(self, "FLOAT", None)
    <2>1. PICK s \in {<< 2, 2 >>, << 4, 8 >>} :
             Read(IF s[1] = s[2] THEN set_size(typed, s[1])
                  ELSE set_size_range(typed, Some(s[1]), Some(s[2]), TRUE))
      BY <1>2 DEF FloatWithSize
    <2>2. Kept(self, typed)
      BY <1>0, TypeAndValueKept
    <2>3. DOMAIN typed = Attributes
      BY <1>0, <2>2, RecordedDomain DEF Kept
    <2> HIDE DEF typed
    <2>4. Read(set_size(typed, s[1])) \/ Read(set_size_range(typed, Some(s[1]), Some(s[2]), TRUE))
      BY <2>1
    <2> QED  BY <2>2, <2>3, <2>4, SetSizeWorked, WorkedIsKept, SizeRangeWorked, WorkedIsKept, KeptOn, ReadKept
  <1>3. CASE LiteralNumber
    BY <1>0, <1>3, TypeAndValueKept, ReadKept DEF LiteralNumber
  <1>4. CASE SetNumRange
    BY <1>0, <1>4, TypeAndRangeKept, ReadKept DEF SetNumRange
  <1> QED  BY <1>1, <1>2, <1>3, <1>4

LEMMA NotingIsSound ==
    ASSUME OInv, NEW m \in ops, NEW operand \in Operands(m), NEW c \in Combos,
           {m} \cup (DOMAIN self.modifiers \cap ops) \subseteq c, ~IsEqualBound(m, operand)
    PROVE  /\ Recorded(add_modifier(self, m, operand, TRUE))
           /\ add_modifier(self, m, operand, TRUE).error \in BOOLEAN
           /\ ControlsSound(add_modifier(self, m, operand, TRUE))
  <1> DEFINE more == [x \in DOMAIN self.modifiers \cup {m} |-> IF x = m THEN operand ELSE self.modifiers[x]]
             noted == [self EXCEPT !.modifiers = more]
  <1>1. CASE m \in DOMAIN self.modifiers
    <2>1. add_modifier(self, m, operand, TRUE) = Failed(self)
      BY <1>1 DEF add_modifier
    <2> QED  BY <2>1, FailedWorked, WorkedIsKept, RecordedDomain, ControlsStaySound DEF OInv, Kept
  <1>2. CASE m \notin DOMAIN self.modifiers
    <2>1. add_modifier(self, m, operand, TRUE) = noted
      BY <1>2 DEF add_modifier
    <2>2. DOMAIN more = DOMAIN self.modifiers \cup {m} /\ more[m] = operand
          /\ \A x \in DOMAIN self.modifiers : more[x] = self.modifiers[x]
      BY <1>2
    <2> HIDE DEF more
    <2>3. noted.modifiers = more /\ noted.error = self.error /\ Recorded(noted)
      BY DEF OInv, Recorded, Attributes
    <2> HIDE DEF noted
    <2>4. Controls(noted) = Controls(self) \cup {m} /\ Controls(noted) \subseteq c
      BY <2>2, <2>3 DEF Controls
    <2>5. m \in Inequalities => operand = Vague \/ \E n \in Literals : operand = Literal(n)
      BY DEF Operands, Inequalities
    <2>6. \A x \in Controls(noted) \cap Inequalities :
             more[x] = Vague \/ \E n \in Literals : more[x] = Literal(n)
      BY <2>2, <2>4, <2>5 DEF OInv, ControlsSound, Controls
    <2>7. m \in Lower => \A x \in Controls(self) \cap Lower : self.modifiers[x] # operand
      BY DEF IsEqualBound, SameSide, Lower, Inequalities, Controls
    <2>8. \A x, y \in Controls(noted) \cap Lower : x # y => more[x] # more[y]
      BY <2>2, <2>4, <2>7 DEF OInv, ControlsSound, Controls
    <2> QED  BY <2>1, <2>3, <2>4, <2>6, <2>8 DEF OInv, ControlsSound
  <1> QED  BY <1>1, <1>2

LEMMA AddControlOpKept ==
    ASSUME OInv, AddControlOp
    PROVE  Recorded(self') /\ self'.error \in BOOLEAN /\ ControlsSound(self')
  <1>1. PICK m \in ops : \E operand \in Operands(m) :
           /\ ~IsEqualBound(m, operand)
           /\ \E c \in Combos : {m} \cup (DOMAIN self.modifiers \cap ops) \subseteq c
           /\ \/ Read(Failed(self)) \/ Read(add_modifier(self, m, operand, TRUE))
              \/ Read(mod_processors(add_modifier(self, m, operand, TRUE), m, operand))
    BY DEF AddControlOp
  <1>2. PICK operand \in Operands(m) :
           /\ ~IsEqualBound(m, operand)
           /\ \E c \in Combos : {m} \cup (DOMAIN self.modifiers \cap ops) \subseteq c
           /\ \/ Read(Failed(self)) \/ Read(add_modifier(self, m, operand, TRUE))
              \/ Read(mod_processors(add_modifier(self, m, operand, TRUE), m, operand))
    BY <1>1
  <1> DEFINE noted == add_modifier(self, m, operand, TRUE)
             done  == mod_processors(noted, m, operand)
  <1>3. Recorded(noted) /\ noted.error \in BOOLEAN /\ ControlsSound(noted)
    BY <1>2, NotingIsSound
  <1>4. Read(Failed(self)) \/ Read(noted) \/ Read(done)
    BY <1>2
  <1> HIDE DEF noted
  <1>5. Kept(noted, done)
    BY <1>3, ModProcessorsWorked, WorkedIsKept, RecordedDomain
  <1> HIDE DEF done
  <1>6. CASE self' = noted \/ self' = done
    BY <1>3, <1>5, <1>6, ControlsStaySound DEF Kept
  <1>7. CASE Read(Failed(self))
    BY <1>7, FailedWorked, WorkedIsKept, RecordedDomain, ReadKept DEF OInv
  <1> QED  BY <1>4, <1>6, <1>7 DEF Read

LEMMA OrderNext == OInv /\ [Next]_vars => OInv'
  <1> SUFFICES ASSUME OInv, [Next]_vars PROVE OInv'
    OBVIOUS
  <1>0. IInv'
    BY NextSound DEF OInv
  <1>1. CASE UNCHANGED self
    BY <1>0, <1>1 DEF OInv, Recorded, ControlsSound, Controls
  <1>2. ASSUME Recorded(self') /\ self'.error \in BOOLEAN /\ ControlsSound(self')
        PROVE  OInv'
    BY <1>0, <1>2 DEF OInv, Recorded, ControlsSound, Controls
  <1>3. ASSUME NEW m \in deferred_mod_processors, ProcessModifier(m)
        PROVE  OInv'
    <2>1. Worked(self, self')
      BY <1>3, ModProcessorsWorked, RecordedDomain DEF OInv, ProcessModifier, ops
    <2> QED  BY <1>2, <2>1, ControlsStaySound DEF OInv, Worked, Kept
  <1> QED  BY <1>1, <1>2, <1>3, TokenKept, TypeTokenKept, AddControlOpKept
           DEF Next, EndOfText, PostValidate, vars

-----------------------------------------------------------------------------
(* Sizes of integers.                                                      *)

LEMMA LeastMember ==
    ASSUME NEW T, T \subseteq Nat, T # {}
    PROVE  \E n \in T : \A k \in T : n <= k
  <1>1. IsWellFoundedOn(OpToRel(<, Nat), Nat)
    BY NatLessThanWellFounded
  <1>2. PICK n \in T : \A k \in T : ~ (<< k, n >> \in OpToRel(<, Nat))
    BY <1>1, WFMin
  <1>3. ASSUME NEW k \in T, k < n PROVE FALSE
    <2>1. << k, n >> \in Nat \X Nat
      BY <1>2
    <2>2. << k, n >>[1] < << k, n >>[2]
      BY <1>3
    <2>3. << k, n >> \in OpToRel(<, Nat)
      BY <2>1, <2>2, Zenon DEF OpToRel
    <2> QED  BY <1>2, <2>3, Zenon
  <1> QED  BY <1>3

LEMMA ByteLengthIs ==
    ASSUME NEW n \in Int
    PROVE  /\ ByteLength(n) \in 0 .. (MaxSize + 1)
           /\ ByteLength(n) <= MaxSize => Abs(n) < Byte ^ ByteLength(n)
           /\ \A j \in 0 .. (ByteLength(n) - 1) : Abs(n) >= Byte ^ j
  <1> DEFINE T == {k \in 0 .. (MaxSize + 1) : k <= MaxSize => Abs(n) < Byte ^ k}
  <1>0. MaxSize \in Nat /\ Abs(n) \in Nat
    BY SizeAssumption DEF Abs
  <1>1. T \subseteq Nat /\ MaxSize + 1 \in T
    BY <1>0
  <1>2. PICK k \in T : \A j \in T : k <= j
    BY <1>1, LeastMember
  <1>3. ASSUME NEW j \in 0 .. (k - 1) PROVE Abs(n) >= Byte ^ j
    <2>1. j \in 0 .. MaxSize /\ j \notin T
      BY <1>0, <1>1, <1>2
    <2>2. Byte ^ j \in Nat
      BY <2>1, PowerAssumption
    <2> QED  BY <1>0, <2>1, <2>2
  <1>4. \E x \in 0 .. (MaxSize + 1) : /\ x <= MaxSize => Abs(n) < Byte ^ x
                                      /\ \A j \in 0 .. (x - 1) : Abs(n) >= Byte ^ j
    BY <1>2, <1>3
  <1> QED  BY <1>4, Zenon DEF ByteLength

\* A number that is not negative is no less than the least of its size.
LEMMA LeastOfLength ==
    ASSUME NEW n \in Nat, ByteLength(n) <= MaxSize
    PROVE  Least(ByteLength(n)) <= n
  <1> DEFINE k == ByteLength(n)
  <1>1. k \in 0 .. (MaxSize + 1) /\ \A j \in 0 .. (k - 1) : Abs(n) >= Byte ^ j
    BY ByteLengthIs
  <1>2. Abs(n) = n
    BY DEF Abs
  <1> HIDE DEF k
  <1>3. CASE k <= 1
    BY <1>3 DEF Least, k
  <1>4. CASE k > 1
    <2>1. k - 1 \in 0 .. (k - 1)
      BY <1>1, <1>4
    <2>2. n >= Byte ^ (k - 1)
      BY <1>1, <1>2, <2>1
    <2>3. k - 1 \in 0 .. MaxSize
      BY <1>1, <1>4, SizeAssumption
    <2>4. Byte ^ (k - 1) \in Nat
      BY <2>3, PowerAssumption
    <2>5. Least(k) = Byte ^ (k - 1)
      BY <1>1, <1>4, SizeAssumption DEF Least
    <2> QED  BY <2>2, <2>4, <2>5 DEF k
  <1> QED  BY <1>1, <1>3, <1>4, SizeAssumption

\* The larger of two such numbers takes no fewer bytes.
LEMMA LongerIsLonger ==
    ASSUME NEW n \in Nat, NEW k \in Nat, n <= k, ByteLength(n) > MaxSize
    PROVE  ByteLength(k) > MaxSize
  <1> DEFINE x == ByteLength(n)
             y == ByteLength(k)
  <1>1. /\ x \in 0 .. (MaxSize + 1) /\ \A j \in 0 .. (x - 1) : Abs(n) >= Byte ^ j
        /\ y \in 0 .. (MaxSize + 1) /\ (y <= MaxSize => Abs(k) < Byte ^ y)
    BY ByteLengthIs
  <1>2. Abs(n) = n /\ Abs(k) = k
    BY DEF Abs
  <1> HIDE DEF x, y
  <1> SUFFICES ASSUME y <= MaxSize PROVE FALSE
    BY <1>1, SizeAssumption DEF y
  <1>3. y \in 0 .. MaxSize /\ y \in 0 .. (x - 1)
    BY <1>1, SizeAssumption DEF x
  <1>4. Byte ^ y \in Nat
    BY <1>3, PowerAssumption
  <1> QED  BY <1>1, <1>2, <1>3, <1>4

LEMMA SomeIs == ASSUME NEW x PROVE IsSome(Some(x)) /\ Some(x)[1] = x
  BY DEF IsSome, Some

-----------------------------------------------------------------------------
(* What an inequality does.                                                *)

Raises(e, v) == ~(IsSome(e.min_value) /\ e.min_value[1] >= v)
Caps(e, v)   == ~(IsSome(e.max_value) /\ e.max_value[1] <= v)

TooLong(e, v)  == IsType(e, IntTypes) /\ ByteLength(v) > MaxSize
Overlong(e, v) == TooLong(e, v) /\ ~(IsSome(e.max_size) /\ e.max_size[1] <= ByteLength(v))

LowerIs(e, v, inclusive, f) ==
    /\ ~Raises(e, v) => f = e
    /\ Raises(e, v) => f.min_value = Some(v)
    /\ Raises(e, v) /\ TooLong(e, v) => f.error = TRUE
    /\ Raises(e, v) /\ ~TooLong(e, v) =>
         \E size : /\ f = [e EXCEPT !.min_value = Some(v), !.min_value_inclusive = inclusive, !.min_size = size]
                   /\ ~IsType(e, IntTypes) => size = e.min_size

UpperIs(e, v, inclusive, f) ==
    /\ ~Caps(e, v) => f = e
    /\ Caps(e, v) => f.max_value = Some(v)
    /\ Caps(e, v) /\ Overlong(e, v) => f.error = TRUE
    /\ Caps(e, v) /\ ~Overlong(e, v) =>
         \E size : /\ f = [e EXCEPT !.max_value = Some(v), !.max_value_inclusive = inclusive, !.max_size = size]
                   /\ ~IsType(e, IntTypes) => size = e.max_size

LEMMA LengthIsValid ==
    ASSUME NEW e, IsElement(e), IsType(e, IntTypes), NEW v \in Int
    PROVE  SizeIsValid(e, ByteLength(v)) <=> ByteLength(v) <= MaxSize
  <1>1. ByteLength(v) \in 0 .. (MaxSize + 1)
    BY ByteLengthIs
  <1>2. ~IsType(e, {"FLOAT"}) /\ ~IsType(e, StringTypes)
    BY DEF IsType, IntTypes, StringTypes, Some
  <1> QED  BY <1>1, <1>2, SizeAssumption DEF SizeIsValid

LEMMA SetMinValueIs ==
    ASSUME NEW e, IsElement(e), Recorded(e), NEW v \in Int, NEW inclusive,
           e.type = Some("UINT") => v \in Nat
    PROVE  LowerIs(e, v, inclusive, set_min_value(e, v, inclusive))
  <1> DEFINE f == [e EXCEPT !.min_value = Some(v), !.min_value_inclusive = inclusive]
             size == ByteLength(v)
             g == set_min_size(f, size)
  <1>1. CASE ~Raises(e, v)
    BY <1>1 DEF LowerIs, Raises, set_min_value
  <1>2. CASE Raises(e, v) /\ ~IsType(e, IntTypes)
    <2>1. set_min_value(e, v, inclusive) = f
      BY <1>2 DEF set_min_value, Raises
    <2>2. f = [e EXCEPT !.min_value = Some(v), !.min_value_inclusive = inclusive, !.min_size = e.min_size]
          /\ f.min_value = Some(v)
      BY DEF Recorded, Attributes
    <2> HIDE DEF f
    <2> QED  BY <1>2, <2>1, <2>2 DEF LowerIs, TooLong
  <1>3. CASE Raises(e, v) /\ IsType(e, IntTypes)
    <2>1. set_min_value(e, v, inclusive) = g
      BY <1>3 DEF set_min_value, Raises
    <2>2. f.type = e.type /\ f.min_size = e.min_size /\ f.min_value = Some(v)
      BY DEF Recorded, Attributes
    <2>3. SizeIsValid(f, size) <=> size <= MaxSize
      BY <1>3, <2>2, LengthIsValid DEF SizeIsValid, IsType
    <2>4. size \in 0 .. (MaxSize + 1)
      BY ByteLengthIs
    <2>5. CASE size > MaxSize
      <3>1. g = Failed(f)
        BY <2>3, <2>4, <2>5, SizeAssumption DEF set_min_size
      <3>2. Failed(f).error = TRUE /\ Failed(f).min_value = Some(v)
        BY DEF Failed, Recorded, Attributes
      <3> HIDE DEF f, g
      <3> QED  BY <1>3, <2>1, <2>5, <3>1, <3>2 DEF LowerIs, TooLong
    <2>6. CASE size <= MaxSize
      <3>1. e.type = Some("UINT") => RaiseMinValue(f, Least(size)) = f
        <4> SUFFICES ASSUME e.type = Some("UINT") PROVE RaiseMinValue(f, Least(size)) = f
          OBVIOUS
        <4>1. Least(size) <= v
          BY <2>6, LeastOfLength
        <4> HIDE DEF f
        <4>2. IsSome(f.min_value) /\ f.min_value[1] = v
          BY <2>2 DEF IsSome, Some, None
        <4> QED  BY <4>1, <4>2 DEF RaiseMinValue
      <3> HIDE DEF f, size
      <3>2. g = f \/ g = [f EXCEPT !.min_size = Some(size)]
        BY <2>2, <2>3, <2>6, <3>1 DEF set_min_size, Least
      <3>3. \E s : g = [f EXCEPT !.min_size = s]
        <4>1. f = [f EXCEPT !.min_size = f.min_size]
          BY DEF f, Recorded, Attributes
        <4> QED  BY <3>2, <4>1
      <3>4. PICK s : g = [f EXCEPT !.min_size = s]
        BY <3>3
      <3>5. /\ g = [e EXCEPT !.min_value = Some(v), !.min_value_inclusive = inclusive, !.min_size = s]
            /\ g.min_value = Some(v)
        BY <3>4 DEF f, Recorded, Attributes
      <3>6. ~TooLong(e, v)
        BY <2>4, <2>6, SizeAssumption DEF TooLong, size
      <3> HIDE DEF g
      <3> QED  BY <1>3, <2>1, <3>5, <3>6 DEF LowerIs
    <2> QED  BY <2>4, <2>5, <2>6, SizeAssumption
  <1> QED  BY <1>1, <1>2, <1>3

LEMMA SetMaxValueIs ==
    ASSUME NEW e, IsElement(e), Recorded(e), NEW v \in Int, NEW inclusive
    PROVE  UpperIs(e, v, inclusive, set_max_value(e, v, inclusive))
  <1> DEFINE f == [e EXCEPT !.max_value = Some(v), !.max_value_inclusive = inclusive]
             size == ByteLength(v)
             g == set_max_size(f, size)
  <1>1. CASE ~Caps(e, v)
    BY <1>1 DEF UpperIs, Caps, set_max_value
  <1>2. CASE Caps(e, v) /\ ~IsType(e, IntTypes)
    <2>1. set_max_value(e, v, inclusive) = f
      BY <1>2 DEF set_max_value, Caps
    <2>2. f = [e EXCEPT !.max_value = Some(v), !.max_value_inclusive = inclusive, !.max_size = e.max_size]
          /\ f.max_value = Some(v)
      BY DEF Recorded, Attributes
    <2> HIDE DEF f
    <2> QED  BY <1>2, <2>1, <2>2 DEF UpperIs, Overlong, TooLong
  <1>3. CASE Caps(e, v) /\ IsType(e, IntTypes)
    <2>1. set_max_value(e, v, inclusive) = g
      BY <1>3 DEF set_max_value, Caps
    <2>2. f.type = e.type /\ f.max_size = e.max_size /\ f.max_value = Some(v) /\ f.max_value # None
      BY DEF Recorded, Attributes, Some, None
    <2>3. SizeIsValid(f, size) <=> size <= MaxSize
      BY <1>3, <2>2, LengthIsValid DEF SizeIsValid, IsType
    <2>4. size \in 0 .. (MaxSize + 1)
      BY ByteLengthIs
    <2>5. CASE Overlong(e, v)
      <3>1. g = Failed(f)
        BY <2>2, <2>3, <2>4, <2>5, SizeAssumption DEF set_max_size, Overlong, TooLong
      <3>2. Failed(f).error = TRUE /\ Failed(f).max_value = Some(v)
        BY DEF Failed, Recorded, Attributes
      <3> HIDE DEF f, g
      <3> QED  BY <1>3, <2>1, <2>5, <3>1, <3>2 DEF UpperIs
    <2>6. CASE ~Overlong(e, v)
      <3>0. size <= MaxSize \/ (IsSome(f.max_size) /\ f.max_size[1] <= size)
        BY <1>3, <2>2, <2>4, <2>6, SizeAssumption DEF Overlong, TooLong
      <3> HIDE DEF f, size
      <3>2. g = f \/ g = [f EXCEPT !.max_size = Some(size)]
        BY <2>2, <2>3, <3>0 DEF set_max_size
      <3>3. \E s : g = [f EXCEPT !.max_size = s]
        <4>1. f = [f EXCEPT !.max_size = f.max_size]
          BY DEF f, Recorded, Attributes
        <4> QED  BY <3>2, <4>1
      <3>4. PICK s : g = [f EXCEPT !.max_size = s]
        BY <3>3
      <3>5. /\ g = [e EXCEPT !.max_value = Some(v), !.max_value_inclusive = inclusive, !.max_size = s]
            /\ g.max_value = Some(v)
        BY <3>4 DEF f, Recorded, Attributes
      <3> HIDE DEF g
      <3> QED  BY <1>3, <2>1, <2>6, <3>5 DEF UpperIs
    <2> QED  BY <2>5, <2>6
  <1> QED  BY <1>1, <1>2, <1>3

-----------------------------------------------------------------------------
(* Two control operators, either first.                                    *)

\* All but the sizes of an integer, or both are errors.
Same(e, f) == e.error = f.error /\ (~e.error => SizesAside(e) = SizesAside(f))

LEMMA SameTurned == ASSUME NEW e, NEW f, Same(e, f) PROVE Same(f, e)
  BY DEF Same

LEMMA LowersCommute ==
    ASSUME NEW e, IsElement(e), Recorded(e), e.error \in BOOLEAN,
           NEW v \in Int, NEW w \in Int, v < w, NEW i \in BOOLEAN, NEW j \in BOOLEAN,
           e.type = Some("UINT") => v \in Nat /\ w \in Nat,
           v < 0 => ByteLength(v) <= MaxSize
    PROVE  Same(set_min_value(set_min_value(e, v, i), w, j), set_min_value(set_min_value(e, w, j), v, i))
  <1> DEFINE a  == set_min_value(e, v, i)
             b  == set_min_value(e, w, j)
             ab == set_min_value(a, w, j)
             ba == set_min_value(b, v, i)
  <1>1. LowerIs(e, v, i, a) /\ LowerIs(e, w, j, b)
    BY SetMinValueIs
  <1>2. /\ IsElement(a) /\ Worked(e, a) /\ a.type = e.type
        /\ IsElement(b) /\ Worked(e, b) /\ b.type = e.type
    BY SetMinValueKeeps, ValuesWorked, BoundsLeaveType DEF IsElement
  <1>3. Worked(a, ab) /\ Worked(b, ba)
    BY <1>2, ValuesWorked DEF IsElement
  <1>4. IsSome(e.min_value) => e.min_value[1] \in Int
    BY OptionIsOne DEF IsElement, Bounded, IsSome, None
  <1>5. ba = b
    <2> SUFFICES ~Raises(b, v)
      BY DEF Raises, set_min_value
    <2> HIDE DEF a, b
    <2>1. CASE Raises(e, w)
      <3>1. b.min_value = Some(w)
        BY <1>1, <2>1 DEF LowerIs
      <3>2. IsSome(b.min_value) /\ b.min_value[1] = w
        BY <3>1, SomeIs
      <3> QED  BY <3>2 DEF Raises
    <2>2. CASE ~Raises(e, w)
      <3>1. b = e
        BY <1>1, <2>2 DEF LowerIs
      <3> QED  BY <1>4, <2>2, <3>1 DEF Raises
    <2> QED  BY <2>1, <2>2
  <1>6. CASE ~Raises(e, v)
    <2>1. ab = b
      BY <1>1, <1>6 DEF LowerIs
    <2> QED  BY <1>5, <2>1 DEF Same
  <1>7. CASE Raises(e, v)
    <2>1. Raises(e, w)
      BY <1>4, <1>7 DEF Raises
    <2>2. LowerIs(a, w, j, ab)
      BY <1>2, SetMinValueIs DEF Worked, Kept
    <2> HIDE DEF a, b, ab, ba
    <2>3. Raises(a, w)
      <3>1. a.min_value = Some(v)
        BY <1>1, <1>7 DEF LowerIs
      <3>2. IsSome(a.min_value) /\ a.min_value[1] = v
        BY <3>1, SomeIs
      <3> QED  BY <3>2 DEF Raises
    <2>4. TooLong(a, w) <=> TooLong(e, w)
      BY <1>2 DEF TooLong, IsType
    <2>5. CASE TooLong(e, w)
      <3>1. ab.error = TRUE /\ b.error = TRUE
        BY <1>1, <2>1, <2>2, <2>3, <2>4, <2>5 DEF LowerIs
      <3> QED  BY <1>5, <3>1 DEF Same, a, b, ab, ba
    <2>6. CASE ~TooLong(e, w)
      <3>1. ~TooLong(e, v)
        <4> SUFFICES ASSUME TooLong(e, v) PROVE FALSE
          OBVIOUS
        <4>1. v \in Nat /\ w \in Nat
          BY ByteLengthIs, SizeAssumption DEF TooLong
        <4> QED  BY <2>6, <4>1, LongerIsLonger DEF TooLong
      <3>2. PICK s : /\ a = [e EXCEPT !.min_value = Some(v), !.min_value_inclusive = i, !.min_size = s]
                     /\ ~IsType(e, IntTypes) => s = e.min_size
        BY <1>1, <1>7, <3>1 DEF LowerIs
      <3>3. PICK t : /\ b = [e EXCEPT !.min_value = Some(w), !.min_value_inclusive = j, !.min_size = t]
                     /\ ~IsType(e, IntTypes) => t = e.min_size
        BY <1>1, <2>1, <2>6 DEF LowerIs
      <3>4. PICK u : /\ ab = [a EXCEPT !.min_value = Some(w), !.min_value_inclusive = j, !.min_size = u]
                     /\ ~IsType(a, IntTypes) => u = a.min_size
        BY <2>2, <2>3, <2>4, <2>6 DEF LowerIs
      <3>5. ab = [e EXCEPT !.min_value = Some(w), !.min_value_inclusive = j, !.min_size = u]
        BY <3>2, <3>4 DEF Recorded, Attributes
      <3>6. a.min_size = s
        BY <3>2 DEF Recorded, Attributes
      <3>7. ~IsType(e, IntTypes) => u = t
        BY <1>2, <3>2, <3>3, <3>4, <3>6 DEF IsType
      <3>8. ab.error = b.error /\ IsType(ab, IntTypes) = IsType(e, IntTypes) /\ IsType(b, IntTypes) = IsType(e, IntTypes)
        BY <3>3, <3>5 DEF IsType, Recorded, Attributes
      <3>9. CASE ~IsType(e, IntTypes)
        BY <1>5, <3>3, <3>5, <3>7, <3>9 DEF Same, a, b, ab, ba
      <3>10. CASE IsType(e, IntTypes)
        <4>1. [ab EXCEPT !.min_size = None, !.max_size = None] = [b EXCEPT !.min_size = None, !.max_size = None]
          BY <3>3, <3>5 DEF Recorded, Attributes
        <4>2. SizesAside(ab) = SizesAside(b)
          BY <3>8, <3>10, <4>1 DEF SizesAside
        <4> QED  BY <1>5, <3>8, <4>2 DEF Same, a, b, ab, ba
      <3> QED  BY <3>9, <3>10
    <2> QED  BY <2>5, <2>6
  <1> QED  BY <1>6, <1>7

LEMMA BoundsApart ==
    ASSUME NEW e, DOMAIN e = Attributes, NEW v, NEW inclusive
    PROVE  /\ set_min_value(e, v, inclusive).max_value = e.max_value
           /\ set_min_value(e, v, inclusive).max_size = e.max_size
           /\ set_min_value(e, v, inclusive).value = e.value
           /\ set_max_value(e, v, inclusive).min_value = e.min_value
           /\ set_max_value(e, v, inclusive).value = e.value
  <1>1. ASSUME NEW f, DOMAIN f = Attributes, NEW size
        PROVE  /\ set_min_size(f, size).max_value = f.max_value
               /\ set_min_size(f, size).max_size = f.max_size
               /\ set_min_size(f, size).value = f.value
               /\ set_max_size(f, size).min_value = f.min_value
               /\ set_max_size(f, size).value = f.value
    BY <1>1 DEF set_min_size, set_max_size, Failed, RaiseMinValue, Attributes
  <1> DEFINE low  == [e EXCEPT !.min_value = Some(v), !.min_value_inclusive = inclusive]
             high == [e EXCEPT !.max_value = Some(v), !.max_value_inclusive = inclusive]
  <1>2. /\ DOMAIN low = Attributes /\ low.max_value = e.max_value /\ low.max_size = e.max_size
        /\ DOMAIN high = Attributes /\ high.min_value = e.min_value
        /\ low.value = e.value /\ high.value = e.value
    BY DEF Attributes
  <1>3. /\ set_min_value(e, v, inclusive) \in {e, low, set_min_size(low, ByteLength(v))}
        /\ set_max_value(e, v, inclusive) \in {e, high, set_max_size(high, ByteLength(v))}
    BY DEF set_min_value, set_max_value
  <1> HIDE DEF low, high
  <1> QED  BY <1>1, <1>2, <1>3

LEMMA SidesCommute ==
    ASSUME NEW e, IsElement(e), Recorded(e), e.error \in BOOLEAN,
           NEW v \in Int, NEW w \in Int, NEW i \in BOOLEAN, NEW j \in BOOLEAN,
           e.type = Some("UINT") => v \in Nat
    PROVE  Same(set_max_value(set_min_value(e, v, i), w, j), set_min_value(set_max_value(e, w, j), v, i))
  <1> DEFINE a  == set_min_value(e, v, i)
             b  == set_max_value(e, w, j)
             ab == set_max_value(a, w, j)
             ba == set_min_value(b, v, i)
  <1>1. LowerIs(e, v, i, a) /\ UpperIs(e, w, j, b)
    BY SetMinValueIs, SetMaxValueIs
  <1>2. /\ IsElement(a) /\ Worked(e, a) /\ a.type = e.type
        /\ IsElement(b) /\ Worked(e, b) /\ b.type = e.type
    BY SetMinValueKeeps, SetMaxValueKeeps, ValuesWorked, BoundsLeaveType DEF IsElement
  <1>3. Worked(a, ab) /\ Worked(b, ba)
    BY <1>2, ValuesWorked DEF IsElement
  <1>4. a.max_value = e.max_value /\ a.max_size = e.max_size /\ b.min_value = e.min_value
    BY BoundsApart, RecordedDomain
  <1>5. UpperIs(a, w, j, ab) /\ LowerIs(b, v, i, ba)
    BY <1>2, SetMinValueIs, SetMaxValueIs DEF Worked, Kept
  <1> HIDE DEF a, b, ab, ba
  <1>6. /\ Caps(a, w) <=> Caps(e, w)
        /\ Raises(b, v) <=> Raises(e, v)
        /\ Overlong(a, w) <=> Overlong(e, w)
        /\ TooLong(b, v) <=> TooLong(e, v)
        /\ IsType(a, IntTypes) <=> IsType(e, IntTypes)
        /\ IsType(b, IntTypes) <=> IsType(e, IntTypes)
    BY <1>2, <1>4 DEF Caps, Raises, Overlong, TooLong, IsType
  <1>7. Same(ab, ba)
    <2>1. CASE ~Raises(e, v)
      <3>1. a = e /\ ba = b
        BY <1>1, <1>5, <1>6, <2>1 DEF LowerIs
      <3>2. ab = b
        BY <3>1 DEF ab, b
      <3> QED  BY <3>1, <3>2 DEF Same
    <2>2. CASE ~Caps(e, w)
      <3>1. b = e /\ ab = a
        BY <1>1, <1>5, <1>6, <2>2 DEF UpperIs
      <3>2. ba = a
        BY <3>1 DEF ba, a
      <3> QED  BY <3>1, <3>2 DEF Same
    <2>3. CASE Raises(e, v) /\ Caps(e, w) /\ (TooLong(e, v) \/ Overlong(e, w))
      <3>1. ab.error = TRUE
        <4>1. a.error = TRUE \/ ab.error = TRUE
          BY <1>1, <1>5, <1>6, <2>3 DEF LowerIs, UpperIs
        <4> QED  BY <1>3, <4>1 DEF Worked, Kept
      <3>2. ba.error = TRUE
        <4>1. b.error = TRUE \/ ba.error = TRUE
          BY <1>1, <1>5, <1>6, <2>3 DEF LowerIs, UpperIs
        <4> QED  BY <1>3, <4>1 DEF Worked, Kept
      <3> QED  BY <3>1, <3>2 DEF Same
    <2>4. CASE Raises(e, v) /\ Caps(e, w) /\ ~TooLong(e, v) /\ ~Overlong(e, w)
      <3>1. PICK s : /\ a = [e EXCEPT !.min_value = Some(v), !.min_value_inclusive = i, !.min_size = s]
                     /\ ~IsType(e, IntTypes) => s = e.min_size
        BY <1>1, <2>4 DEF LowerIs
      <3>2. PICK t : /\ b = [e EXCEPT !.max_value = Some(w), !.max_value_inclusive = j, !.max_size = t]
                     /\ ~IsType(e, IntTypes) => t = e.max_size
        BY <1>1, <2>4 DEF UpperIs
      <3>3. PICK u : /\ ab = [a EXCEPT !.max_value = Some(w), !.max_value_inclusive = j, !.max_size = u]
                     /\ ~IsType(a, IntTypes) => u = a.max_size
        BY <1>5, <1>6, <2>4 DEF UpperIs
      <3>4. PICK x : /\ ba = [b EXCEPT !.min_value = Some(v), !.min_value_inclusive = i, !.min_size = x]
                     /\ ~IsType(b, IntTypes) => x = b.min_size
        BY <1>5, <1>6, <2>4 DEF LowerIs
      <3>5. a.max_size = e.max_size /\ b.min_size = e.min_size
        BY <3>1, <3>2 DEF Recorded, Attributes
      <3>6. CASE ~IsType(e, IntTypes)
        <4>1. s = x /\ u = t
          BY <1>6, <3>1, <3>2, <3>3, <3>4, <3>5, <3>6
        <4>2. ab = ba
          BY <3>1, <3>2, <3>3, <3>4, <4>1 DEF Recorded, Attributes
        <4> QED  BY <4>2 DEF Same
      <3>7. CASE IsType(e, IntTypes)
        <4>1. [ab EXCEPT !.min_size = None, !.max_size = None] = [ba EXCEPT !.min_size = None, !.max_size = None]
          BY <3>1, <3>2, <3>3, <3>4 DEF Recorded, Attributes
        <4>2. ab.error = ba.error /\ ab.type = e.type /\ ba.type = e.type
          BY <3>1, <3>2, <3>3, <3>4 DEF Recorded, Attributes
        <4>3. IsType(ab, IntTypes) /\ IsType(ba, IntTypes)
          BY <3>7, <4>2 DEF IsType
        <4>4. SizesAside(ab) = SizesAside(ba)
          BY <4>1, <4>3 DEF SizesAside
        <4> QED  BY <4>2, <4>4 DEF Same
      <3> QED  BY <3>6, <3>7
    <2> QED  BY <2>1, <2>2, <2>3, <2>4
  <1> QED  BY <1>7 DEF a, b, ab, ba

-----------------------------------------------------------------------------
(* A default is no matter of the other operators.                          *)

Defaulted(e, d) == [e EXCEPT !.default = d]

LEMMA SizesDefaulted ==
    ASSUME NEW e, NEW d, Recorded(e), NEW size
    PROVE  /\ set_min_size(Defaulted(e, d), size) = Defaulted(set_min_size(e, size), d)
           /\ set_max_size(Defaulted(e, d), size) = Defaulted(set_max_size(e, size), d)
  <1> DEFINE g == Defaulted(e, d)
             v == IF size <= 1 THEN 0 ELSE Byte ^ (size - 1)
  <1>1. /\ g.type = e.type /\ g.min_size = e.min_size /\ g.max_size = e.max_size
        /\ g.min_value = e.min_value /\ g.max_value = e.max_value
        /\ \A s : SizeIsValid(g, s) <=> SizeIsValid(e, s)
    BY DEF Recorded, Defaulted, Attributes, IsType, SizeIsValid
  <1>2. Failed(g) = Defaulted(Failed(e), d)
    BY DEF Recorded, Defaulted, Attributes, Failed
  <1>3. /\ [g EXCEPT !.min_size = Some(size)] = Defaulted([e EXCEPT !.min_size = Some(size)], d)
        /\ [g EXCEPT !.max_size = Some(size)] = Defaulted([e EXCEPT !.max_size = Some(size)], d)
    BY DEF Recorded, Defaulted, Attributes
  <1>4. [[g EXCEPT !.min_value = Some(v), !.min_value_inclusive = TRUE] EXCEPT !.min_size = Some(size)]
          = Defaulted([[e EXCEPT !.min_value = Some(v), !.min_value_inclusive = TRUE]
                          EXCEPT !.min_size = Some(size)], d)
    <2> HIDE DEF v
    <2> QED  BY DEF Recorded, Defaulted, Attributes
  <1>5. LET cap(x) == [x EXCEPT !.max_value = Some(Byte ^ size - 1), !.max_value_inclusive = TRUE] IN
        [cap(g) EXCEPT !.max_size = Some(size)] = Defaulted([cap(e) EXCEPT !.max_size = Some(size)], d)
    BY DEF Recorded, Defaulted, Attributes
  <1>6. g = Defaulted(e, d)
    OBVIOUS
  <1> HIDE DEF g
  <1>7. set_min_size(g, size) = Defaulted(set_min_size(e, size), d)
    <2> HIDE DEF v
    <2>1. \A x : set_min_size(x, size) =
                   IF ~SizeIsValid(x, size) THEN Failed(x)
                   ELSE IF IsSome(x.min_size) /\ x.min_size[1] >= size THEN x
                   ELSE IF x.type # Some("UINT") \/ (IsSome(x.min_value) /\ x.min_value[1] >= v)
                        THEN [x EXCEPT !.min_size = Some(size)]
                   ELSE [[x EXCEPT !.min_value = Some(v), !.min_value_inclusive = TRUE] EXCEPT !.min_size = Some(size)]
      BY DEF set_min_size, RaiseMinValue, v
    <2> DEFINE fails == ~SizeIsValid(e, size)
               stays == IsSome(e.min_size) /\ e.min_size[1] >= size
               sized == e.type # Some("UINT") \/ (IsSome(e.min_value) /\ e.min_value[1] >= v)
    <2>3. /\ set_min_size(e, size) =
               IF fails THEN Failed(e) ELSE IF stays THEN e
               ELSE IF sized THEN [e EXCEPT !.min_size = Some(size)]
               ELSE [[e EXCEPT !.min_value = Some(v), !.min_value_inclusive = TRUE] EXCEPT !.min_size = Some(size)]
          /\ set_min_size(g, size) =
               IF fails THEN Failed(g) ELSE IF stays THEN g
               ELSE IF sized THEN [g EXCEPT !.min_size = Some(size)]
               ELSE [[g EXCEPT !.min_value = Some(v), !.min_value_inclusive = TRUE] EXCEPT !.min_size = Some(size)]
      BY <1>1, <2>1
    <2> HIDE DEF fails, stays, sized
    <2> QED  BY <1>2, <1>3, <1>4, <1>6, <2>3
  <1>8. set_max_size(g, size) = Defaulted(set_max_size(e, size), d)
    BY <1>1, <1>2, <1>3, <1>5, <1>6 DEF set_max_size
  <1> QED  BY <1>6, <1>7, <1>8

LEMMA FailedDefaulted ==
    ASSUME NEW e, NEW d, Recorded(e)
    PROVE  Failed(Defaulted(e, d)) = Defaulted(Failed(e), d)
  BY DEF Recorded, Defaulted, Attributes, Failed

LEMMA ValuesDefaulted ==
    ASSUME NEW e, NEW d, Recorded(e), NEW v, NEW inclusive \in BOOLEAN
    PROVE  /\ set_min_value(Defaulted(e, d), v, inclusive) = Defaulted(set_min_value(e, v, inclusive), d)
           /\ set_max_value(Defaulted(e, d), v, inclusive) = Defaulted(set_max_value(e, v, inclusive), d)
  <1> DEFINE g    == Defaulted(e, d)
             low  == [e EXCEPT !.min_value = Some(v), !.min_value_inclusive = inclusive]
             high == [e EXCEPT !.max_value = Some(v), !.max_value_inclusive = inclusive]
  <1>1. /\ Recorded(low) /\ [g EXCEPT !.min_value = Some(v), !.min_value_inclusive = inclusive] = Defaulted(low, d)
        /\ Recorded(high) /\ [g EXCEPT !.max_value = Some(v), !.max_value_inclusive = inclusive] = Defaulted(high, d)
    BY DEF Recorded, Defaulted, Attributes
  <1>2. g.min_value = e.min_value /\ g.max_value = e.max_value /\ (IsType(g, IntTypes) <=> IsType(e, IntTypes))
    BY DEF Recorded, Defaulted, Attributes, IsType
  <1>3. /\ set_min_size(Defaulted(low, d), ByteLength(v)) = Defaulted(set_min_size(low, ByteLength(v)), d)
        /\ set_max_size(Defaulted(high, d), ByteLength(v)) = Defaulted(set_max_size(high, ByteLength(v)), d)
    BY <1>1, SizesDefaulted
  <1>4. /\ set_min_value(e, v, inclusive) =
             IF ~Raises(e, v) THEN e
             ELSE IF IsType(e, IntTypes) THEN set_min_size(low, ByteLength(v)) ELSE low
        /\ set_min_value(g, v, inclusive) =
             IF ~Raises(e, v) THEN g
             ELSE IF IsType(e, IntTypes) THEN set_min_size(Defaulted(low, d), ByteLength(v)) ELSE Defaulted(low, d)
        /\ set_max_value(e, v, inclusive) =
             IF ~Caps(e, v) THEN e
             ELSE IF IsType(e, IntTypes) THEN set_max_size(high, ByteLength(v)) ELSE high
        /\ set_max_value(g, v, inclusive) =
             IF ~Caps(e, v) THEN g
             ELSE IF IsType(e, IntTypes) THEN set_max_size(Defaulted(high, d), ByteLength(v)) ELSE Defaulted(high, d)
    BY <1>1, <1>2 DEF set_min_value, set_max_value, Raises, Caps
  <1>5. g = Defaulted(e, d)
    OBVIOUS
  <1> HIDE DEF g, low, high
  <1> QED  BY <1>3, <1>4, <1>5

LEMMA SizeRangeDefaulted ==
    ASSUME NEW e, NEW d, Recorded(e), NEW min_size, NEW max_size_in, NEW inc_end \in BOOLEAN
    PROVE  set_size_range(Defaulted(e, d), min_size, max_size_in, inc_end)
             = Defaulted(set_size_range(e, min_size, max_size_in, inc_end), d)
  <1> DEFINE g == Defaulted(e, d)
             max_size == IF IsSome(max_size_in) /\ ~inc_end THEN Some(max_size_in[1] - 1) ELSE max_size_in
             low(x)  == IF IsSome(min_size) THEN set_min_size(x, min_size[1]) ELSE x
             high(x) == IF IsSome(max_size) THEN set_max_size(x, max_size[1]) ELSE x
             bad(x)  == \/ ~Sizeable(x)
                        \/ IsSome(min_size) /\ min_size[1] < 0
                        \/ IsSome(max_size) /\ max_size[1] < 0
                        \/ IsSome(min_size) /\ IsSome(max_size) /\ min_size[1] > max_size[1]
  <1>1. Sizeable(g) <=> Sizeable(e)
    BY DEF Recorded, Defaulted, Attributes, Sizeable, IsType
  <1>2. \A x : set_size_range(x, min_size, max_size_in, inc_end) = IF bad(x) THEN Failed(x) ELSE high(low(x))
    BY DEF set_size_range
  <1>3. bad(g) <=> bad(e)
    BY <1>1
  <1>4. low(g) = Defaulted(low(e), d)
    BY SizesDefaulted
  <1>5. Recorded(low(e))
    BY SizesWorked, RecordedDomain DEF Worked, Kept
  <1>6. high(Defaulted(low(e), d)) = Defaulted(high(low(e)), d)
    <2> HIDE DEF low, max_size
    <2> QED  BY <1>5, SizesDefaulted
  <1>7. Failed(g) = Defaulted(Failed(e), d)
    BY FailedDefaulted
  <1>8. g = Defaulted(e, d)
    OBVIOUS
  <1> HIDE DEF g, bad, low, high, max_size
  <1> QED  BY <1>2, <1>3, <1>4, <1>6, <1>7, <1>8

LEMMA SetSizeDefaulted ==
    ASSUME NEW e, NEW d, Recorded(e), NEW size
    PROVE  set_size(Defaulted(e, d), size) = Defaulted(set_size(e, size), d)
  <1> DEFINE g == Defaulted(e, d)
             x == Byte ^ size
             half == x \div 2
  <1>1. /\ Sizeable(g) <=> Sizeable(e)
        /\ SizeIsValid(g, size) <=> SizeIsValid(e, size)
        /\ g.type = e.type
    BY DEF Recorded, Defaulted, Attributes, Sizeable, SizeIsValid, IsType
  <1>2. Failed(g) = Defaulted(Failed(e), d)
    BY FailedDefaulted
  <1>7. set_size_range(g, Some(size), Some(size), TRUE)
             = Defaulted(set_size_range(e, Some(size), Some(size), TRUE), d)
    <2> DEFINE s == Some(size)
               inclusive == TRUE
    <2>1. inclusive \in BOOLEAN
      OBVIOUS
    <2> HIDE DEF s, inclusive
    <2>2. set_size_range(Defaulted(e, d), s, s, inclusive) = Defaulted(set_size_range(e, s, s, inclusive), d)
      BY <2>1, SizeRangeDefaulted
    <2> QED  BY <2>2 DEF s, inclusive
  <1>3. ASSUME NEW h, NEW k
        PROVE  /\ [g EXCEPT !.max_value = h] = Defaulted([e EXCEPT !.max_value = h], d)
               /\ [g EXCEPT !.max_value = h, !.min_value = k] = Defaulted([e EXCEPT !.max_value = h, !.min_value = k], d)
               /\ [g EXCEPT !.min_value = k] = Defaulted([e EXCEPT !.min_value = k], d)
    BY DEF Recorded, Defaulted, Attributes
  <1>4. ASSUME NEW f
        PROVE  /\ ~Sizeable(f) \/ ~SizeIsValid(f, size) => set_size(f, size) = Failed(f)
               /\ Sizeable(f) /\ SizeIsValid(f, size) =>
                    /\ f.type = Some("UINT") => set_size(f, size) = [f EXCEPT !.max_value = Some(x - 1)]
                    /\ f.type = Some("INT") =>
                         set_size(f, size) = [f EXCEPT !.max_value = Some(half - 1), !.min_value = Some(-half)]
                    /\ f.type = Some("NINT") => set_size(f, size) = [f EXCEPT !.min_value = Some(-half)]
                    /\ f.type \notin {Some("UINT"), Some("INT"), Some("NINT")} =>
                         set_size(f, size) = set_size_range(f, Some(size), Some(size), TRUE)
    <2>1. ~Sizeable(f) \/ ~SizeIsValid(f, size) => set_size(f, size) = Failed(f)
      BY DEF set_size
    <2> SUFFICES ASSUME Sizeable(f), SizeIsValid(f, size)
                 PROVE /\ f.type = Some("UINT") => set_size(f, size) = [f EXCEPT !.max_value = Some(x - 1)]
                       /\ f.type = Some("INT") =>
                            set_size(f, size) = [f EXCEPT !.max_value = Some(half - 1), !.min_value = Some(-half)]
                       /\ f.type = Some("NINT") => set_size(f, size) = [f EXCEPT !.min_value = Some(-half)]
                       /\ f.type \notin {Some("UINT"), Some("INT"), Some("NINT")} =>
                            set_size(f, size) = set_size_range(f, Some(size), Some(size), TRUE)
      BY <2>1
    <2>2. CASE f.type = Some("UINT")
      BY <2>2 DEF set_size, Some
    <2>3. CASE f.type = Some("INT")
      BY <2>3 DEF set_size, Some
    <2>4. CASE f.type = Some("NINT")
      BY <2>4 DEF set_size, Some
    <2>5. CASE f.type \notin {Some("UINT"), Some("INT"), Some("NINT")}
      BY <2>5 DEF set_size
    <2> QED  BY <2>2, <2>3, <2>4, <2>5
  <1>5. g = Defaulted(e, d)
    OBVIOUS
  <1> HIDE DEF g, x, half
  <1>8. set_size(g, size) = Defaulted(set_size(e, size), d)
    <2>1. CASE ~Sizeable(e) \/ ~SizeIsValid(e, size)
      BY <1>1, <1>2, <1>4, <2>1
    <2>2. CASE Sizeable(e) /\ SizeIsValid(e, size) /\ e.type = Some("UINT")
      <3>1. [g EXCEPT !.max_value = Some(x - 1)] = Defaulted([e EXCEPT !.max_value = Some(x - 1)], d)
        BY <1>3
      <3>2. set_size(g, size) = [g EXCEPT !.max_value = Some(x - 1)] /\ set_size(e, size) = [e EXCEPT !.max_value = Some(x - 1)]
        BY <1>1, <1>4, <2>2
      <3> QED  BY <3>1, <3>2, Zenon
    <2>3. CASE Sizeable(e) /\ SizeIsValid(e, size) /\ e.type = Some("INT")
      <3>1. [g EXCEPT !.max_value = Some(half - 1), !.min_value = Some(-half)] = Defaulted([e EXCEPT !.max_value = Some(half - 1), !.min_value = Some(-half)], d)
        BY <1>3
      <3>2. set_size(g, size) = [g EXCEPT !.max_value = Some(half - 1), !.min_value = Some(-half)] /\ set_size(e, size) = [e EXCEPT !.max_value = Some(half - 1), !.min_value = Some(-half)]
        BY <1>1, <1>4, <2>3
      <3> QED  BY <3>1, <3>2, Zenon
    <2>4. CASE Sizeable(e) /\ SizeIsValid(e, size) /\ e.type = Some("NINT")
      <3>1. [g EXCEPT !.min_value = Some(-half)] = Defaulted([e EXCEPT !.min_value = Some(-half)], d)
        BY <1>3
      <3>2. set_size(g, size) = [g EXCEPT !.min_value = Some(-half)] /\ set_size(e, size) = [e EXCEPT !.min_value = Some(-half)]
        BY <1>1, <1>4, <2>4
      <3> QED  BY <3>1, <3>2, Zenon
    <2>5. CASE /\ Sizeable(e) /\ SizeIsValid(e, size)
               /\ e.type \notin {Some("UINT"), Some("INT"), Some("NINT")}
      BY <1>1, <1>7, <1>4, <2>5
    <2> QED  BY <2>1, <2>2, <2>3, <2>4, <2>5
  <1> QED  BY <1>5, <1>8

LEMMA AddModifierDefaulted ==
    ASSUME NEW e, NEW d, Recorded(e), NEW m, NEW operand
    PROVE  add_modifier(Defaulted(e, d), m, operand, TRUE) = Defaulted(add_modifier(e, m, operand, TRUE), d)
  <1> DEFINE g == Defaulted(e, d)
             more == [x \in DOMAIN e.modifiers \cup {m} |-> IF x = m THEN operand ELSE e.modifiers[x]]
  <1>1. g.modifiers = e.modifiers
    BY DEF Recorded, Defaulted, Attributes
  <1>2. /\ add_modifier(e, m, operand, TRUE) =
             IF m \in DOMAIN e.modifiers THEN Failed(e) ELSE [e EXCEPT !.modifiers = more]
        /\ add_modifier(g, m, operand, TRUE) =
             IF m \in DOMAIN e.modifiers THEN Failed(g) ELSE [g EXCEPT !.modifiers = more]
    BY <1>1 DEF add_modifier
  <1>3. Failed(g) = Defaulted(Failed(e), d)
    BY FailedDefaulted
  <1> HIDE DEF more
  <1>4. [g EXCEPT !.modifiers = more] = Defaulted([e EXCEPT !.modifiers = more], d)
    BY DEF Recorded, Defaulted, Attributes
  <1> QED  BY <1>2, <1>3, <1>4, Zenon

LEMMA SetValueDefaulted ==
    ASSUME NEW e, NEW d, Recorded(e), NEW v
    PROVE  set_value(Defaulted(e, d), v) = Defaulted(set_value(e, v), d)
  <1> DEFINE noted(x)  == IF IsSome(v) THEN add_modifier(x, "value", v, TRUE) ELSE x
             valued(x) == [noted(x) EXCEPT !.value = v]
             raised(x) == set_min_value(valued(x), v[1], TRUE)
             closed(x) == set_max_value(raised(x), v[1], TRUE)
             lower(x)  == IF IsSome(v) /\ IsType(x, {"UINT", "NINT"}) THEN closed(x) ELSE valued(x)
             below(x)  == [lower(x) EXCEPT !.max_value = Some(-1)]
             g == Defaulted(e, d)
  <1>0. DOMAIN e = Attributes
    BY RecordedDomain
  <1>1. \A x : set_value(x, v) = IF IsSome(v) /\ IsSome(x.value) THEN Failed(x)
                                 ELSE IF x.type = Some("NINT") THEN below(x) ELSE lower(x)
    BY DEF set_value
  <1>2. g.value = e.value /\ g.type = e.type /\ (IsType(g, {"UINT", "NINT"}) <=> IsType(e, {"UINT", "NINT"}))
    BY DEF Recorded, Defaulted, Attributes, IsType
  <1>3. Failed(g) = Defaulted(Failed(e), d)
    BY FailedDefaulted
  <1>4. noted(g) = Defaulted(noted(e), d) /\ Recorded(noted(e))
    <2>1. "value" \notin ops
      BY DEF ops, deferred_mod_processors, Inequalities
    <2> HIDE DEF g
    <2>2. add_modifier(Defaulted(e, d), "value", v, TRUE) = Defaulted(add_modifier(e, "value", v, TRUE), d)
      BY AddModifierDefaulted
    <2>3. Recorded(add_modifier(e, "value", v, TRUE))
      BY <1>0, <2>1, AddModifierWorked DEF Worked, Kept
    <2> QED  BY <2>2, <2>3 DEF g
  <1>14. g = Defaulted(e, d)
    OBVIOUS
  <1> HIDE DEF g, noted
  <1>5. valued(g) = Defaulted(valued(e), d) /\ Recorded(valued(e))
    BY <1>4 DEF Recorded, Defaulted, Attributes
  <1> HIDE DEF valued
  <1>6. raised(g) = Defaulted(raised(e), d)
    <2>1. set_min_value(Defaulted(valued(e), d), v[1], TRUE) = Defaulted(set_min_value(valued(e), v[1], TRUE), d)
      BY <1>5, ValuesDefaulted
    <2> QED  BY <1>5, <2>1
  <1>7. Recorded(raised(e))
    BY <1>5, ValuesWorked, RecordedDomain DEF Worked, Kept
  <1> HIDE DEF raised
  <1>8. closed(g) = Defaulted(closed(e), d)
    <2>1. set_max_value(Defaulted(raised(e), d), v[1], TRUE) = Defaulted(set_max_value(raised(e), v[1], TRUE), d)
      BY <1>7, ValuesDefaulted
    <2> QED  BY <1>6, <2>1
  <1>9. Recorded(closed(e))
    BY <1>7, ValuesWorked, RecordedDomain DEF Worked, Kept
  <1> HIDE DEF closed
  <1>10. lower(g) = Defaulted(lower(e), d) /\ Recorded(lower(e))
    BY <1>2, <1>5, <1>8, <1>9
  <1> HIDE DEF lower
  <1>11. below(g) = Defaulted(below(e), d)
    BY <1>10 DEF Recorded, Defaulted, Attributes
  <1> HIDE DEF below
  <1> QED  BY <1>1, <1>2, <1>3, <1>10, <1>11, <1>14, Zenon

LEMMA ModProcessorsDefaulted ==
    ASSUME NEW e, NEW d, Recorded(e), NEW operand \in Operand,
           NEW m \in deferred_mod_processors \ {".default"}
    PROVE  mod_processors(Defaulted(e, d), m, operand) = Defaulted(mod_processors(e, m, operand), d)
  <1> DEFINE g == Defaulted(e, d)
  <1>0. /\ g.type = e.type /\ g.value = e.value
        /\ Failed(g) = Defaulted(Failed(e), d)
    BY FailedDefaulted DEF Recorded, Defaulted, Attributes
  <1>5. g = Defaulted(e, d)
    OBVIOUS
  <1> HIDE DEF g
  <1>1. CASE m \in Inequalities
    <2> DEFINE v  == operand.value[1]
               ge == m = ".ge"
               le == m = ".le"
    <2>1. IneqIsValid(g, operand) <=> IneqIsValid(e, operand)
      BY <1>0 DEF IneqIsValid, IsType
    <2>2. ASSUME NEW x
          PROVE  mod_processors(x, m, operand) =
                   IF ~IneqIsValid(x, operand) THEN Failed(x)
                   ELSE IF m \in {".gt", ".ge"} THEN set_min_value(x, v, ge)
                   ELSE set_max_value(x, v, le)
      BY <1>1 DEF mod_processors, Inequalities
    <2>4. ge \in BOOLEAN /\ le \in BOOLEAN
      OBVIOUS
    <2> HIDE DEF v, ge, le
    <2>3. /\ set_min_value(g, v, ge) = Defaulted(set_min_value(e, v, ge), d)
          /\ set_max_value(g, v, le) = Defaulted(set_max_value(e, v, le), d)
      BY <1>5, <2>4, ValuesDefaulted
    <2> QED  BY <1>0, <1>5, <2>1, <2>2, <2>3
  <1>2. CASE m = ".size"
    <2>1. ASSUME NEW x
          PROVE  mod_processors(x, m, operand) = set_size_op(x, operand)
      BY <1>2 DEF mod_processors, Inequalities
    <2> DEFINE r == operand.range[1]
               s == operand.value[1]
    <2>2. ASSUME NEW x
          PROVE  set_size_op(x, operand) =
                   IF IsSome(operand.value)
                     THEN IF operand.type = "UINT" THEN set_size(x, s) ELSE Failed(x)
                     ELSE IF IsSome(operand.range) THEN set_size_range(x, Some(r[1]), Some(r[2]), r[3])
                     ELSE Failed(x)
      BY DEF set_size_op
    <2>3. IsSome(operand.range) => r[3] \in BOOLEAN
      <3>1. IsSome(operand.range) => r \in Int \X Int \X BOOLEAN
        BY OptionIsOne DEF Operand, IsSome, None
      <3> HIDE DEF r
      <3> QED  BY <3>1
    <2> HIDE DEF r, s
    <2>4. set_size(g, s) = Defaulted(set_size(e, s), d)
      BY <1>5, SetSizeDefaulted
    <2>5. IsSome(operand.range) => set_size_range(g, Some(r[1]), Some(r[2]), r[3])
             = Defaulted(set_size_range(e, Some(r[1]), Some(r[2]), r[3]), d)
      BY <1>5, <2>3, SizeRangeDefaulted
    <2> QED  BY <1>0, <1>5, <2>1, <2>2, <2>4, <2>5, Zenon
  <1>3. CASE m = ".eq"
    <2>1. ASSUME NEW x
          PROVE  mod_processors(x, m, operand) = set_eq(x, operand)
      BY <1>3 DEF mod_processors, Inequalities
    <2>2. (IsType(g, eq_types) <=> IsType(e, eq_types)) /\ (SameType(g, operand) <=> SameType(e, operand))
      BY <1>0 DEF IsType, SameType
    <2>3. set_value(g, operand.value) = Defaulted(set_value(e, operand.value), d)
      BY <1>5, SetValueDefaulted
    <2> DEFINE good(x) == IsType(x, eq_types) /\ IsSome(operand.value) /\ SameType(x, operand)
    <2>4. ASSUME NEW x
          PROVE  set_eq(x, operand) = IF good(x) THEN set_value(x, operand.value) ELSE Failed(x)
      BY DEF set_eq
    <2>5. good(g) <=> good(e)
      BY <2>2
    <2> HIDE DEF good
    <2> QED  BY <1>0, <1>5, <2>1, <2>3, <2>4, <2>5
  <1> QED  BY <1>1, <1>2, <1>3 DEF deferred_mod_processors

LEMMA DefaultCommutes ==
    ASSUME NEW e, Recorded(e), e.error \in BOOLEAN, NEW d \in Operand,
           NEW m \in deferred_mod_processors \ {".default"}, NEW operand \in Operand
    PROVE  Same(mod_processors(mod_processors(e, m, operand), ".default", d),
                mod_processors(mod_processors(e, ".default", d), m, operand))
  <1> DEFINE f == mod_processors(e, m, operand)
             may(x) == /\ IsType(x, eq_types) /\ x.min_qty = 0 /\ x.max_qty = 1
                       /\ IsSome(d.value) /\ SameType(x, d)
  <1>1. Worked(e, f) /\ DOMAIN f = Attributes
    <2>1. m \in ops
      BY DEF ops
    <2> QED  BY <2>1, ModProcessorsWorked, RecordedDomain DEF Worked, Kept
  <1>2. ASSUME NEW x
        PROVE  mod_processors(x, ".default", d) = IF may(x) THEN Defaulted(x, d.value) ELSE Failed(x)
    BY DEF mod_processors, Inequalities, set_default, Defaulted
  <1>3. may(f) <=> may(e)
    BY <1>1 DEF Worked, SameKind, IsType, SameType
  <1> HIDE DEF may
  <1>4. CASE may(e)
    <2>1. mod_processors(Defaulted(e, d.value), m, operand) = Defaulted(f, d.value)
      BY ModProcessorsDefaulted
    <2> QED  BY <1>2, <1>3, <1>4, <2>1 DEF Same
  <1>5. CASE ~may(e)
    <2>1. /\ mod_processors(f, ".default", d) = Failed(f)
          /\ mod_processors(e, ".default", d) = Failed(e)
      BY <1>2, <1>3, <1>5
    <2>2. Failed(f).error = TRUE /\ Failed(e).error = TRUE /\ DOMAIN Failed(e) = Attributes
      BY <1>1, RecordedDomain DEF Failed, Attributes
    <2>3. mod_processors(Failed(e), m, operand).error = TRUE
      BY <2>2, ModProcessorsWorked DEF Worked, Kept, ops
    <2> QED  BY <2>1, <2>2, <2>3 DEF Same
  <1> QED  BY <1>4, <1>5

-----------------------------------------------------------------------------
(* Any two of them.                                                        *)

\* No element is bounded above by two operators, and one that is valued or
\* sized by an operator is bounded by no other.
BoundedOnce ==
    \A c \in Combos :
       /\ \A m, n \in c \cap (Upper \cup {".size", ".eq"}) : m = n
       /\ c \cap {".size", ".eq"} # {} => c \cap Lower = {}

\* No number of a text is below what an integer of CBOR can be.
NegativesFit == \A n \in Literals : n < 0 => ByteLength(n) <= MaxSize

LEMMA InequalityIs ==
    ASSUME NEW e, NEW m \in Inequalities, NEW operand
    PROVE  /\ ~IneqIsValid(e, operand) => mod_processors(e, m, operand) = Failed(e)
           /\ IneqIsValid(e, operand) /\ m \in Lower =>
                mod_processors(e, m, operand) = set_min_value(e, operand.value[1], m = ".ge")
           /\ IneqIsValid(e, operand) /\ m \in Upper =>
                mod_processors(e, m, operand) = set_max_value(e, operand.value[1], m = ".le")
  BY DEF mod_processors, Inequalities, Lower, Upper

LEMMA InequalityLeavesValid ==
    ASSUME NEW e, DOMAIN e = Attributes, NEW m \in Inequalities, NEW operand, NEW other
    PROVE  IneqIsValid(mod_processors(e, m, operand), other) <=> IneqIsValid(e, other)
  <1> DEFINE f == mod_processors(e, m, operand)
  <1>1. f \in { Failed(e), set_min_value(e, operand.value[1], m = ".ge"),
               set_max_value(e, operand.value[1], m = ".le") }
    BY DEF mod_processors, Inequalities
  <1>2. f.value = e.value
    BY <1>1, BoundsApart DEF Failed, Attributes
  <1>3. f.type = e.type
    BY ModProcessorsWorked DEF Worked, SameKind, ops, deferred_mod_processors
  <1> HIDE DEF f
  <1>4. IneqIsValid(f, other) <=> IneqIsValid(e, other)
    BY <1>2, <1>3 DEF IneqIsValid, IsType
  <1> QED  BY <1>4 DEF f

LEMMA InvalidEither ==
    ASSUME NEW e, Recorded(e), NEW m \in Inequalities, NEW n \in Inequalities, NEW o, NEW p,
           ~IneqIsValid(e, o) \/ ~IneqIsValid(e, p)
    PROVE  Same(mod_processors(mod_processors(e, m, o), n, p), mod_processors(mod_processors(e, n, p), m, o))
  <1>1. ASSUME NEW f, DOMAIN f = Attributes, NEW x \in Inequalities, NEW q
        PROVE  /\ f.error = TRUE \/ ~IneqIsValid(f, q) => mod_processors(f, x, q).error = TRUE
               /\ DOMAIN mod_processors(f, x, q) = Attributes
    <2>1. Worked(f, mod_processors(f, x, q))
      BY <1>1, ModProcessorsWorked DEF ops, deferred_mod_processors
    <2>2. Failed(f).error = TRUE /\ DOMAIN Failed(f) = Attributes
      BY <1>1 DEF Failed, Attributes
    <2>3. DOMAIN mod_processors(f, x, q) = Attributes
      <3>1. mod_processors(f, x, q) \in { Failed(f), set_min_value(f, q.value[1], x = ".ge"),
                                         set_max_value(f, q.value[1], x = ".le") }
        BY DEF mod_processors, Inequalities
      <3> QED  BY <1>1, <2>2, <3>1, ValuesLeaveModifiers
    <2>4. CASE f.error = TRUE
      BY <2>1, <2>3, <2>4 DEF Worked, Kept
    <2>5. CASE ~IneqIsValid(f, q)
      BY <1>1, <2>2, <2>5, InequalityIs
    <2> QED  BY <2>3, <2>4, <2>5
  <1>2. DOMAIN e = Attributes
    BY RecordedDomain
  <1> DEFINE a == mod_processors(e, m, o)
             b == mod_processors(e, n, p)
  <1>3. /\ DOMAIN a = Attributes /\ DOMAIN b = Attributes
        /\ ~IneqIsValid(e, o) => a.error = TRUE
        /\ ~IneqIsValid(e, p) => b.error = TRUE
    BY <1>1, <1>2
  <1>4. /\ IneqIsValid(a, p) <=> IneqIsValid(e, p)
        /\ IneqIsValid(b, o) <=> IneqIsValid(e, o)
    BY <1>2, InequalityLeavesValid
  <1> HIDE DEF a, b
  <1>5. mod_processors(a, n, p).error = TRUE /\ mod_processors(b, m, o).error = TRUE
    BY <1>1, <1>3, <1>4
  <1> QED  BY <1>5 DEF Same, a, b

\* An operand that bounds is a number, and one of the type.
LEMMA BoundIs ==
    ASSUME NEW e, ControlsSound(e), NEW m \in Controls(e) \cap Inequalities, IneqIsValid(e, e.modifiers[m])
    PROVE  \E n \in Literals : /\ e.modifiers[m] = Literal(n) /\ e.modifiers[m].value[1] = n
                               /\ e.type = Some("UINT") => n \in Nat
  <1>1. e.modifiers[m] # Vague
    BY DEF IneqIsValid, Vague, IsSome, None
  <1>2. PICK n \in Literals : e.modifiers[m] = Literal(n)
    BY <1>1 DEF ControlsSound
  <1>3. Literal(n).value[1] = n /\ Literal(n).type = NumberType(n)
    BY DEF Literal, Some
  <1>4. e.type = Some("UINT") => n \in Nat
    <2> SUFFICES ASSUME e.type = Some("UINT") PROVE n \in Nat
      OBVIOUS
    <2>1. IsType(e, {"UINT", "NINT"})
      BY DEF IsType
    <2>2. Some("UINT") = Some(NumberType(n))
      BY <1>2, <1>3, <2>1 DEF IneqIsValid
    <2>3. NumberType(n) = "UINT"
      BY <2>2 DEF Some
    <2> QED  BY <2>3, LiteralAssumption DEF NumberType
  <1> QED  BY <1>2, <1>3, <1>4

LEMMA InequalitiesCommute ==
    ASSUME OInv, NegativesFit,
           NEW m \in Controls(self) \cap Lower, NEW n \in Controls(self) \cap Inequalities, m # n
    PROVE  LET o == self.modifiers[m]   p == self.modifiers[n]
           IN  Same(mod_processors(mod_processors(self, m, o), n, p), mod_processors(mod_processors(self, n, p), m, o))
  <1> DEFINE o == self.modifiers[m]
             p == self.modifiers[n]
  <1>0. /\ Recorded(self) /\ DOMAIN self = Attributes /\ IsElement(self) /\ self.error \in BOOLEAN
        /\ ControlsSound(self) /\ m \in Inequalities
    BY RecordedDomain DEF OInv, IInv, Lower, Inequalities
  <1>1. CASE ~IneqIsValid(self, o) \/ ~IneqIsValid(self, p)
    BY <1>0, <1>1, InvalidEither
  <1>2. CASE IneqIsValid(self, o) /\ IneqIsValid(self, p)
    <2>1. PICK v \in Literals : o = Literal(v) /\ o.value[1] = v /\ (self.type = Some("UINT") => v \in Nat)
      BY <1>0, <1>2, BoundIs
    <2>2. PICK w \in Literals : p = Literal(w) /\ p.value[1] = w /\ (self.type = Some("UINT") => w \in Nat)
      BY <1>0, <1>2, BoundIs
    <2>3. v \in Int /\ w \in Int
      BY LiteralAssumption
    <2> DEFINE a  == mod_processors(self, m, o)
               b  == mod_processors(self, n, p)
               ge == m = ".ge"
               he == n = ".ge"
               le == n = ".le"
    <2>4. ge \in BOOLEAN /\ he \in BOOLEAN /\ le \in BOOLEAN
      OBVIOUS
    <2>5. IneqIsValid(a, p) /\ IneqIsValid(b, o)
      BY <1>0, <1>2, InequalityLeavesValid
    <2>6. a = set_min_value(self, v, ge) /\ mod_processors(b, m, o) = set_min_value(b, v, ge)
      <3>1. a = set_min_value(self, o.value[1], m = ".ge")
        BY <1>0, <1>2, InequalityIs
      <3>2. mod_processors(b, m, o) = set_min_value(b, o.value[1], m = ".ge")
        <4> HIDE DEF a, b, o
        <4> QED  BY <1>0, <2>5, InequalityIs
      <3> HIDE DEF a, b, o
      <3> QED  BY <2>1, <3>1, <3>2
    <2>7. CASE n \in Upper
      <3>1. b = set_max_value(self, w, le) /\ mod_processors(a, n, p) = set_max_value(a, w, le)
        <4>1. b = set_max_value(self, p.value[1], n = ".le")
          BY <1>2, <2>7, InequalityIs
        <4>2. mod_processors(a, n, p) = set_max_value(a, p.value[1], n = ".le")
          <5> HIDE DEF a, b, p
          <5> QED  BY <2>5, <2>7, InequalityIs
        <4> HIDE DEF a, b, p
        <4> QED  BY <2>2, <4>1, <4>2
      <3> HIDE DEF a, b, ge, le, he
      <3>2. /\ IsElement(self) /\ Recorded(self) /\ self.error \in BOOLEAN
            /\ v \in Int /\ w \in Int /\ ge \in BOOLEAN /\ le \in BOOLEAN
            /\ self.type = Some("UINT") => v \in Nat
        BY <1>0, <2>1, <2>3, <2>4
      <3>3. Same(set_max_value(set_min_value(self, v, ge), w, le), set_min_value(set_max_value(self, w, le), v, ge))
        BY ONLY <3>2, SidesCommute
      <3>4. Same(set_max_value(a, w, le), set_min_value(b, v, ge))
        BY ONLY <2>6, <3>1, <3>3, Zenon
      <3> QED  BY <2>6, <3>1, <3>4 DEF a, b
    <2>8. CASE n \in Lower
      <3>1. b = set_min_value(self, w, he) /\ mod_processors(a, n, p) = set_min_value(a, w, he)
        <4>1. b = set_min_value(self, p.value[1], n = ".ge")
          BY <1>2, <2>8, InequalityIs
        <4>2. mod_processors(a, n, p) = set_min_value(a, p.value[1], n = ".ge")
          <5> HIDE DEF a, b, p
          <5> QED  BY <2>5, <2>8, InequalityIs
        <4> HIDE DEF a, b, p
        <4> QED  BY <2>2, <4>1, <4>2
      <3>2. v # w
        BY <1>0, <2>1, <2>2, <2>8 DEF ControlsSound
      <3> HIDE DEF a, b, ge, le, he
      <3>3. Same(set_min_value(a, w, he), set_min_value(b, v, ge))
        <4>1. CASE v < w
          BY <1>0, <2>1, <2>2, <2>3, <2>4, <2>6, <3>1, <4>1, LowersCommute DEF NegativesFit
        <4>2. CASE w < v
          BY <1>0, <2>1, <2>2, <2>3, <2>4, <2>6, <3>1, <4>2, LowersCommute, SameTurned DEF NegativesFit
        <4> QED  BY <2>3, <3>2, <4>1, <4>2
      <3> QED  BY <2>6, <3>1, <3>3 DEF a, b
    <2> QED  BY <2>7, <2>8 DEF Inequalities, Lower, Upper
  <1> QED  BY <1>1, <1>2

LEMMA AllCommute ==
    ASSUME OInv, BoundedOnce, NegativesFit, phase = "process", NEW m \in todo, NEW n \in todo
    PROVE  Same(mod_processors(mod_processors(self, m, self.modifiers[m]), n, self.modifiers[n]),
                mod_processors(mod_processors(self, n, self.modifiers[n]), m, self.modifiers[m]))
  <1>1. /\ m \in Controls(self) /\ n \in Controls(self)
        /\ m \in deferred_mod_processors /\ n \in deferred_mod_processors
        /\ self.modifiers[m] \in Operand /\ self.modifiers[n] \in Operand
    BY DEF OInv, IInv, IsElement, Noted, Controls, ops
  <1>2. CASE m = n
    BY <1>2 DEF Same
  <1>3. CASE m # n /\ (m = ".default" \/ n = ".default")
    BY <1>1, <1>3, DefaultCommutes, SameTurned DEF OInv
  <1>4. CASE m # n /\ m # ".default" /\ n # ".default"
    <2>1. PICK c \in Combos : {m, n} \subseteq c
      BY <1>1 DEF OInv, ControlsSound
    <2>2. m \in Lower \/ n \in Lower
      BY <1>1, <1>4, <2>1 DEF BoundedOnce, deferred_mod_processors, Inequalities, Lower, Upper
    <2>3. m \in Inequalities /\ n \in Inequalities
      BY <1>1, <1>4, <2>1, <2>2 DEF BoundedOnce, deferred_mod_processors, Inequalities, Lower, Upper
    <2> QED  BY <1>1, <1>4, <2>2, <2>3, InequalitiesCommute, SameTurned
  <1> QED  BY <1>2, <1>3, <1>4

\* ModifiersCommute: process_modifiers() may take the operators of an element
\* in any order that a set of Python happens to have.  For texts that bound an
\* element above once (two bounds of the lower side may come), and whose
\* negative numbers fit an integer of CBOR.
THEOREM OperatorsCommute ==
    ASSUME BoundedOnce, NegativesFit
    PROVE  Spec => []ModifiersCommute
  <1>1. OInv => ModifiersCommute
    BY AllCommute DEF ModifiersCommute, Same
  <1> QED  BY <1>1, OrderInit, OrderNext, PTL DEF Spec

-----------------------------------------------------------------------------
(* What an element means.                                                  *)

\* The modifiers that bound an integer, and those of them that do it alone.
Fixed == {"value", "range", ".size"}
Bounding == Fixed \cup Inequalities

\* The upper bound that a type has by itself.
Base(e) == IF e.type = Some("NINT") THEN Some(-1) ELSE None

\* An element that only its type bounds.
Unbounded(e) ==
    /\ e.value = None
    /\ e.min_value = None /\ e.min_value_inclusive = TRUE
    /\ e.max_value = Base(e) /\ e.max_value_inclusive = TRUE
    /\ e.min_size = None /\ e.max_size = None

\* Nothing that a text says after the type is there yet.
Blank(e) == /\ Controls(e) = {} /\ DOMAIN e.modifiers \cap {"value", "range"} = {}
            /\ Unbounded(e)

\* An element accepts what the modifiers M ask for.
Means(e, M) ==
    \A n \in Int : OfType(e, n) => (Accepts(e, n) <=> \A m \in M : Asked(e, m, n))

\* Each bound is that of an operator among M.
Sourced(e, M) ==
    M \cap Fixed = {} =>
      /\ e.min_value = None \/ \E m \in M \cap Lower : e.min_value = e.modifiers[m].value
      /\ \/ e.max_value = Base(e) /\ e.max_value_inclusive = TRUE
         \/ \E m \in M \cap Upper : e.max_value = e.modifiers[m].value
      /\ M \cap Inequalities = {} => Unbounded(e)

\* A value is noted as it is set.
Valued(e) == IsSome(e.value) <=> "value" \in DOMAIN e.modifiers

\* An integer means what M ask for, and where its bounds come from.
Numeric(e, M) ==
    IsType(e, IntTypes) =>
      /\ Valued(e)
      /\ Means(e, M)
      /\ Sourced(e, M)

\* Before the type nothing is there, and nothing follows a range.
Meant(e, M) ==
    /\ e.type = None => Blank(e)
    /\ "range" \in DOMAIN e.modifiers => Controls(e) = {}
    /\ Numeric(e, M)

\* What is noted is what a text can give, no two bounds of the upper side are
\* the same either, and a type that is not sized by a range has no such size.
OperandsSound(e) ==
    /\ \A m \in Controls(e) : e.modifiers[m] \in Operands(m)
    /\ \A m, n \in Controls(e) \cap Upper : m # n => e.modifiers[m] # e.modifiers[n]
    /\ ".size" \in Controls(e) /\ IsSome(e.modifiers[".size"].range) => ~IsType(e, NotSizedByRange)

\* The modifiers that are noted and not applied yet.
Pending == IF phase = "parse" THEN deferred_mod_processors ELSE todo

\* The inductive invariant: what has been read and applied is what is accepted.
MInv == /\ OInv
        /\ OperandsSound(self)
        /\ phase = "done" => todo = {}
        /\ phase # "failed" => self.error = FALSE /\ Meant(self, DOMAIN self.modifiers \ Pending)

\* A text of which the theorem speaks has .size or .eq as the only operator that
\* bounds the element: set_size() overwrites a bound that was there, and set_eq()
\* leaves one that is closer than the value.
SizedAlone ==
    \A c \in Combos : \A m \in c \cap {".size", ".eq"} : c \cap (Inequalities \cup {".size", ".eq"}) = {m}

\* It has no .lt -1: a NINT ends at -1, so that set_max_value() sees no closer
\* bound in it and leaves -1 in.
NotBelowLast == (\E c \in Combos : ".lt" \in c) => -1 \notin Literals

\* No size is in 0 ... 1, whose last is 0: set_max_size() takes that for no bound.
NoSizeBelowOne == (\E c \in Combos : ".size" \in c) => << 0, 1, FALSE >> \notin Ranges

\* No range starts at a number that has fewer bytes than the field of a header
\* that it takes (three bytes take a field of four): type_and_range() raises the
\* bound to the first number that needs them all.
HeaderFits == \A r \in Ranges :
    0 <= r[1] /\ r[1] < r[2] /\ sizeof(r[1]) \in 0 .. MaxSize => Least(sizeof(r[1])) <= r[1]

\* No text sizes an integer that may be negative by a range: set_size_range()
\* stores the two sizes in it, and no bound, so that every number is accepted.
SignedNotSizedByRange == {"INT", "NINT"} \subseteq NotSizedByRange

\* Half of the values of a byte are negative.
EvenByte == Byte % 2 = 0

\* The attributes by which an element accepts a number.
SameBounds(e, f) ==
    /\ f.type = e.type /\ f.value = e.value
    /\ f.min_value = e.min_value /\ f.max_value = e.max_value
    /\ f.min_value_inclusive = e.min_value_inclusive
    /\ f.max_value_inclusive = e.max_value_inclusive

\* An element of the same bounds accepts the same, and a modifier asks for the
\* same of it.
LEMMA SameMeaning ==
    ASSUME NEW e, NEW f, SameBounds(e, f)
    PROVE  /\ \A n : Accepts(f, n) <=> Accepts(e, n)
           /\ \A n : OfType(f, n) <=> OfType(e, n)
           /\ \A m, n : f.modifiers[m] = e.modifiers[m] => (Asked(f, m, n) <=> Asked(e, m, n))
           /\ Base(f) = Base(e)
           /\ IsType(f, IntTypes) <=> IsType(e, IntTypes)
  <1> USE DEF SameBounds
  <1>1. \A n : Accepts(f, n) <=> Accepts(e, n)
    BY DEF Accepts
  <1>2. \A n : OfType(f, n) <=> OfType(e, n)
    BY DEF OfType
  <1>3. ASSUME NEW m, NEW n, f.modifiers[m] = e.modifiers[m]
        PROVE  Asked(f, m, n) <=> Asked(e, m, n)
    BY <1>3 DEF Asked
  <1>4. Base(f) = Base(e) /\ (IsType(f, IntTypes) <=> IsType(e, IntTypes))
    BY DEF Base, IsType
  <1> QED  BY <1>1, <1>2, <1>3, <1>4

LEMMA OnlyBoundingAsks ==
    ASSUME NEW e, NEW n, NEW m, m \notin Bounding
    PROVE  Asked(e, m, n)
  BY DEF Asked, Bounding, Fixed, Inequalities

\* Modifiers that bound no integer change nothing.
LEMMA StaysNumeric ==
    ASSUME NEW e, NEW f, NEW M, NEW K, SameBounds(e, f), Numeric(e, M),
           f.min_size = e.min_size, f.max_size = e.max_size,
           K \cap Bounding = M \cap Bounding,
           \A m \in M \cap Bounding : f.modifiers[m] = e.modifiers[m],
           "value" \in DOMAIN f.modifiers <=> "value" \in DOMAIN e.modifiers
    PROVE  Numeric(f, K)
  <1> SUFFICES ASSUME IsType(f, IntTypes) PROVE Numeric(f, K)
    BY DEF Numeric
  <1>1. IsType(e, IntTypes)
    BY SameMeaning
  <1>2. Valued(f)
    BY <1>1 DEF Numeric, SameBounds, Valued
  <1>3. Means(f, K)
    <2> SUFFICES ASSUME NEW n \in Int, OfType(f, n)
                 PROVE  Accepts(f, n) <=> \A m \in K : Asked(f, m, n)
      BY DEF Means
    <2>1. Accepts(e, n) <=> \A m \in M : Asked(e, m, n)
      BY <1>1, SameMeaning DEF Numeric, Means
    <2>2. (\A m \in K : Asked(f, m, n)) <=> \A m \in K \cap Bounding : Asked(f, m, n)
      BY OnlyBoundingAsks
    <2>3. (\A m \in M : Asked(e, m, n)) <=> \A m \in M \cap Bounding : Asked(e, m, n)
      BY OnlyBoundingAsks
    <2>4. \A m \in M \cap Bounding : Asked(f, m, n) <=> Asked(e, m, n)
      BY SameMeaning
    <2> QED  BY <2>1, <2>2, <2>3, <2>4, SameMeaning
  <1>4. Sourced(f, K)
    <2>1. /\ K \cap Fixed = M \cap Fixed /\ K \cap Inequalities = M \cap Inequalities
          /\ K \cap Lower = M \cap Lower /\ K \cap Upper = M \cap Upper
          /\ M \cap Lower \subseteq M \cap Bounding /\ M \cap Upper \subseteq M \cap Bounding
      BY DEF Bounding, Inequalities, Lower, Upper
    <2>2. Unbounded(e) => Unbounded(f)
      BY SameMeaning DEF Unbounded, SameBounds
    <2>3. Sourced(e, M)
      BY <1>1 DEF Numeric
    <2> QED  BY <2>1, <2>2, <2>3, SameMeaning DEF Sourced, SameBounds
  <1> QED  BY <1>2, <1>3, <1>4 DEF Numeric

\* An element that nothing bounds yet.
LEMMA UnboundedIsNumeric ==
    ASSUME NEW e, NEW M, Unbounded(e), M \cap Bounding = {}, "value" \notin DOMAIN e.modifiers
    PROVE  Numeric(e, M)
  <1>1. Means(e, M)
    <2> SUFFICES ASSUME NEW n \in Int, OfType(e, n) PROVE Accepts(e, n)
      BY OnlyBoundingAsks DEF Means
    <2>1. ~IsSome(e.value) /\ ~IsSome(e.min_value)
      BY DEF Unbounded, IsSome, None
    <2>2. CASE e.type = Some("NINT")
      <3>1. e.max_value = Some(-1)
        BY <2>2 DEF Unbounded, Base
      <3>4. Some("NINT") # Some("UINT")
        BY DEF Some
      <3>2. n < 0
        BY <2>2, <3>4 DEF OfType
      <3>3. e.max_value[1] = -1
        BY <3>1, SomeIs
      <3> QED  BY <2>1, <3>2, <3>3 DEF Accepts, Unbounded
    <2>3. CASE e.type # Some("NINT")
      BY <2>1, <2>3 DEF Unbounded, Base, Accepts, IsSome, None
    <2> QED  BY <2>2, <2>3
  <1>2. Sourced(e, M)
    BY DEF Sourced, Unbounded
  <1> QED  BY <1>1, <1>2 DEF Numeric, Valued, Unbounded, IsSome, None

\* f lets through what e let through and the bound asks for.
BoundedBelow(e, v, inclusive, f) ==
    /\ \A n \in Int : Accepts(f, n) <=> Accepts(e, n) /\ (IF inclusive THEN n >= v ELSE n > v)
    /\ f.type = e.type /\ f.value = e.value /\ f.modifiers = e.modifiers
    /\ f.max_value = e.max_value /\ f.max_value_inclusive = e.max_value_inclusive
    /\ f.min_value \in {e.min_value, Some(v)}

BoundedAbove(e, v, inclusive, f) ==
    /\ \A n \in Int : Accepts(f, n) <=> Accepts(e, n) /\ (IF inclusive THEN n <= v ELSE n < v)
    /\ f.type = e.type /\ f.value = e.value /\ f.modifiers = e.modifiers
    /\ f.min_value = e.min_value
    /\ \/ f.max_value = Some(v) /\ f.max_value_inclusive = inclusive
       \/ f.max_value = e.max_value /\ f.max_value_inclusive = e.max_value_inclusive

\* A lower bound that is not refused lets through what the element already
\* let through and the bound asks for.
LEMMA LowerMeans ==
    ASSUME NEW e, NEW f, IsElement(e), Recorded(e), NEW v \in Int, NEW inclusive \in BOOLEAN, e.error = FALSE,
           LowerIs(e, v, inclusive, f), f.error = FALSE, IsType(e, IntTypes),
           e.min_value = Some(v) => e.min_value_inclusive = inclusive
    PROVE  BoundedBelow(e, v, inclusive, f)
  <1>0. e.min_value = None \/ \E w \in Int : e.min_value = Some(w)
    BY DEF IsElement, Bounded, Opt
  <1>1. CASE Raises(e, v)
    <2>1. ~TooLong(e, v)
      BY <1>1 DEF LowerIs
    <2>2. PICK size : f = [e EXCEPT !.min_value = Some(v), !.min_value_inclusive = inclusive, !.min_size = size]
      BY <1>1, <2>1 DEF LowerIs
    <2>3. /\ f.type = e.type /\ f.value = e.value /\ f.modifiers = e.modifiers
          /\ f.max_value = e.max_value /\ f.max_value_inclusive = e.max_value_inclusive
          /\ f.min_value = Some(v) /\ f.min_value_inclusive = inclusive
      BY <2>2 DEF Recorded, Attributes
    <2>4. ASSUME NEW n \in Int
          PROVE  Accepts(f, n) <=> Accepts(e, n) /\ (IF inclusive THEN n >= v ELSE n > v)
      <3>1. IsSome(f.min_value) /\ f.min_value[1] = v
        BY <2>3, SomeIs
      <3>2. CASE e.min_value = None
        BY <2>3, <3>1, <3>2 DEF Accepts, IsSome, None
      <3>3. ASSUME NEW w \in Int, e.min_value = Some(w)
            PROVE  Accepts(f, n) <=> Accepts(e, n) /\ (IF inclusive THEN n >= v ELSE n > v)
        <4>1. IsSome(e.min_value) /\ e.min_value[1] = w
          BY <3>3, SomeIs
        <4>2. w < v
          BY <1>1, <4>1 DEF Raises
        <4> QED  BY <2>3, <3>1, <4>1, <4>2 DEF Accepts
      <3> QED  BY <1>0, <3>2, <3>3
    <2> QED  BY <2>3, <2>4 DEF BoundedBelow
  <1>2. CASE ~Raises(e, v)
    <2>1. f = e
      BY <1>2 DEF LowerIs
    <2>2. PICK w \in Int : e.min_value = Some(w)
      BY <1>0, <1>2 DEF Raises, IsSome, None
    <2>3. IsSome(e.min_value) /\ e.min_value[1] = w
      BY <2>2, SomeIs
    <2>4. w >= v
      BY <1>2, <2>3 DEF Raises
    <2>5. w = v => e.min_value_inclusive = inclusive
      BY <2>2
    <2>6. ASSUME NEW n \in Int, Accepts(e, n)
          PROVE  IF inclusive THEN n >= v ELSE n > v
      <3>1. IF e.min_value_inclusive THEN n >= w ELSE n > w
        BY <2>3, <2>6 DEF Accepts
      <3>2. CASE w = v
        BY <2>5, <3>1, <3>2
      <3> QED  BY <2>4, <3>1, <3>2
    <2> QED  BY <2>1, <2>6 DEF BoundedBelow
  <1> QED  BY <1>1, <1>2

LEMMA UpperMeans ==
    ASSUME NEW e, NEW f, IsElement(e), Recorded(e), NEW v \in Int, NEW inclusive \in BOOLEAN, e.error = FALSE,
           UpperIs(e, v, inclusive, f), f.error = FALSE, IsType(e, IntTypes),
           e.max_value = Some(v) => e.max_value_inclusive = inclusive
    PROVE  BoundedAbove(e, v, inclusive, f)
  <1>0. e.max_value = None \/ \E w \in Int : e.max_value = Some(w)
    BY DEF IsElement, Bounded, Opt
  <1>1. CASE Caps(e, v)
    <2>1. ~Overlong(e, v)
      BY <1>1 DEF UpperIs
    <2>2. PICK size : f = [e EXCEPT !.max_value = Some(v), !.max_value_inclusive = inclusive, !.max_size = size]
      BY <1>1, <2>1 DEF UpperIs
    <2>3. /\ f.type = e.type /\ f.value = e.value /\ f.modifiers = e.modifiers
          /\ f.min_value = e.min_value /\ f.min_value_inclusive = e.min_value_inclusive
          /\ f.max_value = Some(v) /\ f.max_value_inclusive = inclusive
      BY <2>2 DEF Recorded, Attributes
    <2>4. ASSUME NEW n \in Int
          PROVE  Accepts(f, n) <=> Accepts(e, n) /\ (IF inclusive THEN n <= v ELSE n < v)
      <3>1. IsSome(f.max_value) /\ f.max_value[1] = v
        BY <2>3, SomeIs
      <3>2. CASE e.max_value = None
        BY <2>3, <3>1, <3>2 DEF Accepts, IsSome, None
      <3>3. ASSUME NEW w \in Int, e.max_value = Some(w)
            PROVE  Accepts(f, n) <=> Accepts(e, n) /\ (IF inclusive THEN n <= v ELSE n < v)
        <4>1. IsSome(e.max_value) /\ e.max_value[1] = w
          BY <3>3, SomeIs
        <4>2. w > v
          BY <1>1, <4>1 DEF Caps
        <4> QED  BY <2>3, <3>1, <4>1, <4>2 DEF Accepts
      <3> QED  BY <1>0, <3>2, <3>3
    <2> QED  BY <2>3, <2>4 DEF BoundedAbove
  <1>2. CASE ~Caps(e, v)
    <2>1. f = e
      BY <1>2 DEF UpperIs
    <2>2. PICK w \in Int : e.max_value = Some(w)
      BY <1>0, <1>2 DEF Caps, IsSome, None
    <2>3. IsSome(e.max_value) /\ e.max_value[1] = w
      BY <2>2, SomeIs
    <2>4. w <= v
      BY <1>2, <2>3 DEF Caps
    <2>5. w = v => e.max_value_inclusive = inclusive
      BY <2>2
    <2>6. ASSUME NEW n \in Int, Accepts(e, n)
          PROVE  IF inclusive THEN n <= v ELSE n < v
      <3>1. IF e.max_value_inclusive THEN n <= w ELSE n < w
        BY <2>3, <2>6 DEF Accepts
      <3>2. CASE w = v
        BY <2>5, <3>1, <3>2
      <3> QED  BY <2>4, <3>1, <3>2
    <2> QED  BY <2>1, <2>6 DEF BoundedAbove
  <1> QED  BY <1>1, <1>2

LEMMA MinSizeLeavesBounds ==
    ASSUME NEW e, Recorded(e), NEW size,
           e.type = Some("UINT") /\ size \in 0 .. MaxSize =>
             \E w \in Int : e.min_value = Some(w) /\ Least(size) <= w
    PROVE  /\ SameBounds(e, set_min_size(e, size)) /\ Recorded(set_min_size(e, size))
           /\ set_min_size(e, size).modifiers = e.modifiers
  <1> DEFINE f == set_min_size(e, size)
  <1>0. DOMAIN e = Attributes
    BY RecordedDomain
  <1>1. Recorded(f)
    BY <1>0, SizesWorked DEF Worked, Kept
  <1>2. ASSUME NEW g \in {e, Failed(e), [e EXCEPT !.min_size = Some(size)]}
        PROVE  SameBounds(e, g) /\ g.modifiers = e.modifiers
    BY <1>0, <1>2 DEF SameBounds, Failed, Attributes
  <1>3. f \in {e, Failed(e), [e EXCEPT !.min_size = Some(size)]}
    <2>1. CASE ~SizeIsValid(e, size) \/ e.type # Some("UINT")
      BY <2>1 DEF set_min_size
    <2>2. CASE SizeIsValid(e, size) /\ e.type = Some("UINT")
      <3>1. IsType(e, IntTypes)
        BY <2>2 DEF IsType, IntTypes
      <3>2. PICK w \in Int : e.min_value = Some(w) /\ Least(size) <= w
        BY <2>2, <3>1 DEF SizeIsValid
      <3>3. RaiseMinValue(e, Least(size)) = e
        BY <3>2, SomeIs DEF RaiseMinValue
      <3> QED  BY <2>2, <3>3 DEF set_min_size, Least
    <2> QED  BY <2>1, <2>2
  <1> HIDE DEF f
  <1>4. SameBounds(e, f) /\ f.modifiers = e.modifiers
    BY <1>2, <1>3
  <1> QED  BY <1>1, <1>4 DEF f

LEMMA MaxSizeLeavesBounds ==
    ASSUME NEW e, Recorded(e), NEW size, e.type = Some("UINT") => e.max_value # None
    PROVE  /\ SameBounds(e, set_max_size(e, size)) /\ Recorded(set_max_size(e, size))
           /\ set_max_size(e, size).modifiers = e.modifiers
  <1> DEFINE f == set_max_size(e, size)
  <1>0. DOMAIN e = Attributes
    BY RecordedDomain
  <1>1. Recorded(f)
    BY <1>0, SizesWorked DEF Worked, Kept
  <1>2. ASSUME NEW g \in {e, Failed(e), [e EXCEPT !.max_size = Some(size)]}
        PROVE  SameBounds(e, g) /\ g.modifiers = e.modifiers
    BY <1>0, <1>2 DEF SameBounds, Failed, Attributes
  <1>3. f \in {e, Failed(e), [e EXCEPT !.max_size = Some(size)]}
    BY DEF set_max_size
  <1> HIDE DEF f
  <1>4. SameBounds(e, f) /\ f.modifiers = e.modifiers
    BY <1>2, <1>3
  <1> QED  BY <1>1, <1>4 DEF f

\* f has the bounds of e.
Aside(e, f) == SameBounds(e, f) /\ f.modifiers = e.modifiers /\ Recorded(f)

\* The bounds of an element are there, and the lower one is not below the
\* least integer of the size "low".
Narrow(e, low) ==
    e.type = Some("UINT") =>
      /\ e.max_value # None
      /\ IsSome(low) /\ low[1] \in 0 .. MaxSize =>
           \E w \in Int : e.min_value = Some(w) /\ Least(low[1]) <= w

\* Sizes change no bound of such an element.
LEMMA SizeRangeLeavesBounds ==
    ASSUME NEW e, Recorded(e), NEW low, NEW high, NEW inclusive, Narrow(e, low)
    PROVE  Aside(e, set_size_range(e, low, high, inclusive))
  <1> DEFINE last == IF IsSome(high) /\ ~inclusive THEN Some(high[1] - 1) ELSE high
             g == IF IsSome(low) THEN set_min_size(e, low[1]) ELSE e
             h == IF IsSome(last) THEN set_max_size(g, last[1]) ELSE g
             f == set_size_range(e, low, high, inclusive)
  <1>1. f \in {Failed(e), h}
    BY DEF set_size_range
  <1>2. DOMAIN e = Attributes /\ SameBounds(e, e)
    BY RecordedDomain DEF SameBounds
  <1>3. SameBounds(e, Failed(e)) /\ Failed(e).modifiers = e.modifiers /\ Recorded(Failed(e))
    BY <1>2, FailedWorked DEF SameBounds, Failed, Attributes, Worked, Kept
  <1>4. SameBounds(e, g) /\ Recorded(g) /\ g.modifiers = e.modifiers
    BY <1>2, MinSizeLeavesBounds DEF Narrow
  <1> HIDE DEF g, last
  <1>5. g.type = Some("UINT") => g.max_value # None
    BY <1>4 DEF SameBounds, Narrow
  <1>6. SameBounds(g, h) /\ Recorded(h) /\ h.modifiers = g.modifiers
    <2>1. SameBounds(g, g)
      BY DEF SameBounds
    <2> QED  BY <1>4, <1>5, <2>1, MaxSizeLeavesBounds
  <1> HIDE DEF h, f
  <1>7. SameBounds(e, h)
    BY <1>4, <1>6 DEF SameBounds
  <1>8. Aside(e, f)
    BY <1>1, <1>3, <1>4, <1>6, <1>7 DEF Aside
  <1> QED  BY <1>8 DEF f

-----------------------------------------------------------------------------
(* An inequality.                                                          *)

\* What an inequality that names v asks for.
AskedOf(m, v, n) ==
    CASE m = ".gt" -> n > v
      [] m = ".ge" -> n >= v
      [] m = ".lt" -> n < v
      [] m = ".le" -> n <= v

LEMMA InequalityAsks ==
    ASSUME NEW e, NEW m \in Inequalities, NEW v, e.modifiers[m].value[1] = v, NEW n
    PROVE  Asked(e, m, n) <=> AskedOf(m, v, n)
  BY DEF Asked, AskedOf, Inequalities

LEMMA BoundOfNumber ==
    ASSUME NEW e, ControlsSound(e), NEW m \in Controls(e) \cap Inequalities,
           NEW v, e.modifiers[m].value = Some(v)
    PROVE  e.modifiers[m] = Literal(v)
  <1>1. e.modifiers[m] # Vague
    BY DEF Vague, Some, None
  <1>2. PICK n \in Literals : e.modifiers[m] = Literal(n)
    BY <1>1 DEF ControlsSound
  <1>3. Some(n) = Some(v)
    BY <1>2 DEF Literal
  <1>4. n = v
    BY <1>3, SomeIs
  <1> QED  BY <1>2, <1>4

\* One more modifier: the element accepts what it accepted and that one asks for.
LEMMA OneMoreMeans ==
    ASSUME NEW e, NEW f, NEW M, NEW m, Means(e, M), f.type = e.type, f.modifiers = e.modifiers,
           \A n \in Int : OfType(e, n) => (Accepts(f, n) <=> Accepts(e, n) /\ Asked(e, m, n))
    PROVE  Means(f, M \cup {m})
  <1> SUFFICES ASSUME NEW n \in Int, OfType(f, n)
               PROVE  Accepts(f, n) <=> \A x \in M \cup {m} : Asked(f, x, n)
    BY DEF Means
  <1>1. OfType(e, n)
    BY DEF OfType
  <1>2. \A x : Asked(f, x, n) <=> Asked(e, x, n)
    BY DEF Asked
  <1>3. Accepts(e, n) <=> \A x \in M : Asked(e, x, n)
    BY <1>1 DEF Means
  <1> QED  BY <1>1, <1>2, <1>3

\* What holds of an element whose inequality m is next, if that goes well.
InequalityNext(e, M, m, v) ==
    /\ IsElement(e) /\ Recorded(e) /\ e.error = FALSE /\ IsType(e, IntTypes)
    /\ ControlsSound(e) /\ OperandsSound(e)
    /\ M \cap Fixed = {} /\ M \subseteq DOMAIN e.modifiers
    /\ m \in Controls(e) \cap Inequalities /\ m \notin M
    /\ v \in Int /\ e.modifiers[m] = Literal(v)
    /\ "value" \notin DOMAIN e.modifiers /\ e.value = None
    /\ Means(e, M) /\ Sourced(e, M)

LEMMA LowerNumeric ==
    ASSUME NEW e, NEW M, NEW m \in Lower, NEW v \in Int, InequalityNext(e, M, m, v),
           e.type = Some("UINT") => v \in Nat,
           set_min_value(e, v, m = ".ge").error = FALSE
    PROVE  Numeric(set_min_value(e, v, m = ".ge"), M \cup {m})
  <1> DEFINE inclusive == m = ".ge"
             f == set_min_value(e, v, inclusive)
  <1>0. /\ inclusive \in BOOLEAN /\ f.error = FALSE
        /\ inclusive <=> m = ".ge"
    OBVIOUS
  <1>1. LowerIs(e, v, inclusive, f)
    BY SetMinValueIs DEF InequalityNext
  <1>2. e.min_value # Some(v)
    <2> SUFFICES ASSUME e.min_value = Some(v) PROVE FALSE
      OBVIOUS
    <2>1. e.min_value # None
      BY DEF Some, None
    <2>2. PICK x \in M \cap Lower : e.min_value = e.modifiers[x].value
      BY <2>1 DEF InequalityNext, Sourced
    <2>3. x \in Controls(e) \cap Inequalities \cap Lower /\ m \in Controls(e) \cap Lower /\ x # m
      BY DEF InequalityNext, Controls, ops, deferred_mod_processors, Inequalities, Lower
    <2>4. e.modifiers[x] = Literal(v)
      <3>1. x \in Controls(e) \cap Inequalities /\ e.modifiers[x].value = Some(v)
        BY <2>2, <2>3
      <3>2. ControlsSound(e)
        BY DEF InequalityNext
      <3> QED  BY <3>1, <3>2, BoundOfNumber
    <2> QED  BY <2>3, <2>4 DEF InequalityNext, ControlsSound
  <1> HIDE DEF inclusive, f
  <1>3. BoundedBelow(e, v, inclusive, f)
    BY <1>0, <1>1, <1>2, LowerMeans DEF InequalityNext
  <1>4. e.modifiers[m].value = Some(v) /\ e.modifiers[m].value[1] = v
    BY SomeIs DEF InequalityNext, Literal
  <1>5. Means(f, M \cup {m})
    <2>1. ASSUME NEW n \in Int
          PROVE  Asked(e, m, n) <=> (IF inclusive THEN n >= v ELSE n > v)
      <3>1. Asked(e, m, n) <=> AskedOf(m, v, n)
        BY <1>4, InequalityAsks DEF Lower, Inequalities
      <3>2. m \in {".gt", ".ge"}
        BY DEF Lower
      <3> QED  BY <1>0, <3>1, <3>2 DEF AskedOf
    <2> QED  BY <1>3, <2>1, OneMoreMeans DEF InequalityNext, BoundedBelow
  <1>6. Sourced(f, M \cup {m})
    <2>1. /\ (M \cup {m}) \cap Inequalities # {} /\ m \in (M \cup {m}) \cap Lower
          /\ M \cap Fixed = {}
      BY DEF InequalityNext, Lower
    <2>2. /\ e.min_value = None \/ \E x \in M \cap Lower : e.min_value = e.modifiers[x].value
          /\ \/ e.max_value = Base(e) /\ e.max_value_inclusive = TRUE
             \/ \E x \in M \cap Upper : e.max_value = e.modifiers[x].value
      BY DEF InequalityNext, Sourced
    <2>3. Base(f) = Base(e)
      BY <1>3 DEF Base, BoundedBelow
    <2>4. f.min_value = None \/ \E x \in (M \cup {m}) \cap Lower : f.min_value = f.modifiers[x].value
      BY <1>3, <1>4, <2>1, <2>2 DEF BoundedBelow
    <2>5. \/ f.max_value = Base(f) /\ f.max_value_inclusive = TRUE
          \/ \E x \in (M \cup {m}) \cap Upper : f.max_value = f.modifiers[x].value
      BY <1>3, <2>2, <2>3 DEF BoundedBelow
    <2> QED  BY <2>1, <2>4, <2>5 DEF Sourced
  <1>7. Valued(f)
    BY <1>3 DEF BoundedBelow, Valued, InequalityNext, IsSome, None
  <1>8. Numeric(f, M \cup {m})
    BY <1>5, <1>6, <1>7 DEF Numeric
  <1> QED  BY <1>8 DEF f, inclusive

LEMMA UpperNumeric ==
    ASSUME NEW e, NEW M, NEW m \in Upper, NEW v \in Int, InequalityNext(e, M, m, v),
           m = ".lt" => v # -1,
           set_max_value(e, v, m = ".le").error = FALSE
    PROVE  Numeric(set_max_value(e, v, m = ".le"), M \cup {m})
  <1> DEFINE inclusive == m = ".le"
             f == set_max_value(e, v, inclusive)
  <1>0. /\ inclusive \in BOOLEAN /\ f.error = FALSE
        /\ inclusive <=> m = ".le"
    OBVIOUS
  <1>1. UpperIs(e, v, inclusive, f)
    BY SetMaxValueIs DEF InequalityNext
  <1>2. e.max_value = Some(v) => e.max_value_inclusive = inclusive
    <2> SUFFICES ASSUME e.max_value = Some(v) PROVE e.max_value_inclusive = inclusive
      OBVIOUS
    <2>1. CASE e.max_value = Base(e) /\ e.max_value_inclusive = TRUE
      <3>1. Some(v) = Some(-1)
        BY <2>1 DEF Base, Some, None
      <3>2. v = -1
        BY <3>1, SomeIs
      <3>3. inclusive = TRUE
        BY <3>2 DEF Upper
      <3> QED  BY <2>1, <3>3
    <2>2. CASE \E x \in M \cap Upper : e.max_value = e.modifiers[x].value
      <3>1. PICK x \in M \cap Upper : e.max_value = e.modifiers[x].value
        BY <2>2
      <3>2. x \in Controls(e) \cap Inequalities \cap Upper /\ m \in Controls(e) \cap Upper /\ x # m
        BY DEF InequalityNext, Controls, ops, deferred_mod_processors, Inequalities, Upper
      <3>3. e.modifiers[x] = Literal(v)
        <4>1. x \in Controls(e) \cap Inequalities /\ e.modifiers[x].value = Some(v)
          BY <3>1, <3>2
        <4>2. ControlsSound(e)
          BY DEF InequalityNext
        <4> QED  BY <4>1, <4>2, BoundOfNumber
      <3> QED  BY <3>2, <3>3 DEF InequalityNext, OperandsSound
    <2> QED  BY <2>1, <2>2 DEF InequalityNext, Sourced
  <1> HIDE DEF inclusive, f
  <1>3. BoundedAbove(e, v, inclusive, f)
    BY <1>0, <1>1, <1>2, UpperMeans DEF InequalityNext
  <1>4. e.modifiers[m].value = Some(v) /\ e.modifiers[m].value[1] = v
    BY SomeIs DEF InequalityNext, Literal
  <1>5. Means(f, M \cup {m})
    <2>1. ASSUME NEW n \in Int
          PROVE  Asked(e, m, n) <=> (IF inclusive THEN n <= v ELSE n < v)
      <3>1. Asked(e, m, n) <=> AskedOf(m, v, n)
        BY <1>4, InequalityAsks DEF Upper, Inequalities
      <3>2. m \in {".lt", ".le"}
        BY DEF Upper
      <3> QED  BY <1>0, <3>1, <3>2 DEF AskedOf
    <2> QED  BY <1>3, <2>1, OneMoreMeans DEF InequalityNext, BoundedAbove
  <1>6. Sourced(f, M \cup {m})
    <2>1. /\ (M \cup {m}) \cap Inequalities # {} /\ m \in (M \cup {m}) \cap Upper
          /\ M \cap Fixed = {}
      BY DEF InequalityNext, Upper
    <2>2. /\ e.min_value = None \/ \E x \in M \cap Lower : e.min_value = e.modifiers[x].value
          /\ \/ e.max_value = Base(e) /\ e.max_value_inclusive = TRUE
             \/ \E x \in M \cap Upper : e.max_value = e.modifiers[x].value
      BY DEF InequalityNext, Sourced
    <2>3. Base(f) = Base(e)
      BY <1>3 DEF Base, BoundedAbove
    <2>4. f.min_value = None \/ \E x \in (M \cup {m}) \cap Lower : f.min_value = f.modifiers[x].value
      BY <1>3, <2>2 DEF BoundedAbove
    <2>5. \/ f.max_value = Base(f) /\ f.max_value_inclusive = TRUE
          \/ \E x \in (M \cup {m}) \cap Upper : f.max_value = f.modifiers[x].value
      BY <1>3, <1>4, <2>1, <2>2, <2>3 DEF BoundedAbove
    <2> QED  BY <2>1, <2>4, <2>5 DEF Sourced
  <1>7. Valued(f)
    BY <1>3 DEF BoundedAbove, Valued, InequalityNext, IsSome, None
  <1>8. Numeric(f, M \cup {m})
    BY <1>5, <1>6, <1>7 DEF Numeric
  <1> QED  BY <1>8 DEF f, inclusive

\* An operator that bounds an integer by itself is the only one to bound it.
LEMMA InequalityNumeric ==
    ASSUME SizedAlone, NotBelowLast, NEW e, NEW M, NEW m \in Controls(e) \cap Inequalities,
           IsElement(e), Recorded(e), e.error = FALSE, IsType(e, IntTypes),
           ControlsSound(e), OperandsSound(e), Meant(e, M),
           M \subseteq DOMAIN e.modifiers, m \notin M,
           mod_processors(e, m, e.modifiers[m]).error = FALSE
    PROVE  Numeric(mod_processors(e, m, e.modifiers[m]), M \cup {m})
  <1> DEFINE f == mod_processors(e, m, e.modifiers[m])
  <1>1. IneqIsValid(e, e.modifiers[m])
    BY InequalityIs DEF Failed, Recorded, Attributes
  <1>2. PICK v \in Literals : /\ e.modifiers[m] = Literal(v) /\ e.modifiers[m].value[1] = v
                              /\ e.type = Some("UINT") => v \in Nat
    BY <1>1, BoundIs
  <1>3. M \cap Fixed = {} /\ "value" \notin DOMAIN e.modifiers /\ e.value = None
    <2>1. e.value = None
      BY <1>1 DEF IneqIsValid
    <2>2. "value" \notin DOMAIN e.modifiers
      BY <2>1 DEF Meant, Numeric, Valued, IsSome, None
    <2>3. "range" \notin DOMAIN e.modifiers
      BY DEF Meant
    <2>4. ".size" \notin DOMAIN e.modifiers
      <3> SUFFICES ASSUME ".size" \in DOMAIN e.modifiers PROVE FALSE
        OBVIOUS
      <3>1. ".size" \in Controls(e)
        BY DEF Controls, ops, deferred_mod_processors
      <3>2. PICK c \in Combos : {m, ".size"} \subseteq c
        BY <3>1 DEF ControlsSound
      <3>3. c \cap (Inequalities \cup {".size", ".eq"}) = {".size"}
        BY <3>2 DEF SizedAlone
      <3> QED  BY <3>2, <3>3 DEF Inequalities
    <2> QED  BY <2>1, <2>2, <2>3, <2>4 DEF Fixed
  <1>4. InequalityNext(e, M, m, v)
    BY <1>2, <1>3, LiteralAssumption DEF InequalityNext, Meant, Numeric
  <1>5. v \in Int
    BY LiteralAssumption
  <1>6. CASE m \in Lower
    <2>1. f = set_min_value(e, v, m = ".ge")
      BY <1>1, <1>2, <1>6, InequalityIs
    <2>2. set_min_value(e, v, m = ".ge").error = FALSE
      BY <2>1
    <2>3. Numeric(set_min_value(e, v, m = ".ge"), M \cup {m})
      BY <1>2, <1>4, <1>5, <1>6, <2>2, LowerNumeric
    <2> QED  BY <2>1, <2>3
  <1>7. CASE m \in Upper
    <2>1. f = set_max_value(e, v, m = ".le")
      BY <1>1, <1>2, <1>7, InequalityIs
    <2>2. set_max_value(e, v, m = ".le").error = FALSE
      BY <2>1
    <2>3. m = ".lt" => v # -1
      <3> SUFFICES ASSUME m = ".lt" PROVE v # -1
        OBVIOUS
      <3>1. \E c \in Combos : ".lt" \in c
        BY DEF ControlsSound
      <3> QED  BY <3>1 DEF NotBelowLast
    <2>4. Numeric(set_max_value(e, v, m = ".le"), M \cup {m})
      BY <1>4, <1>5, <1>7, <2>2, <2>3, UpperNumeric
    <2> QED  BY <2>1, <2>4
  <1> QED  BY <1>6, <1>7 DEF Inequalities, Lower, Upper

-----------------------------------------------------------------------------
(* A value.                                                                *)

\* A number of the type of the element.
Fits(e, v) == /\ e.type = Some("UINT") => v \in Nat
              /\ e.type = Some("NINT") => v < 0

\* No bound but, it may be, that negative numbers end at -1.
Free(e) ==
    /\ e.min_value = None /\ e.min_value_inclusive = TRUE
    /\ e.max_value \in {None, Base(e)} /\ e.max_value_inclusive = TRUE

LEMMA FreeAccepts ==
    ASSUME NEW e, Free(e), NEW n \in Int, Fits(e, n)
    PROVE  Accepts(e, n) <=> (IsSome(e.value) => n = e.value[1])
  <1>1. ~IsSome(e.min_value)
    BY DEF Free, IsSome, None
  <1>2. CASE e.max_value = None
    BY <1>1, <1>2 DEF Accepts, IsSome, None
  <1>3. CASE e.max_value = Base(e) /\ e.max_value # None
    <2>1. e.type = Some("NINT") /\ e.max_value = Some(-1)
      BY <1>3 DEF Base
    <2>2. e.max_value[1] = -1 /\ n < 0 /\ e.max_value_inclusive = TRUE
      BY <2>1, SomeIs DEF Fits, Free
    <2> QED  BY <1>1, <2>2 DEF Accepts
  <1> QED  BY <1>2, <1>3 DEF Free

LEMMA TypeFits ==
    ASSUME NEW e, NEW n \in Int
    PROVE  OfType(e, n) <=> Fits(e, n)
  <1>1. Some("UINT") # Some("NINT")
    BY DEF Some
  <1>2. CASE e.type = Some("UINT")
    BY <1>1, <1>2 DEF OfType, Fits
  <1>3. CASE e.type = Some("NINT")
    BY <1>1, <1>3 DEF OfType, Fits
  <1>4. CASE e.type # Some("UINT") /\ e.type # Some("NINT")
    BY <1>4 DEF OfType, Fits
  <1> QED  BY <1>2, <1>3, <1>4

\* f is e with both bounds at its value.
Closes(e, v, f) ==
    /\ \A n \in Int : Accepts(f, n) <=> n = v
    /\ f.type = e.type /\ f.value = e.value /\ f.modifiers = e.modifiers
    /\ f.max_value_inclusive = TRUE /\ Recorded(f)

LEMMA ClosedMeans ==
    ASSUME NEW e, NEW v \in Int, IsElement(e), Recorded(e), e.error = FALSE, IsType(e, IntTypes),
           Free(e), Fits(e, v), e.value = Some(v),
           set_max_value(set_min_value(e, v, TRUE), v, TRUE).error = FALSE
    PROVE  Closes(e, v, set_max_value(set_min_value(e, v, TRUE), v, TRUE))
  <1> DEFINE inclusive == TRUE
             g == set_min_value(e, v, inclusive)
             f == set_max_value(g, v, inclusive)
  <1>0. inclusive \in BOOLEAN /\ f.error = FALSE /\ inclusive = TRUE
    OBVIOUS
  <1> HIDE DEF inclusive
  <1>1. LowerIs(e, v, inclusive, g)
    BY SetMinValueIs DEF Fits
  <1>2. IsElement(g)
    BY <1>0, SetMinValueKeeps
  <1>3. Worked(e, g)
    BY ValuesWorked, RecordedDomain
  <1>4. Recorded(g)
    BY <1>3 DEF Worked, Kept
  <1>5. UpperIs(g, v, inclusive, f)
    BY <1>2, <1>4, SetMaxValueIs
  <1>6. Worked(g, f)
    BY <1>4, ValuesWorked, RecordedDomain
  <1>7. g.error = FALSE
    BY <1>0, <1>3, <1>6 DEF Worked, Kept
  <1> HIDE DEF g, f
  <1>8. BoundedBelow(e, v, inclusive, g)
    <2>1. e.min_value = Some(v) => e.min_value_inclusive = inclusive
      BY <1>0 DEF Free
    <2> QED  BY <1>0, <1>1, <1>7, <2>1, LowerMeans
  <1>9. IsType(g, IntTypes)
    BY <1>8 DEF IsType, BoundedBelow
  <1>10. BoundedAbove(g, v, inclusive, f)
    <2>1. g.max_value = Some(v) => g.max_value_inclusive = inclusive
      BY <1>0, <1>8 DEF Free, BoundedBelow
    <2> QED  BY <1>0, <1>2, <1>4, <1>5, <1>7, <1>9, <2>1, UpperMeans
  <1>11. f.max_value_inclusive = TRUE
    BY <1>0, <1>8, <1>10 DEF Free, BoundedBelow, BoundedAbove
  <1>12. Recorded(f)
    BY <1>4, <1>6 DEF Worked, Kept
  <1>13. ASSUME NEW n \in Int PROVE Accepts(f, n) <=> n = v
    <2>1. e.value[1] = v /\ IsSome(e.value)
      BY SomeIs
    <2>2. Accepts(e, n) => n = v
      BY <2>1 DEF Accepts
    <2>3. Accepts(e, v)
      BY <2>1, FreeAccepts
    <2>4. Accepts(f, n) <=> Accepts(e, n) /\ n >= v /\ n <= v
      BY <1>0, <1>8, <1>10 DEF BoundedBelow, BoundedAbove
    <2> QED  BY <2>2, <2>3, <2>4
  <1>14. Closes(e, v, f)
    BY <1>8, <1>10, <1>11, <1>12, <1>13 DEF Closes, BoundedBelow, BoundedAbove
  <1> QED  BY <1>14 DEF f, g, inclusive

WithValue(e, v) ==
    [x \in DOMAIN e.modifiers \cup {"value"} |-> IF x = "value" THEN Some(v) ELSE e.modifiers[x]]

\* v may become the value of e.
Settable(e, v) ==
    /\ v \in Int /\ IsElement(e) /\ Recorded(e) /\ e.error = FALSE /\ IsType(e, IntTypes)
    /\ Free(e) /\ Fits(e, v) /\ e.value = None /\ "value" \notin DOMAIN e.modifiers

LEMMA ValueMeans ==
    ASSUME NEW e, NEW v, Settable(e, v), set_value(e, Some(v)).error = FALSE
    PROVE  LET f == set_value(e, Some(v))
           IN  /\ \A n \in Int : Accepts(f, n) <=> n = v
               /\ f.type = e.type /\ f.value = Some(v) /\ f.modifiers = WithValue(e, v)
  <1> USE DEF Settable
  <1> DEFINE noted  == [e EXCEPT !.modifiers = WithValue(e, v)]
             valued == [noted EXCEPT !.value = Some(v)]
             closed == set_max_value(set_min_value(valued, v, TRUE), v, TRUE)
             lower  == IF IsType(e, {"UINT", "NINT"}) THEN closed ELSE valued
             f      == IF e.type = Some("NINT") THEN [lower EXCEPT !.max_value = Some(-1)] ELSE lower
  <1>1. add_modifier(e, "value", Some(v), TRUE) = noted
    BY DEF add_modifier, WithValue
  <1>2. IsElement(noted)
    <2>1. "value" \notin deferred_mod_processors
      BY DEF deferred_mod_processors, Inequalities
    <2> HIDE DEF noted
    <2> QED  BY <1>1, <2>1, AddModifierKeeps
  <1>3. set_value(e, Some(v)) = f
    <2>1. IsSome(Some(v)) /\ Some(v)[1] = v /\ ~IsSome(e.value)
      BY SomeIs DEF IsSome, None
    <2> QED  BY <1>1, <2>1 DEF set_value
  <1>4. Recorded(noted)
    BY DEF Recorded, Attributes
  <1>5. /\ noted.type = e.type /\ noted.modifiers = WithValue(e, v) /\ noted.error = FALSE
        /\ noted.min_value = e.min_value /\ noted.min_value_inclusive = e.min_value_inclusive
        /\ noted.max_value = e.max_value /\ noted.max_value_inclusive = e.max_value_inclusive
    BY DEF Recorded, Attributes
  <1> HIDE DEF noted
  <1>6. Recorded(valued)
    BY <1>4 DEF Recorded, Attributes
  <1>7. IsElement(valued)
    <2>1. Some(v) \in Opt(Int)
      BY SomeIsOption
    <2> QED  BY <1>2, <2>1 DEF IsElement, Attributes, Bounded, Noted
  <1>8. /\ valued.type = e.type /\ valued.modifiers = WithValue(e, v) /\ valued.error = FALSE
        /\ valued.min_value = e.min_value /\ valued.min_value_inclusive = e.min_value_inclusive
        /\ valued.max_value = e.max_value /\ valued.max_value_inclusive = e.max_value_inclusive
        /\ valued.value = Some(v)
    BY <1>4, <1>5 DEF Recorded, Attributes
  <1> HIDE DEF valued
  <1>9. Free(valued) /\ IsType(valued, IntTypes) /\ Fits(valued, v)
    BY <1>8 DEF Free, IsType, Fits, Base
  <1>10. closed.error = FALSE =>
           /\ \A n \in Int : Accepts(closed, n) <=> n = v
           /\ closed.type = e.type /\ closed.value = Some(v) /\ closed.modifiers = WithValue(e, v)
           /\ closed.max_value_inclusive = TRUE /\ Recorded(closed)
    <2> SUFFICES ASSUME closed.error = FALSE PROVE Closes(valued, v, closed)
      BY <1>8 DEF Closes
    <2> QED  BY <1>6, <1>7, <1>8, <1>9, ClosedMeans
  <1> HIDE DEF closed
  <1>11. CASE e.type = Some("INT")
    <2>1. f = valued
      BY <1>11 DEF IsType, Some
    <2>2. ASSUME NEW n \in Int PROVE Accepts(valued, n) <=> n = v
      <3>1. Fits(valued, n)
        BY <1>8, <1>11 DEF Fits, Some
      <3> QED  BY <1>8, <1>9, <3>1, SomeIs, FreeAccepts
    <2> QED  BY <1>3, <1>8, <2>1, <2>2
  <1>12. CASE e.type = Some("UINT")
    <2>1. f = closed
      BY <1>12 DEF IsType, Some
    <2> QED  BY <1>3, <1>10, <2>1
  <1>13. CASE e.type = Some("NINT")
    <2> DEFINE below == [closed EXCEPT !.max_value = Some(-1)]
    <2>1. f = below
      BY <1>13 DEF IsType
    <2>2. Worked(valued, closed)
      <3> DEFINE raised == set_min_value(valued, v, TRUE)
      <3>1. Worked(valued, raised) /\ DOMAIN raised = Attributes
        BY <1>6, RecordedDomain, ClosedBoundsWorked, ClosedBoundsLeaveModifiers
      <3>2. closed = set_max_value(raised, v, TRUE)
        BY DEF closed
      <3> HIDE DEF raised
      <3> QED  BY <3>1, <3>2, ClosedBoundsWorked, WorkedOn
    <2>3. Recorded(closed)
      BY <1>6, <2>2 DEF Worked, Kept
    <2>4. /\ below.error = closed.error /\ below.type = closed.type /\ below.value = closed.value
          /\ below.modifiers = closed.modifiers
          /\ below.min_value = closed.min_value /\ below.min_value_inclusive = closed.min_value_inclusive
          /\ below.max_value = Some(-1) /\ below.max_value_inclusive = closed.max_value_inclusive
      BY <2>3 DEF Recorded, Attributes
    <2> HIDE DEF below, f
    <2>5. closed.error = FALSE
      BY <1>3, <2>1, <2>4
    <2>6. ASSUME NEW n \in Int PROVE Accepts(below, n) <=> n = v
      <3>1. below.value[1] = v /\ IsSome(below.value)
        BY <1>10, <2>4, <2>5, SomeIs
      <3>2. Accepts(closed, v)
        BY <1>10, <2>5
      <3>3. v < 0 /\ below.max_value[1] = -1 /\ below.max_value_inclusive = TRUE
        BY <1>10, <1>13, <2>4, <2>5, SomeIs DEF Fits
      <3>4. Accepts(below, v)
        BY <2>4, <3>1, <3>2, <3>3 DEF Accepts
      <3>5. Accepts(below, n) => n = v
        BY <3>1 DEF Accepts
      <3> QED  BY <3>4, <3>5
    <2>7. \A n \in Int : Accepts(below, n) <=> n = v
      BY <2>6
    <2> QED  BY <1>3, <1>10, <2>1, <2>4, <2>5, <2>7
  <1> HIDE DEF f
  <1> QED  BY <1>11, <1>12, <1>13 DEF IsType, IntTypes

\* An element with a value accepts that one number.
LEMMA ValueNumeric ==
    ASSUME NEW e, NEW v, Settable(e, v), set_value(e, Some(v)).error = FALSE,
           NEW M, M \cap Bounding = {"value"}
    PROVE  Numeric(set_value(e, Some(v)), M)
  <1> DEFINE f == set_value(e, Some(v))
  <1>1. /\ \A n \in Int : Accepts(f, n) <=> n = v
        /\ f.type = e.type /\ f.value = Some(v) /\ f.modifiers = WithValue(e, v)
    BY ValueMeans
  <1> HIDE DEF f
  <1>2. "value" \in DOMAIN f.modifiers /\ f.modifiers["value"] = Some(v)
    BY <1>1 DEF WithValue
  <1>3. Means(f, M)
    <2>1. ASSUME NEW n \in Int PROVE Asked(f, "value", n) <=> n = v
      BY <1>2, SomeIs DEF Asked
    <2>2. ASSUME NEW n \in Int PROVE (\A m \in M : Asked(f, m, n)) <=> Asked(f, "value", n)
      BY OnlyBoundingAsks
    <2> QED  BY <1>1, <2>1, <2>2 DEF Means
  <1>4. Sourced(f, M)
    BY DEF Sourced, Bounding, Fixed
  <1>5. Valued(f)
    BY <1>1, <1>2, SomeIs DEF Valued
  <1>6. Numeric(f, M)
    BY <1>3, <1>4, <1>5 DEF Numeric
  <1> QED  BY <1>6 DEF f

-----------------------------------------------------------------------------
(* A range.                                                                *)

\* f is e with both ends of a range for bounds, and the ends are there.
Ranged(e, min, max, inclusive, f) ==
    /\ \A n \in Int : Accepts(f, n) <=>
         Accepts(e, n) /\ n >= min /\ (IF inclusive THEN n <= max ELSE n < max)
    /\ f.type = e.type /\ f.value = e.value /\ f.modifiers = e.modifiers
    /\ f.min_value = Some(min) /\ f.max_value = Some(max)
    /\ Recorded(f)

LEMMA RangedMeans ==
    ASSUME NEW e, NEW min \in Int, NEW max \in Int, NEW inclusive \in BOOLEAN,
           IsElement(e), Recorded(e), e.error = FALSE, IsType(e, IntTypes),
           e.min_value = None, e.max_value = None, e.type = Some("UINT") => min \in Nat,
           set_max_value(set_min_value(e, min, TRUE), max, inclusive).error = FALSE
    PROVE  Ranged(e, min, max, inclusive, set_max_value(set_min_value(e, min, TRUE), max, inclusive))
  <1> DEFINE closed == TRUE
             upto == inclusive
             g == set_min_value(e, min, closed)
             f == set_max_value(g, max, upto)
  <1>0. closed \in BOOLEAN /\ upto \in BOOLEAN /\ f.error = FALSE /\ closed = TRUE
    OBVIOUS
  <1> HIDE DEF closed, upto
  <1>1. LowerIs(e, min, closed, g)
    BY SetMinValueIs
  <1>2. IsElement(g)
    BY <1>0, SetMinValueKeeps
  <1>3. Worked(e, g)
    BY ValuesWorked, RecordedDomain
  <1>4. Recorded(g)
    BY <1>3 DEF Worked, Kept
  <1>5. UpperIs(g, max, upto, f)
    BY <1>2, <1>4, SetMaxValueIs
  <1>6. Worked(g, f)
    BY <1>4, ValuesWorked, RecordedDomain
  <1>7. g.error = FALSE
    BY <1>0, <1>3, <1>6 DEF Worked, Kept
  <1> HIDE DEF g, f
  <1>8. BoundedBelow(e, min, closed, g)
    <2>1. e.min_value # Some(min)
      BY DEF Some, None
    <2> QED  BY <1>0, <1>1, <1>7, <2>1, LowerMeans
  <1>9. IsType(g, IntTypes)
    BY <1>8 DEF IsType, BoundedBelow
  <1>10. BoundedAbove(g, max, upto, f)
    <2>1. g.max_value # Some(max)
      BY <1>8 DEF Some, None, BoundedBelow
    <2>2. g.max_value = Some(max) => g.max_value_inclusive = upto
      BY <2>1
    <2> QED  BY <1>0, <1>2, <1>4, <1>5, <1>7, <1>9, <2>2, UpperMeans
  <1>11. g.min_value = Some(min)
    BY <1>1 DEF LowerIs, Raises, IsSome, None
  <1>12. f.max_value = Some(max)
    BY <1>5, <1>8 DEF BoundedBelow, UpperIs, Caps, IsSome, None
  <1>13. Recorded(f)
    BY <1>4, <1>6 DEF Worked, Kept
  <1>14. Ranged(e, min, max, upto, f)
    BY <1>0, <1>8, <1>10, <1>11, <1>12, <1>13 DEF Ranged, BoundedBelow, BoundedAbove
  <1> QED  BY <1>14 DEF f, g, closed, upto

\* A range is read of an element that has no type yet.
RangeOf(e, type, min, max) ==
    /\ IsElement(e) /\ Recorded(e) /\ e.error = FALSE /\ e.type = None /\ Blank(e)
    /\ type \in IntTypes /\ min \in Int /\ max \in Int /\ min < max
    /\ type = "UINT" => min \in Nat
    /\ type = "UINT" /\ sizeof(min) \in 0 .. MaxSize => Least(sizeof(min)) <= min

RangeRead(e, type, f) ==
    /\ f.type = Some(type)
    /\ DOMAIN f.modifiers = DOMAIN e.modifiers \cup {"range"}
    /\ \A M : M \cap Bounding = {"range"} => Numeric(f, M)

\* An element with a range accepts the numbers in it.
LEMMA RangeNumeric ==
    ASSUME NEW e, NEW type, NEW min, NEW max, NEW inclusive \in BOOLEAN,
           RangeOf(e, type, min, max), type_and_range(e, type, min, max, inclusive).error = FALSE
    PROVE  RangeRead(e, type, type_and_range(e, type, min, max, inclusive))
  <1> USE DEF RangeOf
  <1> DEFINE typed   == [e EXCEPT !.type = Some(type)]
             bounded == set_max_value(set_min_value(typed, min, TRUE), max, inclusive)
             sized == IF type \in {"UINT", "INT"}
                        THEN set_size_range(bounded, Some(sizeof(min)), Some(sizeof(max)), TRUE)
                        ELSE set_size_range(bounded, Some(sizeof(-max)), Some(sizeof(-min)), TRUE)
             larger == IF sizeof(Abs(max)) > sizeof(Abs(min)) THEN sizeof(Abs(max)) ELSE sizeof(Abs(min))
             final == IF type = "INT" THEN set_size_range(sized, None, Some(larger), TRUE) ELSE sized
             f == add_modifier(final, "range", << min, max, inclusive >>, TRUE)
  <1>1. type_and_range(e, type, min, max, inclusive) = f
    <2>1. ~(min > max) /\ min # max
      OBVIOUS
    <2> QED  BY <2>1, Zenon DEF type_and_range
  <1>2. Recorded(typed)
    BY DEF Recorded, Attributes
  <1>3. IsElement(typed)
    <2>1. Some(type) \in Opt(ElementTypes)
      BY SomeIsOption DEF ElementTypes, NumberTypes
    <2> QED  BY <2>1 DEF IsElement, Attributes, Bounded, Noted
  <1>4. /\ typed.type = Some(type) /\ typed.modifiers = e.modifiers /\ typed.error = FALSE
        /\ typed.value = None /\ typed.min_value = None /\ typed.max_value = None
    <2>1. Base(e) = None
      BY DEF Base, Some, None
    <2> QED  BY <2>1 DEF Recorded, Attributes, Blank, Unbounded
  <1> HIDE DEF typed
  <1>5. IsType(typed, IntTypes) /\ (typed.type = Some("UINT") <=> type = "UINT")
    BY <1>4 DEF IsType, Some
  <1>6. Worked(typed, bounded)
    <2> DEFINE raised == set_min_value(typed, min, TRUE)
    <2>1. Worked(typed, raised) /\ DOMAIN raised = Attributes
      BY <1>2, RecordedDomain, ValuesWorked, ValuesLeaveModifiers
    <2>2. bounded = set_max_value(raised, max, inclusive)
      OBVIOUS
    <2> HIDE DEF raised, bounded
    <2> QED  BY <2>1, <2>2, ValuesWorked, WorkedOn
  <1>7. bounded.error = FALSE => Ranged(typed, min, max, inclusive, bounded)
    <2> SUFFICES ASSUME bounded.error = FALSE PROVE Ranged(typed, min, max, inclusive, bounded)
      OBVIOUS
    <2> QED  BY <1>2, <1>3, <1>4, <1>5, RangedMeans
  <1> HIDE DEF bounded
  <1>8. Recorded(bounded) /\ DOMAIN bounded = Attributes
    BY <1>2, <1>6, RecordedDomain DEF Worked, Kept
  <1>9. Worked(bounded, sized)
    BY <1>8, SizeRangeWorked
  <1>10. bounded.error = FALSE => Aside(bounded, sized)
    <2> SUFFICES ASSUME bounded.error = FALSE PROVE Aside(bounded, sized)
      OBVIOUS
    <2>1. bounded.type = typed.type /\ bounded.min_value = Some(min) /\ bounded.max_value # None
      BY <1>7 DEF Ranged, Some, None
    <2>2. CASE type = "UINT" \/ type = "INT"
      <3>1. sized = set_size_range(bounded, Some(sizeof(min)), Some(sizeof(max)), TRUE)
        BY <2>2
      <3>2. Some(sizeof(min))[1] = sizeof(min)
        BY SomeIs
      <3>3. Narrow(bounded, Some(sizeof(min)))
        BY <1>5, <2>1, <3>2 DEF Narrow
      <3> QED  BY <1>8, <3>1, <3>3, SizeRangeLeavesBounds
    <2>3. CASE type # "UINT" /\ type # "INT"
      <3>1. sized = set_size_range(bounded, Some(sizeof(-max)), Some(sizeof(-min)), TRUE)
        BY <2>3
      <3>2. Narrow(bounded, Some(sizeof(-max)))
        BY <1>5, <2>1, <2>3 DEF Narrow
      <3> QED  BY <1>8, <3>1, <3>2, SizeRangeLeavesBounds
    <2> QED  BY <2>2, <2>3
  <1> HIDE DEF sized, larger
  <1>11. Recorded(sized) /\ DOMAIN sized = Attributes
    BY <1>8, <1>9, RecordedDomain DEF Worked, Kept
  <1>12. Worked(sized, final) /\ (sized.type # Some("UINT") \/ type # "INT" => Aside(sized, final))
    <2>1. CASE type = "INT"
      <3>1. final = set_size_range(sized, None, Some(larger), TRUE)
        BY <2>1
      <3>2. Worked(sized, final)
        BY <1>11, <3>1, SizeRangeWorked
      <3>3. sized.type # Some("UINT") => Narrow(sized, None)
        BY DEF Narrow
      <3>4. sized.type # Some("UINT") => Aside(sized, final)
        BY <1>11, <3>1, <3>3, SizeRangeLeavesBounds
      <3> QED  BY <2>1, <3>2, <3>4
    <2>2. CASE type # "INT"
      <3>1. final = sized
        BY <2>2
      <3> QED  BY <1>11, <3>1, IdleWorked DEF Aside, SameBounds
    <2> QED  BY <2>1, <2>2
  <1> HIDE DEF final
  <1>13. Recorded(final) /\ DOMAIN final = Attributes
    BY <1>11, <1>12, RecordedDomain DEF Worked, Kept
  <1>14. Worked(final, f)
    <2>1. "range" \notin ops
      BY DEF ops, deferred_mod_processors, Inequalities
    <2> QED  BY <1>13, <2>1, AddModifierWorked
  <1>15. bounded.error = FALSE /\ final.error = FALSE
    BY <1>1, <1>9, <1>12, <1>14 DEF Worked, Kept
  <1>16. /\ SameBounds(bounded, final) /\ final.modifiers = e.modifiers
         /\ final.value = None /\ IsType(final, IntTypes)
    <2>1. bounded.type = typed.type /\ bounded.modifiers = e.modifiers /\ bounded.value = None
      BY <1>4, <1>7, <1>15 DEF Ranged
    <2>2. SameBounds(bounded, sized) /\ sized.modifiers = e.modifiers
      BY <1>10, <1>15, <2>1 DEF Aside
    <2>3. sized.type = Some("UINT") => type = "UINT"
      BY <1>5, <2>1, <2>2 DEF SameBounds
    <2>4. SameBounds(sized, final) /\ final.modifiers = sized.modifiers
      BY <1>12, <2>3 DEF Aside
    <2> QED  BY <1>5, <2>1, <2>2, <2>4 DEF SameBounds, IsType
  <1>17. f = [final EXCEPT !.modifiers = [x \in DOMAIN e.modifiers \cup {"range"} |->
                                            IF x = "range" THEN << min, max, inclusive >> ELSE e.modifiers[x]]]
    BY <1>16 DEF add_modifier, Blank
  <1>18. /\ SameBounds(final, f) /\ f.modifiers["range"] = << min, max, inclusive >>
         /\ DOMAIN f.modifiers = DOMAIN e.modifiers \cup {"range"}
    BY <1>13, <1>17 DEF SameBounds, Attributes
  <1> HIDE DEF f
  <1>19. SameBounds(bounded, f)
    BY <1>16, <1>18 DEF SameBounds
  <1>20. f.type = Some(type)
    BY <1>4, <1>7, <1>15, <1>19 DEF Ranged, SameBounds
  <1>21. ASSUME NEW M, M \cap Bounding = {"range"} PROVE Numeric(f, M)
    <2>1. Means(f, M)
      <3>1. ASSUME NEW n \in Int PROVE Accepts(f, n) <=> InRange(<< min, max, inclusive >>, n)
        <4>1. Accepts(f, n) <=> Accepts(bounded, n)
          BY <1>19, SameMeaning
        <4>2. Accepts(typed, n)
          BY <1>4 DEF Accepts, IsSome, None
        <4>3. Accepts(bounded, n) <=> n >= min /\ (IF inclusive THEN n <= max ELSE n < max)
          BY <1>7, <1>15, <4>2 DEF Ranged
        <4> QED  BY <4>1, <4>3 DEF InRange
      <3>2. ASSUME NEW n \in Int PROVE (\A m \in M : Asked(f, m, n)) <=> Asked(f, "range", n)
        BY <1>21, OnlyBoundingAsks
      <3>3. ASSUME NEW n \in Int PROVE Asked(f, "range", n) <=> InRange(<< min, max, inclusive >>, n)
        BY <1>18 DEF Asked
      <3> QED  BY <3>1, <3>2, <3>3 DEF Means
    <2>2. Valued(f)
      BY <1>16, <1>18 DEF Valued, SameBounds, IsSome, None, Blank
    <2>3. Sourced(f, M)
      BY <1>21 DEF Sourced, Bounding, Fixed
    <2> QED  BY <2>1, <2>2, <2>3 DEF Numeric
  <1> QED  BY <1>1, <1>18, <1>20, <1>21 DEF RangeRead

-----------------------------------------------------------------------------
(* A size.                                                                 *)

LEMMA MoreByBytes ==
    ASSUME NEW x \in Nat
    PROVE  x <= Byte * x
  <1>1. PICK more \in Nat : Byte = 1 + more
    <2>1. Byte - 1 \in Nat /\ Byte = 1 + (Byte - 1)
      BY ByteAssumption
    <2> QED  BY <2>1
  <1>2. Byte * x = x + more * x
    BY <1>1
  <1>3. more * x \in Nat
    OBVIOUS
  <1> QED  BY <1>2, <1>3

LEMMA PowersGrow ==
    ASSUME NEW j \in 0 .. MaxSize, NEW k \in 0 .. MaxSize, j <= k
    PROVE  Byte ^ j <= Byte ^ k
  <1> DEFINE T == {i \in 0 .. MaxSize : j <= i /\ ~(Byte ^ j <= Byte ^ i)}
  <1>0. MaxSize \in Nat /\ Byte ^ j \in Nat
    BY SizeAssumption, PowerAssumption
  <1> SUFFICES ASSUME T # {} PROVE FALSE
    OBVIOUS
  <1>1. T \subseteq Nat
    BY <1>0
  <1>2. PICK i \in T : \A x \in T : i <= x
    BY <1>1, LeastMember
  <1>3. i # j
    BY <1>0, <1>2
  <1>4. i - 1 \in 0 .. (MaxSize - 1) /\ j <= i - 1 /\ i - 1 \notin T
    BY <1>0, <1>2, <1>3
  <1>5. Byte ^ j <= Byte ^ (i - 1)
    BY <1>0, <1>4
  <1>6. Byte ^ ((i - 1) + 1) = Byte * Byte ^ (i - 1)
    BY <1>4, PowerSteps
  <1>7. (i - 1) + 1 = i /\ i - 1 \in 0 .. MaxSize
    BY <1>0, <1>4
  <1>8. Byte ^ (i - 1) \in Nat /\ Byte ^ i \in Nat
    BY <1>7, PowerAssumption
  <1>9. Byte ^ (i - 1) <= Byte ^ i
    BY <1>6, <1>7, <1>8, MoreByBytes
  <1>10. Byte ^ j <= Byte ^ i
    BY <1>0, <1>5, <1>8, <1>9
  <1> QED  BY <1>2, <1>10

LEMMA PowersEven ==
    ASSUME EvenByte, NEW k \in 1 .. MaxSize
    PROVE  \E half \in Nat : /\ Byte ^ k = 2 * half
                             /\ (Byte ^ k) \div 2 = half
  <1>1. PICK c \in Nat : Byte = 2 * c
    <2>1. Byte \div 2 \in Nat /\ Byte = 2 * (Byte \div 2)
      BY ByteAssumption DEF EvenByte
    <2> QED  BY <2>1
  <1>2. k - 1 \in 0 .. (MaxSize - 1) /\ (k - 1) + 1 = k /\ k - 1 \in 0 .. MaxSize
    BY SizeAssumption
  <1>3. Byte ^ (k - 1) \in Nat
    BY <1>2, PowerAssumption
  <1>4. Byte ^ k = Byte * Byte ^ (k - 1)
    BY <1>2, PowerSteps
  <1> DEFINE x == Byte ^ (k - 1)
             half == c * x
  <1>5. half \in Nat
    BY <1>3
  <1>6. (2 * c) * x = 2 * half
    BY <1>3
  <1> HIDE DEF x, half
  <1>7. Byte ^ k = 2 * half
    BY <1>1, <1>4, <1>6 DEF x
  <1>8. (2 * half) \div 2 = half
    BY <1>5
  <1> QED  BY <1>5, <1>7, <1>8

\* The numbers of some size between two: from the least of the one to the last
\* of the other.
LEMMA SizesCover ==
    ASSUME NEW low \in 0 .. MaxSize, NEW high \in 0 .. MaxSize, low <= high, NEW n \in Nat
    PROVE  Least(low) <= n /\ n < Byte ^ high <=>
             \E s \in low .. high : n < Byte ^ s /\ (s > 1 => n >= Byte ^ (s - 1))
  <1>0. MaxSize \in Nat
    BY SizeAssumption
  <1>1. ASSUME NEW s \in low .. high, n < Byte ^ s, s > 1 => n >= Byte ^ (s - 1)
        PROVE  Least(low) <= n /\ n < Byte ^ high
    <2>1. s \in 0 .. MaxSize
      BY <1>0
    <2>2. Byte ^ s <= Byte ^ high /\ Byte ^ s \in Nat /\ Byte ^ high \in Nat
      BY <2>1, PowersGrow, PowerAssumption
    <2>3. CASE low <= 1
      BY <1>1, <2>2, <2>3 DEF Least
    <2>4. CASE low > 1
      <3>1. low - 1 \in 0 .. MaxSize /\ s - 1 \in 0 .. MaxSize /\ low - 1 <= s - 1
        BY <1>0, <2>1, <2>4
      <3>2. Byte ^ (low - 1) <= Byte ^ (s - 1) /\ Byte ^ (low - 1) \in Nat /\ Byte ^ (s - 1) \in Nat
        BY <3>1, PowersGrow, PowerAssumption
      <3>3. n >= Byte ^ (s - 1)
        BY <1>1, <2>4
      <3>4. Least(low) = Byte ^ (low - 1)
        BY <2>4 DEF Least
      <3>5. Byte ^ (low - 1) <= n
        BY <3>2, <3>3
      <3> QED  BY <1>1, <2>2, <3>4, <3>5
    <2> QED  BY <2>3, <2>4
  <1>2. ASSUME Least(low) <= n, n < Byte ^ high
        PROVE  \E s \in low .. high : n < Byte ^ s /\ (s > 1 => n >= Byte ^ (s - 1))
    <2> DEFINE T == {s \in low .. high : n < Byte ^ s}
    <2>1. T \subseteq Nat /\ high \in T
      BY <1>0, <1>2
    <2>2. PICK s \in T : \A x \in T : s <= x
      BY <2>1, LeastMember
    <2>3. ASSUME s > 1 PROVE n >= Byte ^ (s - 1)
      <3>1. CASE s = low
        BY <1>2, <2>3, <3>1 DEF Least
      <3>2. CASE s # low
        <4>1. s - 1 \in low .. high /\ s - 1 \notin T /\ s - 1 \in 0 .. MaxSize
          BY <1>0, <2>2, <2>3, <3>2
        <4>2. ~(n < Byte ^ (s - 1)) /\ Byte ^ (s - 1) \in Nat
          BY <4>1, PowerAssumption
        <4> QED  BY <4>2
      <3> QED  BY <3>1, <3>2
    <2> QED  BY <2>2, <2>3
  <1> QED  BY <1>1, <1>2

LEMMA SizeAsks ==
    ASSUME NEW e, NEW k, e.modifiers[".size"].value = Some(k), NEW n
    PROVE  Asked(e, ".size", n) <=>
             IF e.type = Some("UINT") THEN n < Byte ^ k
             ELSE k > 0 /\ 2 * n < Byte ^ k /\ 2 * n >= -(Byte ^ k)
  <1>1. IsSome(e.modifiers[".size"].value) /\ e.modifiers[".size"].value[1] = k
    BY SomeIs
  <1> QED  BY <1>1 DEF Asked

LEMMA SizesAsk ==
    ASSUME NEW e, e.type = Some("UINT"), NEW r, e.modifiers[".size"].value = None,
           e.modifiers[".size"].range = Some(r), NEW n
    PROVE  Asked(e, ".size", n) <=>
             \E s \in r[1] .. r[2] : InRange(r, s) /\ n < Byte ^ s /\ (s > 1 => ~(n < Byte ^ (s - 1)))
  <1>1. /\ ~IsSome(e.modifiers[".size"].value)
        /\ IsSome(e.modifiers[".size"].range) /\ e.modifiers[".size"].range[1] = r
    BY SomeIs DEF IsSome, None
  <1> QED  BY <1>1 DEF Asked

\* An element that .size alone bounds is numeric if it accepts what that asks.
LEMMA SizedNumeric ==
    ASSUME NEW f, NEW M, M \cap Bounding = {".size"},
           f.value = None, "value" \notin DOMAIN f.modifiers,
           \A n \in Int : OfType(f, n) => (Accepts(f, n) <=> Asked(f, ".size", n))
    PROVE  Numeric(f, M)
  <1>1. Means(f, M)
    <2>1. ASSUME NEW n \in Int PROVE (\A m \in M : Asked(f, m, n)) <=> Asked(f, ".size", n)
      BY OnlyBoundingAsks
    <2> QED  BY <2>1 DEF Means
  <1>2. Sourced(f, M)
    BY DEF Sourced, Bounding, Fixed
  <1>3. Valued(f)
    BY DEF Valued, IsSome, None
  <1> QED  BY <1>1, <1>2, <1>3 DEF Numeric

\* What an element accepts that has bounds and no value.
LEMMA BothAccept ==
    ASSUME NEW e, e.value = None, NEW n \in Int, NEW x \in Int, NEW y \in Int,
           e.min_value = Some(x), e.min_value_inclusive = TRUE,
           e.max_value = Some(y), e.max_value_inclusive = TRUE
    PROVE  Accepts(e, n) <=> x <= n /\ n <= y
  <1>1. /\ IsSome(e.min_value) /\ e.min_value[1] = x
        /\ IsSome(e.max_value) /\ e.max_value[1] = y
        /\ ~IsSome(e.value)
    BY SomeIs DEF IsSome, None
  <1> QED  BY <1>1 DEF Accepts

LEMMA LastAccept ==
    ASSUME NEW e, e.value = None, NEW n \in Int, NEW y \in Int,
           e.min_value = None, e.max_value = Some(y), e.max_value_inclusive = TRUE
    PROVE  Accepts(e, n) <=> n <= y
  <1>1. /\ ~IsSome(e.min_value) /\ IsSome(e.max_value) /\ e.max_value[1] = y
        /\ ~IsSome(e.value)
    BY SomeIs DEF IsSome, None
  <1> QED  BY <1>1 DEF Accepts

\* .size with a number.
LEMMA SizeNumeric ==
    ASSUME EvenByte, NEW e, Recorded(e), Unbounded(e), IsType(e, IntTypes),
           "value" \notin DOMAIN e.modifiers, NEW k, e.modifiers[".size"].value = Some(k),
           set_size(e, k).error = FALSE, NEW M, M \cap Bounding = {".size"}
    PROVE  Numeric(set_size(e, k), M)
  <1> DEFINE power == Byte ^ k
             half  == power \div 2
             f     == set_size(e, k)
  <1>1. SizeIsValid(e, k) /\ Sizeable(e)
    <2>1. Failed(e).error = TRUE
      BY DEF Failed, Recorded, Attributes
    <2> QED  BY <2>1 DEF set_size
  <1>2. k \in 0 .. MaxSize /\ power \in Nat
    BY <1>1, PowerAssumption DEF SizeIsValid
  <1>3. k > 0 => \E x \in Nat : power = 2 * x /\ half = x
    <2> SUFFICES ASSUME k > 0 PROVE \E x \in Nat : power = 2 * x /\ half = x
      OBVIOUS
    <2>1. k \in 1 .. MaxSize
      BY <1>2, SizeAssumption
    <2> QED  BY <2>1, PowersEven
  <1>4. k = 0 => power = 1 /\ half = 0
    <2> SUFFICES ASSUME k = 0 PROVE power = 1 /\ half = 0
      OBVIOUS
    <2>1. power = 1
      BY PowerSteps
    <2> QED  BY <2>1
  <1>5. half \in Int
    BY <1>2, <1>3, <1>4, SizeAssumption
  <1>6. /\ e.type = Some("UINT") => f = [e EXCEPT !.max_value = Some(power - 1)]
        /\ e.type = Some("INT")  => f = [e EXCEPT !.max_value = Some(half - 1), !.min_value = Some(-half)]
        /\ e.type = Some("NINT") => f = [e EXCEPT !.min_value = Some(-half)]
    <2>1. Some("UINT") # Some("INT") /\ Some("UINT") # Some("NINT") /\ Some("INT") # Some("NINT")
      BY DEF Some
    <2> QED  BY <1>1, <2>1, Zenon DEF set_size
  <1>7. DOMAIN e = Attributes
    BY RecordedDomain
  <1> HIDE DEF power, half, f
  <1>8. CASE e.type = Some("UINT")
    <2>1. /\ f.type = e.type /\ f.modifiers = e.modifiers /\ f.value = None
          /\ f.min_value_inclusive = TRUE /\ f.max_value_inclusive = TRUE
          /\ f.min_value = None /\ f.max_value = Some(power - 1)
      BY <1>6, <1>8, <1>7 DEF Attributes, Unbounded
    <2>2. ASSUME NEW n \in Int PROVE Accepts(f, n) <=> Asked(f, ".size", n)
      <3>1. Asked(f, ".size", n) <=> n < power
        BY <1>8, <2>1, SizeAsks DEF power
      <3>2. Accepts(f, n) <=> n <= power - 1
        <4>1. power - 1 \in Int
          BY <1>2
        <4> QED  BY <2>1, <4>1, LastAccept
      <3> QED  BY <1>2, <3>1, <3>2
    <2> QED  BY <2>1, <2>2, SizedNumeric DEF f
  <1>9. CASE e.type = Some("INT")
    <2>1. /\ f.type = e.type /\ f.modifiers = e.modifiers /\ f.value = None
          /\ f.min_value_inclusive = TRUE /\ f.max_value_inclusive = TRUE
          /\ f.min_value = Some(-half) /\ f.max_value = Some(half - 1)
      BY <1>6, <1>9, <1>7 DEF Attributes, Unbounded
    <2>2. ASSUME NEW n \in Int PROVE Accepts(f, n) <=> Asked(f, ".size", n)
      <3>1. Asked(f, ".size", n) <=> k > 0 /\ 2 * n < power /\ 2 * n >= -power
        BY <1>9, <2>1, SizeAsks DEF power, Some
      <3>2. Accepts(f, n) <=> -half <= n /\ n <= half - 1
        <4>1. -half \in Int /\ half - 1 \in Int
          BY <1>5
        <4> QED  BY <2>1, <4>1, BothAccept
      <3> QED  BY <1>2, <1>3, <1>4, <3>1, <3>2
    <2> QED  BY <2>1, <2>2, SizedNumeric DEF f
  <1>10. CASE e.type = Some("NINT")
    <2>1. /\ f.type = e.type /\ f.modifiers = e.modifiers /\ f.value = None
          /\ f.min_value_inclusive = TRUE /\ f.max_value_inclusive = TRUE
          /\ f.min_value = Some(-half) /\ f.max_value = Some(-1)
      BY <1>6, <1>10, <1>7 DEF Attributes, Unbounded, Base
    <2>2. ASSUME NEW n \in Int, OfType(f, n) PROVE Accepts(f, n) <=> Asked(f, ".size", n)
      <3>1. Asked(f, ".size", n) <=> k > 0 /\ 2 * n < power /\ 2 * n >= -power
        BY <1>10, <2>1, SizeAsks DEF power, Some
      <3>2. Accepts(f, n) <=> -half <= n /\ n <= -1
        <4>1. -half \in Int /\ -1 \in Int
          BY <1>5
        <4> QED  BY <2>1, <4>1, BothAccept
      <3>3. n < 0
        BY <1>10, <2>1, <2>2, TypeFits DEF Fits
      <3> QED  BY <1>2, <1>3, <1>4, <3>1, <3>2, <3>3
    <2> QED  BY <2>1, <2>2, SizedNumeric DEF f
  <1> QED  BY <1>8, <1>9, <1>10 DEF IsType, IntTypes

\* f is e bounded by the least integer of one size and the last of another.
SizedBetween(e, low, high, f) ==
    /\ low \in 0 .. MaxSize /\ high \in 0 .. MaxSize
    /\ f.type = e.type /\ f.modifiers = e.modifiers /\ f.value = None
    /\ f.min_value = Some(Least(low)) /\ f.min_value_inclusive = TRUE
    /\ f.max_value = Some(Byte ^ high - 1) /\ f.max_value_inclusive = TRUE

\* What the sizes of a range make of an integer without a sign.
LEMMA SizesBound ==
    ASSUME NEW e, Recorded(e), Unbounded(e), e.type = Some("UINT"), e.error = FALSE,
           NEW low \in Int, NEW high \in Int, high # 0,
           set_max_size(set_min_size(e, low), high).error = FALSE
    PROVE  SizedBetween(e, low, high, set_max_size(set_min_size(e, low), high))
  <1> DEFINE g == set_min_size(e, low)
             f == set_max_size(g, high)
             raised == [e EXCEPT !.min_value = Some(Least(low)), !.min_value_inclusive = TRUE]
  <1>0. IsType(e, IntTypes) /\ DOMAIN e = Attributes
    BY RecordedDomain DEF IsType, IntTypes
  <1>1. Worked(e, g) /\ DOMAIN g = Attributes
    BY <1>0, SizesWorked, SizesLeaveModifiers
  <1>2. Worked(g, f)
    BY <1>1, SizesWorked
  <1>3. g.error = FALSE
    BY <1>1, <1>2 DEF Worked, Kept
  <1>4. SizeIsValid(e, low)
    <2>1. Failed(e).error = TRUE
      BY <1>0 DEF Failed, Attributes
    <2> QED  BY <1>3, <2>1 DEF set_min_size
  <1>5. low \in 0 .. MaxSize
    BY <1>0, <1>4 DEF SizeIsValid
  <1>6. g = [raised EXCEPT !.min_size = Some(low)]
    <2>1. ~IsSome(e.min_size) /\ ~IsSome(e.min_value)
      BY DEF Unbounded, IsSome, None
    <2>2. RaiseMinValue(e, Least(low)) = raised
      BY <2>1 DEF RaiseMinValue
    <2> HIDE DEF raised
    <2> QED  BY <1>4, <2>1, <2>2 DEF set_min_size, Least
  <1>7. /\ Recorded(g) /\ g.type = e.type /\ g.modifiers = e.modifiers /\ g.value = None
        /\ g.min_value = Some(Least(low)) /\ g.min_value_inclusive = TRUE
        /\ g.max_value = None /\ g.max_size = None
    <2>1. Base(e) = None
      BY DEF Base, Some, None
    <2> HIDE DEF g
    <2> QED  BY <1>6, <2>1 DEF Recorded, Attributes, Unbounded
  <1> HIDE DEF g, raised
  <1>8. SizeIsValid(g, high)
    <2>1. Failed(g).error = TRUE
      BY <1>7 DEF Failed, Recorded, Attributes
    <2>2. ~IsSome(g.max_size)
      BY <1>7 DEF IsSome, None
    <2> QED  BY <2>1, <2>2 DEF set_max_size, g
  <1>9. high \in 0 .. MaxSize
    BY <1>0, <1>7, <1>8 DEF SizeIsValid, IsType
  <1> DEFINE capped == [g EXCEPT !.max_value = Some(Byte ^ high - 1), !.max_value_inclusive = TRUE]
  <1>10. f = [capped EXCEPT !.max_size = Some(high)]
    <2>1. ~IsSome(g.max_size)
      BY <1>7 DEF IsSome, None
    <2> QED  BY <1>7, <1>8, <2>1 DEF set_max_size
  <1>11. /\ f.type = e.type /\ f.modifiers = e.modifiers /\ f.value = None
         /\ f.min_value = Some(Least(low)) /\ f.min_value_inclusive = TRUE
         /\ f.max_value = Some(Byte ^ high - 1) /\ f.max_value_inclusive = TRUE
    <2> HIDE DEF f
    <2> QED  BY <1>7, <1>10 DEF Recorded, Attributes
  <1> HIDE DEF f
  <1>12. SizedBetween(e, low, high, f)
    BY <1>5, <1>9, <1>11 DEF SizedBetween
  <1> QED  BY <1>12 DEF f, g

LEMMA SizeRangeNumeric ==
    ASSUME NEW e, Recorded(e), Unbounded(e), e.type = Some("UINT"), e.error = FALSE,
           "value" \notin DOMAIN e.modifiers,
           NEW low \in Int, NEW high \in Int, NEW inclusive \in BOOLEAN, low < high,
           inclusive \/ high # 1 \/ low # 0,
           e.modifiers[".size"].value = None,
           e.modifiers[".size"].range = Some(<< low, high, inclusive >>),
           set_size_range(e, Some(low), Some(high), inclusive).error = FALSE,
           NEW M, M \cap Bounding = {".size"}
    PROVE  Numeric(set_size_range(e, Some(low), Some(high), inclusive), M)
  <1> DEFINE f == set_size_range(e, Some(low), Some(high), inclusive)
             last == IF inclusive THEN high ELSE high - 1
             r == << low, high, inclusive >>
  <1>1. last \in Int /\ low >= 0 /\ low <= last
        /\ f = set_max_size(set_min_size(e, low), last)
    <2>1. Failed(e).error = TRUE
      BY DEF Failed, Recorded, Attributes
    <2>2. IsSome(Some(low)) /\ Some(low)[1] = low /\ IsSome(Some(high)) /\ Some(high)[1] = high
      BY SomeIs
    <2> DEFINE upto == IF IsSome(Some(high)) /\ ~inclusive THEN Some(Some(high)[1] - 1) ELSE Some(high)
    <2>3. upto = Some(last)
      BY <2>2
    <2>4. IsSome(upto) /\ upto[1] = last
      BY <2>3, SomeIs
    <2>5. \/ f = Failed(e) /\ \/ ~Sizeable(e) \/ low < 0 \/ last < 0 \/ low > last
          \/ /\ f = set_max_size(set_min_size(e, low), last)
             /\ ~(low < 0) /\ ~(low > last)
      <3> HIDE DEF last
      <3> QED  BY <2>2, <2>4, Zenon DEF set_size_range
    <2> QED  BY <2>1, <2>5
  <1>2. last # 0
    BY <1>1
  <1>3. SizedBetween(e, low, last, f)
    <2> HIDE DEF last, f
    <2>1. set_max_size(set_min_size(e, low), last).error = FALSE
      BY <1>1 DEF f
    <2> QED  BY <1>1, <1>2, <2>1, SizesBound
  <1> HIDE DEF f, last
  <1>4. ASSUME NEW n \in Int, OfType(f, n) PROVE Accepts(f, n) <=> Asked(f, ".size", n)
    <2> DEFINE first == Least(low)
               top   == Byte ^ last - 1
    <2>1. n \in Nat
      BY <1>3, <1>4, TypeFits DEF Fits, SizedBetween
    <2>2. Byte ^ last \in Nat /\ first \in Int /\ top \in Int
      BY <1>3, PowerAssumption, LeastIsNat DEF SizedBetween
    <2>3. Accepts(f, n) <=> first <= n /\ n < Byte ^ last
      <3>1. /\ f.value = None
            /\ f.min_value = Some(first) /\ f.min_value_inclusive = TRUE
            /\ f.max_value = Some(top) /\ f.max_value_inclusive = TRUE
        BY <1>3 DEF SizedBetween
      <3> HIDE DEF first, top
      <3>2. Accepts(f, n) <=> first <= n /\ n <= top
        BY <2>2, <3>1, BothAccept
      <3> QED  BY <2>1, <2>2, <3>2 DEF top
    <2>4. \A s \in Int : s \in low .. high /\ InRange(r, s) <=> s \in low .. last
      BY DEF InRange, last
    <2>5. Asked(f, ".size", n) <=>
            \E s \in low .. high : InRange(r, s) /\ n < Byte ^ s /\ (s > 1 => ~(n < Byte ^ (s - 1)))
      <3>1. /\ f.modifiers[".size"].value = None /\ f.modifiers[".size"].range = Some(r)
            /\ f.type = Some("UINT")
        BY <1>3 DEF SizedBetween
      <3>2. r[1] = low /\ r[2] = high
        OBVIOUS
      <3> HIDE DEF r
      <3> QED  BY <3>1, <3>2, SizesAsk
    <2>6. low \in 0 .. MaxSize /\ last \in 0 .. MaxSize /\ MaxSize \in Nat
      BY <1>3, SizeAssumption DEF SizedBetween
    <2>7. \A s \in low .. last : s > 1 => (~(n < Byte ^ (s - 1)) <=> n >= Byte ^ (s - 1))
      <3>1. \A s \in low .. last : s > 1 => Byte ^ (s - 1) \in Nat
        BY <2>6, PowerAssumption
      <3> QED  BY <2>1, <3>1
    <2>8. Asked(f, ".size", n) <=>
            \E s \in low .. last : n < Byte ^ s /\ (s > 1 => n >= Byte ^ (s - 1))
      BY <2>4, <2>5, <2>7
    <2> QED  BY <1>1, <2>1, <2>3, <2>6, <2>8, SizesCover
  <1>5. "value" \notin DOMAIN f.modifiers /\ f.value = None
    BY <1>3 DEF SizedBetween
  <1>6. Numeric(f, M)
    BY <1>4, <1>5, SizedNumeric
  <1> QED  BY <1>6 DEF f

-----------------------------------------------------------------------------
(* One turn of process_modifiers().                                        *)

\* What holds of an element before the turn of m, when M are those that had theirs.
Turn(e, M, m) ==
    /\ IsElement(e) /\ Recorded(e) /\ e.error = FALSE /\ IsType(e, IntTypes)
    /\ ControlsSound(e) /\ OperandsSound(e) /\ Meant(e, M)
    /\ M \subseteq DOMAIN e.modifiers /\ m \in Controls(e) /\ m \notin M

LEMMA AloneUnbounded ==
    ASSUME SizedAlone, NEW e, NEW M, NEW m \in {".size", ".eq"}, Turn(e, M, m), e.value = None
    PROVE  /\ Unbounded(e) /\ M \cap Bounding = {}
           /\ "value" \notin DOMAIN e.modifiers
  <1>1. "value" \notin DOMAIN e.modifiers /\ "range" \notin DOMAIN e.modifiers
    BY DEF Turn, Meant, Numeric, Valued, IsSome, None
  <1>2. ASSUME NEW x \in M, x \in Inequalities \cup {".size"} PROVE FALSE
    <2>1. x \in Controls(e) /\ x # m
      BY <1>2 DEF Turn, Controls, ops, deferred_mod_processors
    <2>2. PICK c \in Combos : {x, m} \subseteq c
      BY <2>1 DEF Turn, ControlsSound
    <2>3. c \cap (Inequalities \cup {".size", ".eq"}) = {m}
      BY <2>2 DEF SizedAlone
    <2> QED  BY <1>2, <2>1, <2>2, <2>3
  <1>3. M \cap Bounding = {} /\ M \cap Fixed = {} /\ M \cap Inequalities = {}
    BY <1>1, <1>2 DEF Turn, Bounding, Fixed
  <1> QED  BY <1>1, <1>3 DEF Turn, Meant, Numeric, Sourced

LEMMA SizeTurn ==
    ASSUME SizedAlone, NoSizeBelowOne, SignedNotSizedByRange, EvenByte, NEW e, NEW M, Turn(e, M, ".size"),
           mod_processors(e, ".size", e.modifiers[".size"]).error = FALSE
    PROVE  /\ Numeric(mod_processors(e, ".size", e.modifiers[".size"]), M \cup {".size"})
           /\ mod_processors(e, ".size", e.modifiers[".size"]).modifiers = e.modifiers
  <1> DEFINE operand == e.modifiers[".size"]
             f == mod_processors(e, ".size", operand)
  <1>0. Failed(e).error = TRUE /\ DOMAIN e = Attributes
    BY RecordedDomain DEF Failed, Recorded, Attributes, Turn
  <1>1. f = set_size_op(e, operand)
    BY DEF mod_processors, Inequalities
  <1>2. operand \in Operands(".size")
    BY DEF Turn, OperandsSound
  <1>3. ASSUME e.value = None PROVE (M \cup {".size"}) \cap Bounding = {".size"}
    BY <1>3, AloneUnbounded DEF Bounding, Fixed
  <1>4. ASSUME NEW k \in Literals, operand = Literal(k)
        PROVE  Numeric(f, M \cup {".size"}) /\ f.modifiers = e.modifiers
    <2>1. operand.value = Some(k) /\ IsSome(operand.value) /\ operand.value[1] = k
      BY <1>4, SomeIs DEF Literal
    <2> HIDE DEF operand, f
    <2>2. f = set_size(e, k)
      BY <1>0, <1>1, <2>1 DEF set_size_op, f, operand
    <2>3. set_size(e, k).error = FALSE
      BY <2>2 DEF f, operand
    <2>4. e.value = None
      <3>1. Sizeable(e)
        BY <1>0, <2>3 DEF set_size
      <3>2. e.type # Some("FLOAT")
        BY DEF Turn, IsType, IntTypes, Some
      <3> QED  BY <3>1, <3>2 DEF Sizeable
    <2>5. Unbounded(e) /\ "value" \notin DOMAIN e.modifiers
      BY <2>4, AloneUnbounded
    <2>6. Numeric(set_size(e, k), M \cup {".size"})
      BY <1>3, <2>1, <2>3, <2>4, <2>5, SizeNumeric DEF Turn, operand
    <2> QED  BY <1>0, <2>2, <2>6, SetSizeLeavesModifiers
  <1>5. ASSUME NEW r \in Ranges, r[1] < r[2], operand = Range(r)
        PROVE  Numeric(f, M \cup {".size"}) /\ f.modifiers = e.modifiers
    <2> DEFINE low == r[1]
               high == r[2]
               inclusive == r[3]
    <2>1. /\ low \in Int /\ high \in Int /\ inclusive \in BOOLEAN /\ low < high
          /\ r = << low, high, inclusive >>
      BY <1>5, LiteralAssumption
    <2>2. operand.value = None /\ operand.range = Some(r) /\ ~IsSome(operand.value)
          /\ IsSome(operand.range) /\ operand.range[1] = r
      BY <1>5, SomeIs DEF Range, IsSome, None
    <2>3. inclusive \/ high # 1 \/ low # 0
      <3>1. \E c \in Combos : ".size" \in c
        BY DEF Turn, ControlsSound
      <3>2. << 0, 1, FALSE >> \notin Ranges
        BY <3>1 DEF NoSizeBelowOne
      <3> QED  BY <2>1, <3>2
    <2>4. f = set_size_range(e, Some(low), Some(high), inclusive)
      BY <1>1, <2>2 DEF set_size_op
    <2> HIDE DEF low, high, inclusive, operand
    <2>5. set_size_range(e, Some(low), Some(high), inclusive).error = FALSE
      BY <2>4 DEF operand
    <2> HIDE DEF f
    <2>6. e.value = None
      <3>1. Sizeable(e)
        BY <1>0, <2>5 DEF set_size_range
      <3>2. e.type # Some("FLOAT")
        BY DEF Turn, IsType, IntTypes, Some
      <3> QED  BY <3>1, <3>2 DEF Sizeable
    <2>7. Unbounded(e) /\ "value" \notin DOMAIN e.modifiers
      BY <2>6, AloneUnbounded
    <2>8. e.modifiers[".size"].value = None /\ e.modifiers[".size"].range = Some(<< low, high, inclusive >>)
      BY <2>1, <2>2 DEF operand
    <2>9. e.type = Some("UINT")
      <3>1. ~IsType(e, NotSizedByRange)
        BY <2>2 DEF Turn, OperandsSound, operand
      <3>2. ~IsType(e, {"INT", "NINT"})
        BY <3>1 DEF IsType, SignedNotSizedByRange
      <3> QED  BY <3>2 DEF Turn, IsType, IntTypes
    <2>10. Numeric(set_size_range(e, Some(low), Some(high), inclusive), M \cup {".size"})
      BY <1>3, <2>1, <2>3, <2>5, <2>6, <2>7, <2>8, <2>9, SizeRangeNumeric DEF Turn
    <2> QED  BY <1>0, <2>4, <2>10, SizeRangeLeavesModifiers
  <1>6. \/ \E k \in Literals : operand = Literal(k)
        \/ \E r \in Ranges : r[1] < r[2] /\ operand = Range(r)
    BY <1>2 DEF Operands
  <1> QED  BY <1>4, <1>5, <1>6

LEMMA EqualTurn ==
    ASSUME SizedAlone, NEW e, NEW M, Turn(e, M, ".eq"),
           mod_processors(e, ".eq", e.modifiers[".eq"]).error = FALSE
    PROVE  LET f == mod_processors(e, ".eq", e.modifiers[".eq"])
           IN  /\ Numeric(f, M \cup {".eq", "value"})
               /\ DOMAIN f.modifiers = DOMAIN e.modifiers \cup {"value"}
               /\ "value" \notin DOMAIN e.modifiers
  <1> DEFINE operand == e.modifiers[".eq"]
             f == mod_processors(e, ".eq", operand)
  <1>0. Failed(e).error = TRUE /\ DOMAIN e = Attributes
    BY RecordedDomain DEF Failed, Recorded, Attributes, Turn
  <1>1. f = set_eq(e, operand)
    BY DEF mod_processors, Inequalities
  <1>2. IsSome(operand.value) /\ SameType(e, operand) /\ f = set_value(e, operand.value)
    BY <1>0, <1>1 DEF set_eq
  <1>3. PICK v \in Literals : operand = Literal(v)
    <2>1. operand \in Operands(".eq")
      BY DEF Turn, OperandsSound
    <2>2. operand # Vague
      BY <1>2 DEF Vague, IsSome, None
    <2> QED  BY <2>1, <2>2 DEF Operands, Inequalities
  <1>4. operand.value = Some(v) /\ operand.type = NumberType(v) /\ v \in Int
    BY <1>3, LiteralAssumption DEF Literal
  <1> HIDE DEF operand
  <1>5. set_value(e, Some(v)).error = FALSE /\ f = set_value(e, Some(v))
    BY <1>2, <1>4 DEF operand
  <1> HIDE DEF f
  <1>6. e.value = None
    <2>1. ~IsSome(e.value)
      <3>1. IsSome(Some(v))
        BY SomeIs
      <3> QED  BY <1>0, <1>5, <3>1 DEF set_value
    <2> QED  BY <2>1 DEF IsSome, None
  <1>7. Unbounded(e) /\ M \cap Bounding = {} /\ "value" \notin DOMAIN e.modifiers
    BY <1>6, AloneUnbounded
  <1>8. Free(e)
    BY <1>7 DEF Unbounded, Free
  <1>9. Fits(e, v)
    <2>1. e.type = Some("UINT") => NumberType(v) = "UINT"
      BY <1>2, <1>4 DEF SameType, Some
    <2>2. e.type = Some("NINT") => NumberType(v) = "NINT"
      BY <1>2, <1>4 DEF SameType, Some
    <2> QED  BY <1>4, <2>1, <2>2 DEF Fits, NumberType
  <1>10. (M \cup {".eq", "value"}) \cap Bounding = {"value"}
    BY <1>7 DEF Bounding, Fixed, Inequalities
  <1>11. Settable(e, v)
    BY <1>4, <1>6, <1>7, <1>8, <1>9 DEF Settable, Turn
  <1>12. Numeric(f, M \cup {".eq", "value"})
    BY <1>5, <1>10, <1>11, ValueNumeric
  <1>13. f.modifiers = WithValue(e, v)
    BY <1>5, <1>11, ValueMeans
  <1>14. DOMAIN f.modifiers = DOMAIN e.modifiers \cup {"value"}
    BY <1>13 DEF WithValue
  <1> QED  BY <1>7, <1>12, <1>14 DEF f, operand

LEMMA InequalityTurn ==
    ASSUME SizedAlone, NotBelowLast, NEW e, NEW M, NEW m \in Inequalities, Turn(e, M, m),
           mod_processors(e, m, e.modifiers[m]).error = FALSE
    PROVE  /\ Numeric(mod_processors(e, m, e.modifiers[m]), M \cup {m})
           /\ mod_processors(e, m, e.modifiers[m]).modifiers = e.modifiers
  <1> DEFINE f == mod_processors(e, m, e.modifiers[m])
  <1>1. Numeric(f, M \cup {m})
    BY InequalityNumeric DEF Turn
  <1>2. f \in { Failed(e), set_min_value(e, e.modifiers[m].value[1], m = ".ge"),
               set_max_value(e, e.modifiers[m].value[1], m = ".le") }
    BY DEF mod_processors, Inequalities
  <1>3. DOMAIN e = Attributes
    BY RecordedDomain DEF Turn
  <1> HIDE DEF f
  <1>4. f.modifiers = e.modifiers
    BY <1>2, <1>3, ValuesLeaveModifiers DEF Failed, Attributes
  <1> QED  BY <1>1, <1>4 DEF f

LEMMA DefaultTurn ==
    ASSUME NEW e, NEW M, Turn(e, M, ".default"),
           mod_processors(e, ".default", e.modifiers[".default"]).error = FALSE
    PROVE  /\ Numeric(mod_processors(e, ".default", e.modifiers[".default"]), M \cup {".default"})
           /\ mod_processors(e, ".default", e.modifiers[".default"]).modifiers = e.modifiers
  <1> DEFINE operand == e.modifiers[".default"]
             f == mod_processors(e, ".default", operand)
  <1>1. f \in {Failed(e), [e EXCEPT !.default = operand.value]}
    BY DEF mod_processors, Inequalities, set_default
  <1>2. DOMAIN e = Attributes
    BY RecordedDomain DEF Turn
  <1>3. Failed(e).error = TRUE
    BY <1>2 DEF Failed, Attributes
  <1> HIDE DEF f, operand
  <1>4. f = [e EXCEPT !.default = operand.value]
    BY <1>1, <1>3 DEF f, operand
  <1>5. /\ SameBounds(e, f) /\ f.min_size = e.min_size /\ f.max_size = e.max_size
        /\ f.modifiers = e.modifiers
    BY <1>2, <1>4 DEF SameBounds, Attributes
  <1>6. (M \cup {".default"}) \cap Bounding = M \cap Bounding
    BY DEF Bounding, Fixed, Inequalities
  <1>7. Numeric(f, M \cup {".default"})
    BY <1>5, <1>6, StaysNumeric DEF Turn, Meant
  <1> QED  BY <1>5, <1>7 DEF f, operand

LEMMA TurnNumeric ==
    ASSUME SizedAlone, NotBelowLast, NoSizeBelowOne, SignedNotSizedByRange, EvenByte,
           NEW e, NEW M, NEW m \in deferred_mod_processors, Turn(e, M, m),
           mod_processors(e, m, e.modifiers[m]).error = FALSE
    PROVE  LET f == mod_processors(e, m, e.modifiers[m])
           IN  Numeric(f, M \cup {m} \cup (DOMAIN f.modifiers \ DOMAIN e.modifiers))
  <1> DEFINE f == mod_processors(e, m, e.modifiers[m])
             K == M \cup {m} \cup (DOMAIN f.modifiers \ DOMAIN e.modifiers)
  <1>1. ASSUME Numeric(f, M \cup {m}), f.modifiers = e.modifiers
        PROVE  Numeric(f, K)
    <2>1. K = M \cup {m}
      BY <1>1
    <2> QED  BY <1>1, <2>1
  <1>2. CASE m \in Inequalities
    BY <1>1, <1>2, InequalityTurn
  <1>3. CASE m = ".size"
    BY <1>1, <1>3, SizeTurn
  <1>4. CASE m = ".default"
    BY <1>1, <1>4, DefaultTurn
  <1>5. CASE m = ".eq"
    <2>1. /\ Numeric(f, M \cup {".eq", "value"})
          /\ DOMAIN f.modifiers = DOMAIN e.modifiers \cup {"value"} /\ "value" \notin DOMAIN e.modifiers
      BY <1>5, EqualTurn
    <2>2. K = M \cup {".eq", "value"}
      BY <1>5, <2>1
    <2> QED  BY <2>1, <2>2
  <1> QED  BY <1>2, <1>3, <1>4, <1>5 DEF deferred_mod_processors

-----------------------------------------------------------------------------
(* The tokens, again: what an element means while it is read.              *)

LEMMA OperandsStaySound ==
    ASSUME NEW e, NEW f, OperandsSound(e), SameControls(e, f), f.type = e.type
    PROVE  OperandsSound(f)
  BY DEF OperandsSound, SameControls, IsType

LEMMA FailedFails ==
    ASSUME NEW e, Recorded(e)
    PROVE  Failed(e).error = TRUE
  BY RecordedDomain DEF Failed, Attributes

LEMMA BlankMeans ==
    ASSUME NEW e, e.type = None, Blank(e), NEW M
    PROVE  Meant(e, M)
  <1>1. ~IsType(e, IntTypes)
    BY DEF IsType, None, Some
  <1> QED  BY <1>1 DEF Meant, Numeric, Blank

\* While it is read, an element means what the text asks for but for the
\* operators that wait for process_modifiers().
Understood(e) == Meant(e, DOMAIN e.modifiers \ deferred_mod_processors)

LEMMA ReadMeans ==
    ASSUME MInv, OInv', NEW e, Read(e), OperandsSound(e), e.error = FALSE => Understood(e)
    PROVE  MInv'
  <1>1. /\ self' = e /\ phase' \in {"failed", "parse"}
        /\ phase' = "parse" => self'.error = FALSE
    BY DEF Read, OInv
  <1>2. OperandsSound(self')
    BY <1>1
  <1>3. phase' # "failed" => self'.error = FALSE /\ Meant(self', DOMAIN self'.modifiers \ Pending')
    BY <1>1 DEF Pending, Understood
  <1>4. OperandsSound(self)'
    BY <1>2 DEF OperandsSound, Controls, IsType
  <1>5. phase' # "done"
    BY <1>1
  <1> QED  BY <1>3, <1>4, <1>5 DEF MInv, Meant, Numeric, Valued, Means, Sourced, Pending, Blank, Controls,
                                   Unbounded, Base, Accepts, Asked, OfType, IsType

LEMMA BeforeTypeIs ==
    ASSUME MInv, BeforeType, NEW e, Read(e)
    PROVE  /\ IsElement(self) /\ Recorded(self) /\ self.error = FALSE /\ self.type = None
           /\ Blank(self) /\ OperandsSound(self)
  BY DEF MInv, OInv, IInv, BeforeType, Read, Meant

LEMMA FailedIsRead ==
    ASSUME MInv, OInv', Read(Failed(self))
    PROVE  MInv'
  <1>1. Recorded(self) /\ OperandsSound(self)
    BY DEF MInv, OInv
  <1>2. Kept(self, Failed(self))
    BY <1>1, FailedWorked, WorkedIsKept, RecordedDomain
  <1>3. OperandsSound(Failed(self))
    <2>1. Failed(self).type = self.type
      BY <1>1, RecordedDomain DEF Failed, Attributes
    <2> QED  BY <1>1, <1>2, <2>1, OperandsStaySound DEF Kept
  <1> QED  BY <1>1, <1>3, FailedFails, ReadMeans

\* A token in front of the type.
Early(e, f) ==
    /\ SameBounds(e, f) /\ f.min_size = e.min_size /\ f.max_size = e.max_size
    /\ SameControls(e, f) /\ Recorded(f) /\ f.error = e.error
    /\ DOMAIN f.modifiers \subseteq DOMAIN e.modifiers \cup {"quantifier", "key", "tag"}

LEMMA EarlyIsRead ==
    ASSUME MInv, OInv', BeforeType, NEW e, Read(e), Early(self, e)
    PROVE  MInv'
  <1>1. Blank(self) /\ self.type = None /\ OperandsSound(self)
    BY BeforeTypeIs
  <1>2. e.type = None
    BY <1>1 DEF Early, SameBounds
  <1>3. Blank(e)
    <2>1. Controls(e) = {} /\ DOMAIN e.modifiers \cap {"value", "range"} = {}
      BY <1>1 DEF Early, Blank, SameControls
    <2>2. Unbounded(e)
      BY <1>1, SameMeaning DEF Early, SameBounds, Blank, Unbounded
    <2> QED  BY <2>1, <2>2 DEF Blank
  <1>4. OperandsSound(e)
    BY <1>1, OperandsStaySound DEF Early, SameBounds
  <1> QED  BY <1>2, <1>3, <1>4, BlankMeans, ReadMeans DEF Understood

LEMMA AddModifierEarly ==
    ASSUME NEW e, NEW m \in {"quantifier", "key", "tag"}, NEW once \in BOOLEAN, Recorded(e),
           add_modifier(e, m, None, once) # Failed(e)
    PROVE  Early(e, add_modifier(e, m, None, once))
  <1> DEFINE more == [x \in DOMAIN e.modifiers \cup {m} |-> IF x = m THEN None ELSE e.modifiers[x]]
  <1>0. DOMAIN e = Attributes
    BY RecordedDomain
  <1>1. add_modifier(e, m, None, once) = [e EXCEPT !.modifiers = more]
    BY DEF add_modifier
  <1>2. m \notin ops
    BY DEF ops, deferred_mod_processors, Inequalities
  <1>3. /\ DOMAIN more = DOMAIN e.modifiers \cup {m} /\ DOMAIN more \cap ops = Controls(e)
        /\ \A x \in Controls(e) : more[x] = e.modifiers[x]
    BY <1>2 DEF Controls
  <1> HIDE DEF more
  <1>4. Early(e, [e EXCEPT !.modifiers = more])
    BY <1>0, <1>3 DEF Early, SameBounds, SameControls, Controls, Recorded, Attributes
  <1> QED  BY <1>1, <1>4

LEMMA EarlyOn ==
    ASSUME NEW e, NEW f, NEW g, Early(e, f), Early(f, g)
    PROVE  Early(e, g)
  BY DEF Early, SameBounds, SameControls, Controls

LEMMA FieldEarly ==
    ASSUME NEW e, Recorded(e)
    PROVE  /\ \A x : Early(e, [e EXCEPT !.label = x])
           /\ \A x : Early(e, [e EXCEPT !.key = x])
           /\ \A x : Early(e, [e EXCEPT !.tags = x])
           /\ \A x, y : Early(e, [e EXCEPT !.min_qty = x, !.max_qty = y])
  <1>0. DOMAIN e = Attributes
    BY RecordedDomain
  <1>1. ASSUME NEW x PROVE Early(e, [e EXCEPT !.label = x])
    BY <1>0 DEF Early, SameBounds, SameControls, Controls, Recorded, Attributes
  <1>2. ASSUME NEW x PROVE Early(e, [e EXCEPT !.key = x])
    BY <1>0 DEF Early, SameBounds, SameControls, Controls, Recorded, Attributes
  <1>3. ASSUME NEW x PROVE Early(e, [e EXCEPT !.tags = x])
    BY <1>0 DEF Early, SameBounds, SameControls, Controls, Recorded, Attributes
  <1>4. ASSUME NEW x, NEW y PROVE Early(e, [e EXCEPT !.min_qty = x, !.max_qty = y])
    BY <1>0 DEF Early, SameBounds, SameControls, Controls, Recorded, Attributes
  <1> QED  BY <1>1, <1>2, <1>3, <1>4

LEMMA EarlyTokens ==
    ASSUME MInv, OInv', SetQuantifier \/ SetLabel \/ SetKey \/ AddTag
    PROVE  MInv'
  <1>0. Recorded(self)
    BY DEF MInv, OInv
  <1>1. ASSUME NEW m \in {"quantifier", "key", "tag"}, NEW once \in BOOLEAN, NEW e, Early(self, e),
               NEW f, f = add_modifier(e, m, None, once)
        PROVE  Early(self, f) \/ f = Failed(e)
    BY <1>1, AddModifierEarly, EarlyOn DEF Early
  <1>2. ASSUME NEW e, Early(self, e), Read(Failed(e))
        PROVE  MInv'
    <2>1. Failed(e).error = TRUE
      BY <1>2, FailedFails DEF Early
    <2>2. OperandsSound(Failed(e))
      <3>1. OperandsSound(e)
        BY <1>2, OperandsStaySound DEF Early, SameBounds, MInv
      <3>2. Kept(e, Failed(e))
        BY <1>2, FailedWorked, WorkedIsKept, RecordedDomain DEF Early
      <3>3. Failed(e).type = e.type
        BY <1>2, RecordedDomain DEF Early, Failed, Attributes
      <3> QED  BY <3>1, <3>2, <3>3, OperandsStaySound DEF Kept
    <2> QED  BY <1>2, <2>1, <2>2, ReadMeans
  <1>3. ASSUME NEW m \in {"quantifier", "key", "tag"}, NEW once \in BOOLEAN, NEW e, Early(self, e),
               BeforeType, Read(add_modifier(e, m, None, once))
        PROVE  MInv'
    BY <1>1, <1>2, <1>3, EarlyIsRead
  <1>4. CASE SetQuantifier
    <2>1. PICK q \in {<< 0, 1 >>, << 1, Many >>} :
             Read(add_modifier([self EXCEPT !.min_qty = q[1], !.max_qty = q[2]], "quantifier", None, TRUE))
      BY <1>4 DEF SetQuantifier
    <2> DEFINE e == [self EXCEPT !.min_qty = q[1], !.max_qty = q[2]]
    <2>2. Early(self, e)
      BY <1>0, FieldEarly
    <2>3. Read(add_modifier(e, "quantifier", None, TRUE))
      BY <2>1
    <2> HIDE DEF e
    <2> QED  BY <1>3, <1>4, <2>2, <2>3 DEF SetQuantifier
  <1>5. CASE SetLabel
    BY <1>0, <1>5, FieldEarly, EarlyIsRead DEF SetLabel
  <1>6. CASE SetKey
    <2>1. PICK type \in {"UINT", "GROUP"} :
             Read(IF IsSome(self.key) \/ type = "GROUP" THEN Failed(self)
                  ELSE add_modifier([self EXCEPT !.key = Some(type)], "key", None, TRUE))
      BY <1>6 DEF SetKey
    <2> DEFINE e == [self EXCEPT !.key = Some(type)]
    <2>2. Early(self, e)
      BY <1>0, FieldEarly
    <2>3. Read(Failed(self)) \/ Read(add_modifier(e, "key", None, TRUE))
      BY <2>1
    <2> HIDE DEF e
    <2> QED  BY <1>3, <1>6, <2>2, <2>3, FailedIsRead DEF SetKey
  <1>7. CASE AddTag
    <2> DEFINE e == add_modifier(self, "tag", None, FALSE)
               f == [e EXCEPT !.tags = Append(@, 1)]
    <2>1. Read(f)
      BY <1>7 DEF AddTag
    <2>2. e # Failed(self)
      <3>1. e = [self EXCEPT !.modifiers =
                   [x \in DOMAIN @ \cup {"tag"} |-> IF x = "tag" THEN None ELSE @[x]]]
        BY DEF add_modifier
      <3>2. self.error = FALSE
        BY <1>7, BeforeTypeIs DEF AddTag
      <3>3. e.error = FALSE
        BY <1>0, <3>1, <3>2, RecordedDomain DEF Attributes
      <3> QED  BY <1>0, <3>3, FailedFails
    <2>3. Early(self, e)
      BY <1>0, <2>2, AddModifierEarly
    <2> HIDE DEF e
    <2>4. Early(e, f)
      BY <2>3, FieldEarly DEF Early
    <2> HIDE DEF f
    <2> QED  BY <1>7, <2>1, <2>3, <2>4, EarlyOn, EarlyIsRead DEF AddTag
  <1> QED  BY <1>4, <1>5, <1>6, <1>7

\* A type alone bounds nothing.
LEMMA TypeAloneMeans ==
    ASSUME NEW e, Recorded(e), e.type = None, Blank(e), NEW type
    PROVE  Understood(type_and_value(e, type, None))
  <1> DEFINE f == type_and_value(e, type, None)
             typed == [e EXCEPT !.type = Some(type)]
             empty == [typed EXCEPT !.value = None]
  <1>0. DOMAIN e = Attributes /\ ~IsSome(e.type) /\ ~IsSome(None)
    BY RecordedDomain DEF IsSome, None
  <1>1. f = IF typed.type = Some("NINT") THEN [empty EXCEPT !.max_value = Some(-1)] ELSE empty
    BY <1>0 DEF type_and_value, set_value
  <1>2. /\ typed.type = Some(type) /\ DOMAIN typed = Attributes /\ empty.type = Some(type)
        /\ empty.modifiers = e.modifiers /\ empty.value = None /\ DOMAIN empty = Attributes
        /\ empty.min_value = e.min_value /\ empty.min_value_inclusive = e.min_value_inclusive
        /\ empty.max_value = e.max_value /\ empty.max_value_inclusive = e.max_value_inclusive
        /\ empty.min_size = e.min_size /\ empty.max_size = e.max_size
    BY <1>0 DEF Attributes
  <1>3. Base(e) = None
    BY DEF Base, None, Some
  <1> HIDE DEF typed, empty, f
  <1>4. f.type = Some(type) /\ f.modifiers = e.modifiers /\ Unbounded(f)
    <2>1. CASE type = "NINT"
      <3>1. f = [empty EXCEPT !.max_value = Some(-1)]
        BY <1>1, <1>2, <2>1
      <3> QED  BY <1>2, <2>1, <3>1 DEF Unbounded, Base, Blank, Attributes
    <2>2. CASE type # "NINT"
      <3>1. Some(type) # Some("NINT")
        BY <2>2 DEF Some
      <3> QED  BY <1>1, <1>2, <1>3, <3>1 DEF Unbounded, Base, Blank
    <2> QED  BY <2>1, <2>2
  <1>5. Controls(f) = {} /\ "value" \notin DOMAIN f.modifiers /\ "range" \notin DOMAIN f.modifiers
    BY <1>4 DEF Blank, Controls
  <1>6. (DOMAIN f.modifiers \ deferred_mod_processors) \cap Bounding = {}
    BY <1>5 DEF Bounding, Fixed, deferred_mod_processors
  <1>7. Numeric(f, DOMAIN f.modifiers \ deferred_mod_processors)
    BY <1>4, <1>5, <1>6, UnboundedIsNumeric
  <1>8. f.type # None
    BY <1>4 DEF Some, None
  <1> QED  BY <1>5, <1>7, <1>8 DEF Meant, Understood, f

\* A number stands for itself.
LEMMA NumberMeans ==
    ASSUME NEW e, IsElement(e), Recorded(e), e.error = FALSE, e.type = None, Blank(e),
           NEW type \in IntTypes, NEW v \in Int, type = "UINT" => v \in Nat, type = "NINT" => v < 0,
           type_and_value(e, type, Some(v)).error = FALSE
    PROVE  Understood(type_and_value(e, type, Some(v)))
  <1> DEFINE typed == [e EXCEPT !.type = Some(type)]
             f == set_value(typed, Some(v))
  <1>0. DOMAIN e = Attributes /\ ~IsSome(e.type) /\ Some(type) \in Opt(ElementTypes)
    <2>1. type \in ElementTypes
      BY DEF ElementTypes, NumberTypes
    <2> QED  BY <2>1, RecordedDomain, SomeIsOption DEF IsSome, None
  <1>1. type_and_value(e, type, Some(v)) = f
    BY <1>0 DEF type_and_value
  <1>2. /\ typed.type = Some(type) /\ typed.modifiers = e.modifiers /\ typed.value = e.value
        /\ typed.min_value = e.min_value /\ typed.min_value_inclusive = e.min_value_inclusive
        /\ typed.max_value = e.max_value /\ typed.max_value_inclusive = e.max_value_inclusive
        /\ typed.error = FALSE /\ Recorded(typed)
    BY <1>0 DEF Attributes, Recorded
  <1>3. IsElement(typed)
    BY <1>0 DEF IsElement, Attributes, Bounded, Noted
  <1> HIDE DEF typed
  <1>4. IsType(typed, IntTypes)
    BY <1>2 DEF IsType
  <1>5. Free(typed)
    <2>1. e.max_value = None
      BY DEF Blank, Unbounded, Base, None, Some
    <2> QED  BY <1>2, <2>1 DEF Free, Blank, Unbounded
  <1>6. Fits(typed, v)
    BY <1>2 DEF Fits, Some
  <1>7. typed.value = None /\ "value" \notin DOMAIN typed.modifiers
    BY <1>2 DEF Blank, Unbounded
  <1>8. f.error = FALSE
    BY <1>1
  <1>9. Settable(typed, v)
    BY <1>2, <1>3, <1>4, <1>5, <1>6, <1>7 DEF Settable
  <1>10. f.type = Some(type) /\ f.modifiers = WithValue(typed, v)
    BY <1>2, <1>8, <1>9, ValueMeans
  <1>11. DOMAIN f.modifiers = DOMAIN e.modifiers \cup {"value"}
    BY <1>2, <1>10 DEF WithValue
  <1> DEFINE M == DOMAIN f.modifiers \ deferred_mod_processors
  <1>12. M \cap Bounding = {"value"}
    BY <1>11 DEF Bounding, Fixed, Blank, deferred_mod_processors, Inequalities
  <1> HIDE DEF M
  <1>13. Numeric(f, M)
    BY <1>8, <1>12, <1>9, ValueNumeric
  <1>14. f.type # None /\ "range" \notin DOMAIN f.modifiers
    BY <1>10, <1>11 DEF Some, None, Blank
  <1> QED  BY <1>1, <1>13, <1>14 DEF Understood, Meant, M

LEMMA RangeMeans ==
    ASSUME NEW e, NEW type, NEW min, NEW max, NEW inclusive \in BOOLEAN,
           RangeOf(e, type, min, max), type_and_range(e, type, min, max, inclusive).error = FALSE
    PROVE  Understood(type_and_range(e, type, min, max, inclusive))
  <1> DEFINE upto == inclusive
             f == type_and_range(e, type, min, max, upto)
             M == DOMAIN f.modifiers \ deferred_mod_processors
  <1>0. upto \in BOOLEAN /\ f.error = FALSE
    OBVIOUS
  <1> HIDE DEF upto
  <1>1. /\ f.type = Some(type) /\ DOMAIN f.modifiers = DOMAIN e.modifiers \cup {"range"}
        /\ \A K : K \cap Bounding = {"range"} => Numeric(f, K)
    <2>1. RangeRead(e, type, f)
      BY <1>0, RangeNumeric
    <2> QED  BY <2>1 DEF RangeRead
  <1>2. Kept(e, f)
    BY TypeAndRangeKept DEF RangeOf
  <1> HIDE DEF f
  <1>3. M \cap Bounding = {"range"}
    BY <1>1 DEF Bounding, Fixed, Blank, deferred_mod_processors, Inequalities, RangeOf
  <1>4. Controls(f) = {}
    BY <1>2 DEF Kept, SameControls, Blank, RangeOf
  <1>5. f.type # None
    BY <1>1 DEF Some, None
  <1> HIDE DEF M
  <1>6. Meant(f, M)
    BY <1>1, <1>3, <1>4, <1>5 DEF Meant
  <1> QED  BY <1>6 DEF Understood, M, f, upto

LEMMA BlankIsSound ==
    ASSUME NEW e, NEW f, Blank(e), Kept(e, f)
    PROVE  OperandsSound(f)
  BY DEF Blank, Kept, SameControls, OperandsSound

LEMMA TypeTokens ==
    ASSUME HeaderFits, MInv, OInv', TypeName \/ FloatWithSize \/ LiteralNumber \/ SetNumRange
    PROVE  MInv'
  <1>0. PICK e : Read(e)
    BY DEF TypeName, FloatWithSize, LiteralNumber, SetNumRange
  <1>1. /\ IsElement(self) /\ Recorded(self) /\ self.error = FALSE /\ self.type = None
        /\ Blank(self) /\ OperandsSound(self)
    BY <1>0, BeforeTypeIs DEF TypeName, FloatWithSize, LiteralNumber, SetNumRange
  <1>2. ASSUME NEW f, Kept(self, f), Read(f), f.error = FALSE => Understood(f)
        PROVE  MInv'
    BY <1>1, <1>2, BlankIsSound, ReadMeans
  <1>3. CASE TypeName
    <2>1. PICK type : Read(type_and_value(self, type, None))
      BY <1>3 DEF TypeName
    <2> QED  BY <1>1, <1>2, <2>1, TypeAloneMeans, TypeAndValueKept
  <1>4. CASE FloatWithSize
    <2> DEFINE typed == type_and_value(self, "FLOAT", None)
    <2>1. PICK s \in {<< 2, 2 >>, << 4, 8 >>} :
             Read(IF s[1] = s[2] THEN set_size(typed, s[1])
                  ELSE set_size_range(typed, Some(s[1]), Some(s[2]), TRUE))
      BY <1>4 DEF FloatWithSize
    <2>2. Kept(self, typed)
      BY <1>1, TypeAndValueKept
    <2>3. Understood(typed)
      BY <1>1, TypeAloneMeans
    <2>4. DOMAIN typed = Attributes
      BY <1>1, <2>2, RecordedDomain DEF Kept
    <2>5. typed.type = Some("FLOAT")
      <3>1. ~IsSome(self.type) /\ ~IsSome(None) /\ Some("FLOAT") # Some("NINT")
        BY <1>1 DEF IsSome, None, Some
      <3>2. typed = [[self EXCEPT !.type = Some("FLOAT")] EXCEPT !.value = None]
        BY <1>1, <3>1, RecordedDomain DEF type_and_value, set_value, Attributes
      <3> QED  BY <1>1, <3>2, RecordedDomain DEF Attributes
    <2> HIDE DEF typed
    <2>6. ASSUME NEW f, Worked(typed, f), f.modifiers = typed.modifiers PROVE Understood(f)
      <3>1. f.type = Some("FLOAT")
        BY <2>5, <2>6 DEF Worked, SameKind
      <3>2. ~IsType(f, IntTypes) /\ f.type # None
        BY <3>1 DEF IsType, IntTypes, Some, None
      <3>3. "range" \notin DOMAIN f.modifiers \/ Controls(f) = {}
        <4>1. Controls(f) = {}
          BY <1>1, <2>2, <2>6, KeptOn DEF Worked, Kept, SameControls, Blank
        <4> QED  BY <4>1
      <3> QED  BY <3>2, <3>3 DEF Understood, Meant, Numeric
    <2> DEFINE whole == TRUE
               one   == set_size(typed, s[1])
               range == set_size_range(typed, Some(s[1]), Some(s[2]), whole)
    <2>7. Read(one) \/ Read(range)
      BY <2>1
    <2> HIDE DEF whole
    <2>8. /\ Worked(typed, one) /\ one.modifiers = typed.modifiers
          /\ Worked(typed, range) /\ range.modifiers = typed.modifiers
      BY <2>4, SetSizeWorked, SizeRangeWorked, SetSizeLeavesModifiers, SizeRangeLeavesModifiers
    <2> HIDE DEF one, range
    <2> QED  BY <1>2, <2>2, <2>6, <2>8, <2>7, WorkedIsKept, KeptOn
  <1>5. CASE LiteralNumber
    <2>1. PICK n \in Literals : Read(type_and_value(self, NumberType(n), Some(n)))
      BY <1>5 DEF LiteralNumber
    <2>2. /\ n \in Int /\ NumberType(n) \in IntTypes
          /\ NumberType(n) = "UINT" => n \in Nat
          /\ NumberType(n) = "NINT" => n < 0
      BY LiteralAssumption, NumberTypeIsType DEF NumberType
    <2> QED  BY <1>1, <1>2, <2>1, <2>2, NumberMeans, TypeAndValueKept
  <1>6. CASE SetNumRange
    <2>1. PICK r \in Ranges :
             Read(type_and_range(self, IF NumberType(r[1]) = NumberType(r[2]) THEN NumberType(r[1]) ELSE "INT",
                                 r[1], r[2], r[3]))
      BY <1>6 DEF SetNumRange
    <2> DEFINE type == IF NumberType(r[1]) = NumberType(r[2]) THEN NumberType(r[1]) ELSE "INT"
               min == r[1]
               max == r[2]
               inclusive == r[3]
               f == type_and_range(self, type, min, max, inclusive)
    <2>2. min \in Int /\ max \in Int /\ inclusive \in BOOLEAN
      BY LiteralAssumption
    <2>3. /\ type \in IntTypes
          /\ type = "UINT" => min \in Nat
          /\ type = "NINT" => min < 0
      BY <2>2, NumberTypeIsType DEF NumberType, IntTypes
    <2>4. Read(f)
      BY <2>1
    <2> HIDE DEF type
    <2>5. 0 <= min /\ min < max /\ sizeof(min) \in 0 .. MaxSize => Least(sizeof(min)) <= min
      BY Zenon DEF HeaderFits
    <2> HIDE DEF min, max, inclusive
    <2>6. Kept(self, f)
      BY <1>1, TypeAndRangeKept
    <2>7. CASE min > max \/ (min = max /\ ~inclusive)
      <3>1. f = Failed(self)
        BY <2>7 DEF type_and_range
      <3> HIDE DEF f
      <3> QED  BY <1>1, <1>2, <2>4, <2>6, <3>1, FailedFails
    <2>8. CASE min = max /\ inclusive
      <3>1. f = type_and_value(self, type, Some(min))
        BY <2>2, <2>8 DEF type_and_range
      <3> HIDE DEF f
      <3>2. f.error = FALSE => Understood(f)
        BY <1>1, <2>2, <2>3, <3>1, NumberMeans
      <3> QED  BY <1>2, <2>4, <2>6, <3>2
    <2>9. CASE min < max
      <3>1. RangeOf(self, type, min, max)
        <4>1. type = "UINT" /\ sizeof(min) \in 0 .. MaxSize => Least(sizeof(min)) <= min
          BY <2>2, <2>3, <2>5, <2>9
        <4> QED  BY <1>1, <2>2, <2>3, <2>9, <4>1 DEF RangeOf
      <3>2. f.error = FALSE => Understood(f)
        BY <2>2, <3>1, RangeMeans
      <3> HIDE DEF f
      <3> QED  BY <1>2, <2>4, <2>6, <3>2
    <2> QED  BY <2>2, <2>7, <2>8, <2>9
  <1> QED  BY <1>3, <1>4, <1>5, <1>6

-----------------------------------------------------------------------------
(* The operators, again, and the theorem.                                 *)

\* A value notes itself among the modifiers, and nothing else.
LEMMA SetValueNotesValue ==
    ASSUME NEW e, NEW v, DOMAIN e = Attributes
    PROVE  DOMAIN set_value(e, v).modifiers \subseteq DOMAIN e.modifiers \cup {"value"}
  <1> DEFINE D == DOMAIN e.modifiers \cup {"value"}
             noted  == IF IsSome(v) THEN add_modifier(e, "value", v, TRUE) ELSE e
             valued == [noted EXCEPT !.value = v]
             raised == set_min_value(valued, v[1], TRUE)
             closed == set_max_value(raised, v[1], TRUE)
             lower  == IF IsSome(v) /\ IsType(e, {"UINT", "NINT"}) THEN closed ELSE valued
             below  == [lower EXCEPT !.max_value = Some(-1)]
  <1>1. DOMAIN noted = Attributes /\ DOMAIN noted.modifiers \subseteq D
    BY DEF add_modifier, Failed, Attributes
  <1>2. set_value(e, v) \in {Failed(e), below, lower}
    BY DEF set_value
  <1> HIDE DEF noted
  <1>3. DOMAIN valued = Attributes /\ DOMAIN valued.modifiers \subseteq D
    BY <1>1 DEF Attributes
  <1> HIDE DEF valued
  <1>4. DOMAIN raised = Attributes /\ raised.modifiers = valued.modifiers
    BY <1>3, ClosedBoundsLeaveModifiers
  <1> HIDE DEF raised
  <1>5. DOMAIN closed = Attributes /\ closed.modifiers = valued.modifiers
    BY <1>4, ClosedBoundsLeaveModifiers
  <1> HIDE DEF closed
  <1>6. DOMAIN lower = Attributes /\ DOMAIN lower.modifiers \subseteq D
    BY <1>3, <1>5
  <1> HIDE DEF lower
  <1>7. DOMAIN below.modifiers \subseteq D /\ DOMAIN Failed(e).modifiers \subseteq D
    BY <1>6 DEF Attributes, Failed
  <1> HIDE DEF below
  <1> QED  BY <1>2, <1>6, <1>7

\* An operator notes a value, and nothing else.
LEMMA ModProcessorsNoteValue ==
    ASSUME NEW e, NEW m \in ops, NEW operand, DOMAIN e = Attributes
    PROVE  DOMAIN mod_processors(e, m, operand).modifiers \subseteq DOMAIN e.modifiers \cup {"value"}
  <1> DEFINE f == mod_processors(e, m, operand)
  <1>1. CASE m \in Inequalities
    <2>1. f \in { Failed(e), set_min_value(e, operand.value[1], m = ".ge"),
                 set_max_value(e, operand.value[1], m = ".le") }
      BY <1>1 DEF mod_processors, Inequalities
    <2> QED  BY <2>1, ValuesLeaveModifiers DEF Failed, Attributes
  <1>2. CASE m = ".size"
    <2>1. f \in { Failed(e), set_size(e, operand.value[1]),
                 set_size_range(e, Some(operand.range[1][1]), Some(operand.range[1][2]), operand.range[1][3]) }
      BY <1>2 DEF mod_processors, Inequalities, set_size_op
    <2> QED  BY <2>1, SetSizeLeavesModifiers, SizeRangeLeavesModifiers DEF Failed, Attributes
  <1>3. CASE m = ".eq"
    <2>1. f \in {Failed(e), set_value(e, operand.value)}
      BY <1>3 DEF mod_processors, Inequalities, set_eq
    <2> QED  BY <2>1, SetValueNotesValue DEF Failed, Attributes
  <1>4. CASE m \in {".default", ".cbor", ".cborseq", ".bits"}
    <2>1. f \in { Failed(e), [e EXCEPT !.default = operand.value],
                 [e EXCEPT !.cbor = Some(operand)], [e EXCEPT !.bits = Some(operand)] }
      BY <1>4 DEF mod_processors, Inequalities, set_default
    <2> QED  BY <2>1 DEF Failed, Attributes
  <1> QED  BY <1>1, <1>2, <1>3, <1>4 DEF ops, deferred_mod_processors

\* An operator is noted.
LEMMA NotedMeans ==
    ASSUME MInv, NEW m \in ops, NEW operand \in Operands(m), ~IsEqualBound(m, operand),
           ~(IsSizeRange(m, operand) /\ IsType(self, NotSizedByRange)),
           m \notin DOMAIN self.modifiers, "range" \notin DOMAIN self.modifiers,
           self.type # None, phase = "parse"
    PROVE  LET f == add_modifier(self, m, operand, TRUE)
           IN  OperandsSound(f) /\ Understood(f) /\ Recorded(f) /\ SameBounds(self, f)
  <1> DEFINE more == [x \in DOMAIN self.modifiers \cup {m} |-> IF x = m THEN operand ELSE self.modifiers[x]]
             f == add_modifier(self, m, operand, TRUE)
  <1>1. f = [self EXCEPT !.modifiers = more]
    BY DEF add_modifier
  <1>2. /\ DOMAIN more = DOMAIN self.modifiers \cup {m} /\ more[m] = operand
        /\ \A x \in DOMAIN self.modifiers : more[x] = self.modifiers[x]
    OBVIOUS
  <1> HIDE DEF more, f
  <1>3. /\ Recorded(f) /\ f.modifiers = more /\ SameBounds(self, f)
        /\ f.min_size = self.min_size /\ f.max_size = self.max_size
    BY <1>1 DEF MInv, OInv, Recorded, Attributes, SameBounds
  <1>4. OperandsSound(f)
    <2>1. Controls(f) = Controls(self) \cup {m}
      BY <1>2, <1>3 DEF Controls
    <2>2. \A x \in Controls(f) : more[x] \in Operands(x)
      BY <1>2, <2>1 DEF MInv, OperandsSound, Controls
    <2>3. m \in Upper => \A x \in Controls(self) \cap Upper : self.modifiers[x] # operand
      BY DEF IsEqualBound, SameSide, Upper, Inequalities, Controls
    <2>4. \A x, y \in Controls(f) \cap Upper : x # y => more[x] # more[y]
      BY <1>2, <2>1, <2>3 DEF MInv, OperandsSound, Controls
    <2>5. ".size" \in Controls(f) /\ IsSome(more[".size"].range) => ~IsType(self, NotSizedByRange)
      BY <1>2, <2>1 DEF MInv, OperandsSound, Controls, IsSizeRange
    <2>6. IsType(f, NotSizedByRange) <=> IsType(self, NotSizedByRange)
      BY <1>3 DEF SameBounds, IsType
    <2> QED  BY <1>3, <2>2, <2>4, <2>5, <2>6 DEF OperandsSound
  <1> DEFINE M == DOMAIN self.modifiers \ deferred_mod_processors
             K == DOMAIN f.modifiers \ deferred_mod_processors
  <1>5. M \cap Bounding = K \cap Bounding /\ m # "value" /\ m # "range"
    BY <1>2, <1>3 DEF ops, Bounding, Fixed, deferred_mod_processors, Inequalities
  <1>6. \A x \in M \cap Bounding : f.modifiers[x] = self.modifiers[x]
    BY <1>2, <1>3
  <1>7. "value" \in DOMAIN f.modifiers <=> "value" \in DOMAIN self.modifiers
    BY <1>2, <1>3, <1>5
  <1> HIDE DEF K, M
  <1>8. Numeric(self, M)
    BY DEF MInv, Meant, Pending, M
  <1>9. Numeric(f, K)
    BY <1>3, <1>5, <1>6, <1>7, <1>8, StaysNumeric
  <1>10. f.type # None /\ "range" \notin DOMAIN f.modifiers
    BY <1>2, <1>3, <1>5 DEF SameBounds
  <1>11. Understood(f)
    BY <1>9, <1>10 DEF Understood, Meant, K
  <1> QED  BY <1>3, <1>4, <1>11 DEF f

\* The operators that are applied where they are read: .cbor, .cborseq and .bits.
LEMMA AppliedMeans ==
    ASSUME NEW e, Recorded(e), Understood(e), NEW m \in ops \ deferred_mod_processors, NEW operand
    PROVE  mod_processors(e, m, operand).error = FALSE => Understood(mod_processors(e, m, operand))
  <1> DEFINE f == mod_processors(e, m, operand)
  <1>0. DOMAIN e = Attributes
    BY RecordedDomain
  <1>1. f \in {Failed(e), [e EXCEPT !.cbor = Some(operand)], [e EXCEPT !.bits = Some(operand)]}
    <2>1. m \in {".cbor", ".cborseq", ".bits"}
      BY DEF ops
    <2> QED  BY <2>1 DEF mod_processors, Inequalities
  <1>2. ASSUME f # Failed(e)
        PROVE  /\ SameBounds(e, f) /\ f.modifiers = e.modifiers
               /\ f.min_size = e.min_size /\ f.max_size = e.max_size
    <2> HIDE DEF f
    <2> QED  BY <1>0, <1>1, <1>2 DEF SameBounds, Attributes
  <1> HIDE DEF f
  <1>3. ASSUME f # Failed(e)
        PROVE  Understood(f)
    <2> DEFINE M == DOMAIN e.modifiers \ deferred_mod_processors
    <2>1. Numeric(e, M)
      BY DEF Understood, Meant
    <2> HIDE DEF M
    <2>2. Numeric(f, M)
      BY <1>2, <1>3, <2>1, StaysNumeric
    <2>3. f.type = None => Blank(f)
      BY <1>2, <1>3, SameMeaning DEF Understood, Meant, Blank, Unbounded, SameBounds, Controls
    <2>4. "range" \in DOMAIN f.modifiers => Controls(f) = {}
      BY <1>2, <1>3 DEF Understood, Meant, Controls
    <2> QED  BY <1>2, <1>3, <2>2, <2>3, <2>4 DEF Understood, Meant, M
  <1>4. f.error = FALSE => Understood(f)
    BY <1>3, FailedFails
  <1> QED  BY <1>4 DEF f

LEMMA AddControlOpMeans ==
    ASSUME MInv, OInv', AddControlOp
    PROVE  MInv'
  <1>0. PICK m \in ops : \E operand \in Operands(m) :
           /\ ~IsEqualBound(m, operand)
           /\ ~(IsSizeRange(m, operand) /\ IsType(self, NotSizedByRange))
           /\ \E noted \in {add_modifier(self, m, operand, TRUE)} :
                Read(IF self.type = None \/ noted.error \/ "range" \in DOMAIN self.modifiers THEN Failed(self)
                     ELSE IF m \in deferred_mod_processors THEN noted
                     ELSE mod_processors(noted, m, operand))
    BY Zenon DEF AddControlOp
  <1>1. PICK operand \in Operands(m) :
           /\ ~IsEqualBound(m, operand)
           /\ ~(IsSizeRange(m, operand) /\ IsType(self, NotSizedByRange))
           /\ \E noted \in {add_modifier(self, m, operand, TRUE)} :
                Read(IF self.type = None \/ noted.error \/ "range" \in DOMAIN self.modifiers THEN Failed(self)
                     ELSE IF m \in deferred_mod_processors THEN noted
                     ELSE mod_processors(noted, m, operand))
    BY <1>0
  <1> DEFINE noted == add_modifier(self, m, operand, TRUE)
             done  == mod_processors(noted, m, operand)
  <1>2. CASE self.type = None \/ "range" \in DOMAIN self.modifiers \/ noted.error
    <2>1. Read(Failed(self))
      BY <1>1, <1>2
    <2> QED  BY <2>1, FailedIsRead
  <1>3. CASE self.type # None /\ "range" \notin DOMAIN self.modifiers /\ ~noted.error
    <2>1. m \notin DOMAIN self.modifiers
      <3>1. m \in DOMAIN self.modifiers => noted = Failed(self)
        BY DEF add_modifier
      <3>2. Failed(self).error = TRUE
        BY FailedFails DEF MInv, OInv
      <3> QED  BY <1>3, <3>1, <3>2
    <2>2. IF m \in deferred_mod_processors THEN Read(noted) ELSE Read(done)
      BY <1>1, <1>3
    <2>3. phase = "parse"
      BY <2>2 DEF Read
    <2>4. OperandsSound(noted) /\ Understood(noted) /\ Recorded(noted)
      BY <1>1, <1>3, <2>1, <2>3, NotedMeans
    <2> HIDE DEF noted
    <2>5. CASE m \in deferred_mod_processors
      BY <2>2, <2>4, <2>5, ReadMeans
    <2>6. CASE m \notin deferred_mod_processors
      <3>1. Kept(noted, done)
        BY <2>4, ModProcessorsWorked, WorkedIsKept, RecordedDomain
      <3>2. done.error = FALSE => Understood(done)
        BY <2>4, <2>6, AppliedMeans
      <3>3. done.type = noted.type
        BY <2>4, ModProcessorsWorked, RecordedDomain DEF Worked, SameKind
      <3> HIDE DEF done
      <3>4. OperandsSound(done)
        BY <2>4, <3>1, <3>3, OperandsStaySound DEF Kept
      <3> QED  BY <2>2, <2>6, <3>2, <3>4, ReadMeans
    <2> QED  BY <2>5, <2>6
  <1> QED  BY <1>2, <1>3

\* One operator takes its turn.
LEMMA TurnMeans ==
    ASSUME SizedAlone, NotBelowLast, NoSizeBelowOne, SignedNotSizedByRange, EvenByte,
           MInv, OInv', NEW m \in deferred_mod_processors, ProcessModifier(m)
    PROVE  MInv'
  <1> DEFINE f == mod_processors(self, m, self.modifiers[m])
             M == DOMAIN self.modifiers \ todo
             K == DOMAIN f.modifiers \ (todo \ {m})
  <1>1. /\ self' = f /\ todo' = todo \ {m} /\ phase = "process" /\ m \in todo
        /\ phase' = IF self'.error THEN "failed" ELSE phase
    BY DEF ProcessModifier
  <1>2. /\ IsElement(self) /\ Recorded(self) /\ self.error = FALSE /\ ControlsSound(self)
        /\ OperandsSound(self) /\ Meant(self, M) /\ todo \subseteq DOMAIN self.modifiers
    BY <1>1 DEF MInv, OInv, IInv, Pending
  <1>3. m \in ops /\ m \in Controls(self) /\ self.modifiers[m] \in Operands(m)
    BY <1>1, <1>2 DEF ops, Controls, OperandsSound
  <1>4. Worked(self, f)
    BY <1>2, <1>3, ModProcessorsWorked, RecordedDomain
  <1>5. DOMAIN self.modifiers \subseteq DOMAIN f.modifiers
    BY <1>2, <1>3, ModProcessorsAddModifiers
  <1>6. DOMAIN f.modifiers \subseteq DOMAIN self.modifiers \cup {"value"}
    BY <1>2, <1>3, ModProcessorsNoteValue, RecordedDomain
  <1>7. OperandsSound(f)
    BY <1>2, <1>4, OperandsStaySound DEF Worked, Kept, SameKind
  <1>8. f.type = self.type /\ self.type # None
    BY <1>2, <1>3, <1>4 DEF Worked, SameKind, Meant, Blank
  <1>9. "range" \notin DOMAIN f.modifiers
    BY <1>2, <1>3, <1>6 DEF Meant
  <1>10. ASSUME f.error = FALSE PROVE Numeric(f, K)
    <2>1. CASE IsType(self, IntTypes)
      <3>1. Turn(self, M, m)
        BY <1>1, <1>2, <1>3, <2>1 DEF Turn
      <3>2. Numeric(f, M \cup {m} \cup (DOMAIN f.modifiers \ DOMAIN self.modifiers))
        BY <1>10, <3>1, TurnNumeric
      <3>3. K = M \cup {m} \cup (DOMAIN f.modifiers \ DOMAIN self.modifiers)
        BY <1>1, <1>2, <1>5
      <3> QED  BY <3>2, <3>3
    <2>2. CASE ~IsType(self, IntTypes)
      BY <1>8, <2>2 DEF Numeric, IsType
    <2> QED  BY <2>1, <2>2
  <1> HIDE DEF f
  <1>11. ASSUME f.error = FALSE PROVE Meant(f, K)
    BY <1>8, <1>9, <1>10, <1>11 DEF Meant
  <1>12. /\ phase' \in {"failed", "process"}
         /\ phase' # "failed" => f.error = FALSE
    <2>1. f.error \in BOOLEAN
      BY <1>1 DEF OInv
    <2> QED  BY <1>1, <2>1
  <1>13. phase' # "failed" => self'.error = FALSE /\ Meant(self', DOMAIN self'.modifiers \ Pending')
    BY <1>1, <1>11, <1>12 DEF Pending
  <1>14. OperandsSound(self')
    BY <1>1, <1>7
  <1>15. OperandsSound(self)'
    BY <1>14 DEF OperandsSound, Controls, IsType
  <1> QED  BY <1>12, <1>13, <1>15 DEF MInv, Meant, Numeric, Valued, Means, Sourced, Pending, Blank, Controls,
                                      Unbounded, Base, Accepts, Asked, OfType, IsType

\* A step that leaves the element alone.
LEMMA StillMeans ==
    ASSUME MInv, OInv', UNCHANGED self,
           phase' # "failed" => phase # "failed" /\ DOMAIN self.modifiers \ Pending = DOMAIN self.modifiers \ Pending',
           phase' = "done" => todo' = {}
    PROVE  MInv'
  <1>1. phase' # "failed" => self'.error = FALSE /\ Meant(self', DOMAIN self'.modifiers \ Pending')
    BY DEF MInv
  <1>2. OperandsSound(self)'
    BY DEF MInv, OperandsSound, Controls, IsType
  <1> QED  BY <1>1, <1>2 DEF MInv, Meant, Numeric, Valued, Means, Sourced, Blank, Controls,
                             Unbounded, Base, Accepts, Asked, OfType, IsType

LEMMA MeaningInit == Init => MInv
  <1> SUFFICES ASSUME Init PROVE MInv
    OBVIOUS
  <1>1. OInv
    BY OrderInit
  <1>2. /\ self.type = None /\ self.error = FALSE /\ phase = "parse"
        /\ DOMAIN self.modifiers = {}
    BY DEF Init, NewElement, NoModifiers
  <1>3. Blank(self)
    <2>1. Unbounded(self)
      BY DEF Init, NewElement, Unbounded, Base, None, Some
    <2> QED  BY <1>2, <2>1 DEF Blank, Controls
  <1>4. Meant(self, DOMAIN self.modifiers \ Pending)
    BY <1>2, <1>3, BlankMeans
  <1>5. OperandsSound(self)
    BY <1>2 DEF OperandsSound, Controls
  <1> QED  BY <1>1, <1>2, <1>4, <1>5 DEF MInv

LEMMA MeaningNext ==
    ASSUME SizedAlone, NotBelowLast, NoSizeBelowOne, SignedNotSizedByRange, HeaderFits, EvenByte
    PROVE  MInv /\ [Next]_vars => MInv'
  <1> SUFFICES ASSUME MInv, [Next]_vars PROVE MInv'
    OBVIOUS
  <1>1. OInv'
    BY OrderNext DEF MInv
  <1>2. CASE SetQuantifier \/ SetLabel \/ SetKey \/ AddTag
    BY <1>1, <1>2, EarlyTokens
  <1>3. CASE TypeName \/ FloatWithSize \/ LiteralNumber \/ SetNumRange
    BY <1>1, <1>3, TypeTokens
  <1>4. CASE AddControlOp
    BY <1>1, <1>4, AddControlOpMeans
  <1>5. ASSUME NEW m \in deferred_mod_processors, ProcessModifier(m)
        PROVE  MInv'
    BY <1>1, <1>5, TurnMeans
  <1>6. CASE EndOfText
    <2>1. /\ phase = "parse" /\ UNCHANGED self /\ phase' \in {"process", "failed"}
          /\ todo' = deferred_mod_processors \cap DOMAIN self.modifiers
      BY <1>6 DEF EndOfText
    <2>2. phase' # "failed" => DOMAIN self.modifiers \ Pending = DOMAIN self.modifiers \ Pending'
      BY <2>1 DEF Pending
    <2> QED  BY <1>1, <2>1, <2>2, StillMeans
  <1>7. CASE PostValidate
    BY <1>1, <1>7, StillMeans DEF PostValidate, Pending
  <1>8. CASE UNCHANGED vars
    BY <1>1, <1>8, StillMeans DEF vars, Pending, MInv
  <1> QED  BY <1>2, <1>3, <1>4, <1>5, <1>6, <1>7, <1>8 DEF Next

\* MeansWhatIsAsked: of the integers of its type, a finished element accepts
\* those that every modifier of its text asks for and no other, although
\* type_and_range(), set_size(), set_value() and the bounds write the same four
\* attributes, and process_modifiers() takes the operators in any order.  For
\* the texts that the hypotheses above describe: each of them leaves out what
\* the code reads otherwise.
THEOREM BoundsMeanWhatIsAsked ==
    ASSUME SizedAlone, NotBelowLast, NoSizeBelowOne, SignedNotSizedByRange, HeaderFits, EvenByte
    PROVE  Spec => []MeansWhatIsAsked
  <1>1. MInv => MeansWhatIsAsked
    <2> SUFFICES ASSUME MInv, phase = "done", IsType(self, IntTypes),
                        NEW n \in Window, OfType(self, n)
                 PROVE  Accepts(self, n) <=> \A m \in DOMAIN self.modifiers : Asked(self, m, n)
      BY DEF MeansWhatIsAsked
    <2>1. DOMAIN self.modifiers \ Pending = DOMAIN self.modifiers
      BY DEF MInv, Pending
    <2>2. Means(self, DOMAIN self.modifiers)
      BY <2>1 DEF MInv, Meant, Numeric
    <2>3. n \in Int
      BY WindowIsInt
    <2> QED  BY <2>2, <2>3 DEF Means
  <1> QED  BY <1>1, MeaningInit, MeaningNext, PTL DEF Spec

=============================================================================
