---------------------------- MODULE CddlPipeline ----------------------------
(* zcbor.py from a CDDL description to a verdict on data: from_cddl() parses
   and flattens one type after the other, post-processes them, and then data
   is either validated by Python or decoded by the generated C code, which
   should come to what the description means (CddlMeaning). *)
EXTENDS CddlMeaning

CONSTANTS
    Cases,              \* CDDL files, as names of types to parsed elements, "a" being the entry
                        \* type, each with whether --unordered-maps is given
    Data,               \* the items that may come
    MaxQty,             \* DEFAULT_MAX_QTY of the C code and of the validator
    FlagsInByte         \* 8 in the code

Entry == "a"

VARIABLES
    unordered_maps,  \* --unordered-maps
    unparsed,   \* names that parse_type() was not called for
    raw,        \* names that post_process() was not called for
    phase,      \* "parse", "process", "ready", "refused" or "judged"
    data,       \* the item that came
    verdict     \* what validator and decoder said of it

vars == << my_types, unordered_maps, unparsed, raw, phase, data, verdict >>

Validator == INSTANCE CddlValidate WITH default_max_qty <- MaxQty
Generator == INSTANCE CddlXcoder WITH FlagsPerByte <- FlagsInByte, DEFAULT_MAX_QTY <- MaxQty

\* With more backups and flags than anything here needs, and either way of
\* telling which pairs of a map have been processed.
Decoder(smart) == INSTANCE CddlCode WITH
    FlagsPerByte <- FlagsInByte, DEFAULT_MAX_QTY <- MaxQty,
    SIZE_MAX <- 63, NumBackups <- 12, FlagBytes <- 16, SmartSearch <- smart

Silent == [validator |-> "none", ok |-> FALSE, length |-> 0, backups |-> 0, flags |-> 0, without |-> FALSE]

-----------------------------------------------------------------------------
Init == /\ \E c \in Cases : my_types = c[1] /\ unordered_maps = c[2]
        /\ unparsed \in SetToSeqs(DOMAIN my_types) /\ raw = unparsed     \* the order of the file
        /\ phase = "parse"
        /\ data = Nil
        /\ verdict = Silent

parse_type(name) ==
    /\ phase = "parse"
    /\ unparsed # << >> /\ name = Head(unparsed)
    /\ unparsed' = Tail(unparsed)
    /\ \E parsed \in {flatten(my_types[name], FALSE)} :
          /\ my_types' = [my_types EXCEPT ![name] = [parsed.es[1] EXCEPT !.top = TRUE]]
          /\ phase' = IF ~parsed.ok THEN "refused" ELSE IF Len(unparsed) = 1 THEN "process" ELSE phase
    /\ UNCHANGED << unordered_maps, raw, data, verdict >>

post_process(name) ==
    /\ phase = "process"
    /\ raw # << >> /\ name = Head(raw)
    /\ raw' = Tail(raw)
    /\ \E processed \in {process_modifiers(my_types[name])} :
          /\ my_types' = [my_types EXCEPT ![name] = IF processed.ok THEN processed.e ELSE @]
          /\ phase' = IF ~processed.ok \/ ~post_validate(processed.e) THEN "refused"
                      ELSE IF Len(raw) = 1 THEN "ready" ELSE phase
    /\ UNCHANGED << unordered_maps, unparsed, data, verdict >>

\* "zcbor.py validate", and a program around the generated decoder.
Judge(x) ==
    /\ phase = "ready"
    /\ x.k = "map" <=> my_types[Entry].type = Some("MAP")     \* else the first header is refused
    /\ phase' = "judged"
    /\ data' = x
    /\ \E v \in {Validator!validate_obj(my_types[Entry], x)},
          d \in {Decoder(TRUE)!render_entry_function(my_types[Entry], Encode(x))} :
       \E w \in {IF unordered_maps THEN Decoder(FALSE)!render_entry_function(my_types[Entry], Encode(x)) ELSE d} :
          verdict' = [validator |-> v.out, ok |-> d.ok, length |-> d.m.state.payload,
                      backups |-> d.m.backups_used, flags |-> d.m.flags_used,
                      without |-> w.ok /\ w.m.state.payload = Len(Encode(x))]
    /\ UNCHANGED << my_types, unordered_maps, unparsed, raw >>

Next == \/ \E name \in DOMAIN my_types : parse_type(name) \/ post_process(name)
        \/ \E x \in Data : Judge(x)

Spec == Init /\ [][Next]_vars

-----------------------------------------------------------------------------
(* Properties *)

Judged == phase = "judged"
Decodes == verdict.ok /\ verdict.length = Len(Encode(data))
IsMeant == Matches(my_types[Entry], data)

\* Taking away groups and unions of one member, and splicing groups into what
\* is around them, does not change what the entry type accepts, whichever of
\* the types that it refers to have been flattened already.
FlattenKeepsMeaning ==
    [][\A name \in DOMAIN my_types : parse_type(name) /\ phase' # "refused" =>
         \A x \in Data : Matches(my_types[Entry], x) = Matches(my_types[Entry], x)']_vars

\* The validator accepts only what the description means, whatever it was
\* that its iterators were left at by alternatives that failed.
ValidatorSound == Judged /\ verdict.validator = "ok" => IsMeant

\* The generated decoder takes the whole payload only if it was meant,
\* whatever the alternatives and repetitions that failed left behind.
DecoderSound == Judged /\ Decodes => IsMeant

\* With unordered maps it takes all that is meant, in any order of the pairs.
DecoderComplete == Judged /\ unordered_maps /\ IsMeant => Decodes

\* The two halves of zcbor.py give the same answer.  (The validator knows
\* nothing of unordered maps.)
DecoderAgrees == Judged /\ ~unordered_maps => (Decodes <=> verdict.validator = "ok")

\* num_backups() is enough for every payload.
BackupsSuffice == Judged => verdict.backups <= Generator!num_backups(my_types[Entry])

\* num_map_search_flags() is enough for every payload that is decoded.
FlagsSuffice ==
    Judged /\ Decodes => verdict.flags * FlagsInByte <= Generator!RoundUp(Generator!num_map_search_flags(my_types[Entry]))

\* Code that may be built without ZCBOR_MAP_SMART_SEARCH decodes the same.
CountingIsEnough ==
    Judged /\ ~Generator!elem_needs_map_smart_search(my_types[Entry], FALSE) => (Decodes <=> verdict.without)

=============================================================================
