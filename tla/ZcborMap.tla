------------------------------ MODULE ZcborMap ------------------------------
(***************************************************************************)
(* A decoder that looks up keys in an unordered map whose bytes are fixed. *)
(*                                                                         *)
(* ZcborBackup lets the payload be anything, so it cannot say whether the  *)
(* right key is found.  Here the map is known: Maps describes documents,   *)
(* and what the search should find is read off the description, never off  *)
(* the code.  The decoder asks for any key in any order, reads, skips or   *)
(* leaves the values, enters the maps among them, opens unions anywhere    *)
(* and rolls them back.                                                    *)
(*                                                                         *)
(* The loops of zcbor_unordered_map_search and                             *)
(* zcbor_unordered_map_end_decode run step by step.                        *)
(***************************************************************************)
EXTENDS ZcborPayload, SequencesExt

CONSTANTS
    Maps,           \* the documents: [pairs, indefinite], see IsMap
    Missing,        \* how many bytes may be missing at the end of the payload
    Keys,           \* the numbers asked for
    RootElems,      \* elem_count the state was created with
    StaleByte,      \* what the flag buffer holds before its first use
    ManuallyProcess, \* constant_state->manually_process_elem
    StopModes,      \* what the caller sets constant_state->stop_on_error to
    AskOnce         \* the decoder does not ask for a key it has processed

-----------------------------------------------------------------------------
(* Documents.  A pair is [key, value, inner]: the bytes of the key and of  *)
(* the value, and, when the value is a map itself, << its description >>.  *)

Pairs(d) == DOMAIN d.pairs

\* The elements of a map: keys and values in turn.
Elems(d) == [n \in 1 .. 2 * Len(d.pairs) |->
                IF n % 2 = 1 THEN d.pairs[(n + 1) \div 2].key
                             ELSE d.pairs[n \div 2].value]

MapBytes(d) ==
    << IF d.indefinite THEN 191 ELSE 160 + Len(d.pairs) >>
        \o FlattenSeq(Elems(d)) \o (IF d.indefinite THEN << BREAK >> ELSE << >>)

IsMap(d) ==
    /\ Len(d.pairs) <= 23
    /\ \A i \in Pairs(d) :
        d.pairs[i].inner # << >> => d.pairs[i].value = MapBytes(d.pairs[i].inner[1])

ASSUME MapAssumption == \A d \in Maps : IsMap(d)
ASSUME DecoderAssumption ==
    /\ Missing \subseteq Nat /\ Keys \subseteq 0 .. 23 /\ StaleByte \in Byte
    /\ RootElems \in 0 .. SIZE_MAX
    /\ ManuallyProcess \in BOOLEAN /\ AskOnce \in BOOLEAN /\ StopModes \subseteq BOOLEAN

\* The map and one more value, or the map with missing bytes.
Payload(d, missing) ==
    IF missing = 0 THEN MapBytes(d) \o << 0 >>
    ELSE SubSeq(MapBytes(d), 1, Len(MapBytes(d)) - missing)

-----------------------------------------------------------------------------
VARIABLES
    document,   \* the map being decoded
    bytes,      \* its payload
    zs,         \* the zcbor machine
    calls,      \* the maps and unions the decoder is inside of
    call,       \* << the library call whose loop is running >>, or << >>
    ret,        \* what the last call returned (TRUE while one runs)
    failing,    \* the decoder is on its way out after a failed call
    seen        \* ghost: [processed, found], pairs of the innermost map

vars == << document, bytes, zs, calls, call, ret, failing, seen >>

NothingSeen == [processed |-> {}, found |-> {}]

InitialCursor(len) ==
    [payload |-> 0, payload_bak |-> 0, payload_end |-> len,
     elem_count |-> RootElems, payload_moved |-> FALSE, inside_cbor_bstr |-> FALSE,
     decode_state |->
        [indefinite_length_array |-> FALSE, counting_map_elems |-> FALSE,
         elem_state_backed_up |-> FALSE, map_search_elem_state |-> 0,
         map_elem_count |-> 0, map_elems_processed |-> 0,
         map_start_backup_num |-> 0]]

Init ==
    /\ document \in Maps
    /\ \E missing \in Missing : bytes = Payload(document, missing)
    /\ \E stop \in StopModes :
       zs = [state |-> InitialCursor(Len(bytes)), backup_list |-> << >>,
             mem |-> [a \in Address |-> StaleByte], error |-> "SUCCESS",
             stop_on_error |-> stop]
    /\ calls = << >>
    /\ call = << >>
    /\ ret = TRUE
    /\ failing = FALSE
    /\ seen = NothingSeen

Here == calls[Len(calls)]

\* The address of the element after the first n of the innermost map.
Position(n) == Here.first + Len(FlattenSeq(SubSeq(Elems(Here.map), 1, n)))

AtKey(i)   == zs.state.payload = Position(2 * i - 2)
AtValue(i) == zs.state.payload = Position(2 * i - 1)

Idle == call = << >> /\ ~failing
Inside(name) == calls # << >> /\ Here.name = name
Running(name) == call # << >> /\ call[1].name = name

-----------------------------------------------------------------------------
(* Entering maps.                                                          *)

\* A failed start ends the decode (ZcborBackup has what may follow one).
EnterMap(d) ==
    LET entered == [name |-> "umap", map |-> d, first |-> zs.state.payload + 1,
                    before |-> seen]
    IN  /\ Idle
        /\ \E h \in {HeaderAt(bytes, zs.state.payload)} :
           \E r \in {zcbor_unordered_map_start_decode(zs, h)} :
             /\ zs' = r.m
             /\ ret' = r.ok
             /\ failing' = ~r.ok
             /\ calls' = IF r.ok THEN Append(calls, entered) ELSE << >>
        /\ seen' = NothingSeen
        /\ UNCHANGED << document, bytes, call >>

DocumentStart == calls = << >> /\ zs.state.payload = 0 /\ EnterMap(document)

InnerStart ==
    /\ calls # << >>
    /\ \E i \in Pairs(Here.map) :
        AtValue(i) /\ Here.map.pairs[i].inner # << >> /\ EnterMap(Here.map.pairs[i].inner[1])

-----------------------------------------------------------------------------
(* Searching.                                                              *)

\* The loop of the call is over and the call returns r.
Returns(r) == zs' = r.m /\ ret' = r.ok /\ call' = << >>

SearchStart(key) ==
    /\ Idle /\ calls # << >>
    /\ AskOnce => \A i \in seen.processed : Here.map.pairs[i].key # << key >>
    /\ IF zs.state.elem_count % 2 = 1
       THEN Returns(Err(zs, "MAP_MISALIGNED"))
       ELSE /\ call' = << [name |-> "search", key |-> key, payload |-> zs.state.payload,
                           elem_count |-> zs.state.elem_count, skips |-> 0] >>
            /\ ret' = TRUE
            /\ UNCHANGED zs
    /\ seen' = [seen EXCEPT !.found = {}]
    /\ UNCHANGED << document, bytes, calls, failing >>

\* error: the search is undone.
BugUndoesCursorOnly(m) == Failure([m EXCEPT !.state.payload = call[1].payload])
Undone(m) == Failure([m EXCEPT !.state.payload = call[1].payload,
                               !.state.elem_count = call[1].elem_count])

\* The end of the loop's body: once round, or another turn.
BugNoWrap(m) ==
    IF m.state.elem_count \in {call[1].elem_count, zcbor_current_max_elem_count(m.state)}
    THEN Returns(Undone(zcbor_error(m, "ELEM_NOT_FOUND")))
    ELSE zs' = m /\ call' = << [call[1] EXCEPT !.skips = 0] >> /\ UNCHANGED ret

LoopCondition(m) ==
    IF m.state.elem_count = call[1].elem_count
    THEN Returns(Undone(zcbor_error(m, "ELEM_NOT_FOUND")))
    ELSE zs' = m /\ call' = << [call[1] EXCEPT !.skips = 0] >> /\ UNCHANGED ret

\* The flags for the pairs seen so far, while their number is not known yet.
Counted(m) ==
    IF m.state.decode_state.counting_map_elems
    THEN GrowMap(m, SizeT(ZCBOR_LARGE_ELEM_COUNT - m.state.elem_count + 2))
    ELSE Success(m)

try_key(m, key) ==
    LET r == zcbor_uint32_pexpect(m, bytes, key) IN
    IF r.ok THEN r
    ELSE Failure([r.m EXCEPT !.state.payload = m.state.payload,
                             !.state.elem_count = m.state.elem_count])

\* The body of the loop: back to the first key at the end of the map ...
SearchRestarts ==
    /\ Running("search") /\ call[1].skips = 0 /\ AtEnd(bytes, zs.state)
    /\ \E r \in {handle_map_end(zs)} :
         IF r.ok THEN LoopCondition(r.m) ELSE Returns(Undone(r.m))
    /\ UNCHANGED << document, bytes, calls, failing, seen >>

\* ... else this pair's flag, if new (without room the call returns as it is),
\* and its key ...
SearchTries ==
    /\ Running("search") /\ call[1].skips = 0 /\ ~AtEnd(bytes, zs.state)
    /\ \E c \in {Counted(zs)} : \E t \in {should_try_key(c.m)} :
       \E k \in {IF t.ok THEN try_key(t.m, call[1].key) ELSE t} :
         LET p    == IF ManuallyProcess THEN k ELSE zcbor_elem_processed(k.m)
             here == { i \in Pairs(Here.map) : AtKey(i) }
         IN  \/ ~c.ok /\ Returns(c) /\ UNCHANGED seen
             \/ /\ c.ok /\ k.ok
                /\ Returns(p)
                /\ seen' = [processed |-> seen.processed \cup
                                IF p.ok /\ ~ManuallyProcess THEN here ELSE {},
                            found |-> here]
             \/ /\ c.ok /\ ~k.ok
                /\ zs' = k.m
                /\ call' = << [call[1] EXCEPT !.skips = 2] >>
                /\ UNCHANGED << ret, seen >>
    /\ UNCHANGED << document, bytes, calls, failing >>

BugSkipsOn ==
    /\ Running("search") /\ call[1].skips > 0
    /\ \E s \in {zcbor_any_skip(zs, bytes)} :
         \/ call[1].skips = 1 /\ LoopCondition(s.m)
         \/ /\ call[1].skips = 2
            /\ zs' = s.m
            /\ call' = << [call[1] EXCEPT !.skips = 1] >>
            /\ UNCHANGED ret
    /\ UNCHANGED << document, bytes, calls, failing, seen >>

\* ... and if it is another one, over the key and then over the value.
SearchSkips ==
    /\ Running("search") /\ call[1].skips > 0
    /\ \E s \in {zcbor_any_skip(zs, bytes)} :
         \/ ~s.ok /\ Returns(Undone(s.m))
         \/ s.ok /\ call[1].skips = 1 /\ LoopCondition(s.m)
         \/ /\ s.ok /\ call[1].skips = 2
            /\ zs' = s.m
            /\ call' = << [call[1] EXCEPT !.skips = 1] >>
            /\ UNCHANGED ret
    /\ UNCHANGED << document, bytes, calls, failing, seen >>

\* Where elements are processed manually: after the key was found.
ElemProcessed ==
    /\ ManuallyProcess /\ Idle /\ seen.found # {}
    /\ \E r \in {zcbor_elem_processed(zs)} :
         /\ Returns(r)
         /\ seen' = [processed |-> seen.processed \cup IF r.ok THEN seen.found ELSE {},
                     found |-> {}]
    /\ UNCHANGED << document, bytes, calls, failing >>

-----------------------------------------------------------------------------
(* Values.                                                                 *)

OnValue == calls # << >> /\ \E i \in Pairs(Here.map) : AtValue(i)

SkipValue ==
    /\ Idle /\ OnValue
    /\ \E r \in {zcbor_any_skip(zs, bytes)} : Returns(r)
    /\ UNCHANGED << document, bytes, calls, failing, seen >>

\* A value of another type than the schema has.
WrongValue ==
    /\ Idle /\ OnValue
    /\ \E t \in {type_check(zs, HeaderAt(bytes, zs.state.payload), TSTR)} :
         ~t.ok /\ Returns(t)
    /\ UNCHANGED << document, bytes, calls, failing, seen >>

-----------------------------------------------------------------------------
(* Leaving maps.                                                           *)

\* Back to the call around, whose map's pairs are as they were before.
Left(r) ==
    IF Len(r.m.backup_list) < Len(zs.backup_list)
    THEN calls' = SubSeq(calls, 1, Len(calls) - 1) /\ seen' = Here.before
    ELSE UNCHANGED << calls, seen >>

MapEnd ==
    /\ Idle /\ Inside("umap")
    /\ \E c \in {EndChecks(zs, AtBreak(bytes, zs.state))} :
         \/ c.ok /\ zs' = c.m /\ call' = << [name |-> "end"] >> /\ ret' = TRUE
         \/ ~c.ok /\ Returns(c)
    /\ UNCHANGED << document, bytes, calls, failing, seen >>

\* What is left is skipped; whether that works is not looked at.
EndSkips ==
    /\ Running("end") /\ ~AtEnd(bytes, zs.state)
    /\ zs' = zcbor_any_skip(zs, bytes).m
    /\ UNCHANGED << document, bytes, calls, call, ret, failing, seen >>

EndReturns ==
    /\ Running("end") /\ AtEnd(bytes, zs.state)
    /\ \E r \in {list_map_end_decode(zs, AtBreak(bytes, zs.state))} :
         Returns(r) /\ Left(r)
    /\ UNCHANGED << document, bytes, failing >>

\* After a failed call the generated code forces the end.
MapForceEnd ==
    /\ call = << >> /\ Inside("umap") /\ (failing \/ ~ret)
    /\ Returns(zcbor_list_map_end_force_decode(zs))
    /\ failing' = TRUE
    /\ calls' = SubSeq(calls, 1, Len(calls) - 1)
    /\ seen' = Here.before
    /\ UNCHANGED << document, bytes >>

-----------------------------------------------------------------------------
(* Unions, opened anywhere in a map.                                       *)

UnionStart ==
    LET entered == [name |-> "union", map |-> Here.map, first |-> Here.first, before |-> seen]
    IN  /\ Idle /\ calls # << >>
        /\ \E r \in {zcbor_union_start_code(zs)} :
             Returns(r) /\ calls' = IF r.ok THEN Append(calls, entered) ELSE calls
        /\ UNCHANGED << document, bytes, failing, seen >>

UnionElem ==
    /\ call = << >> /\ Inside("union") /\ (failing \/ ~ret)
    /\ \E r \in {zcbor_union_elem_code(zs)} :
         /\ Returns(r)
         /\ failing' = ~r.ok
         /\ seen' = IF r.ok THEN Here.before ELSE seen
    /\ UNCHANGED << document, bytes, calls >>

UnionEnd ==
    /\ call = << >> /\ Inside("union")
    /\ Returns(zcbor_union_end_code(zs))
    /\ calls' = SubSeq(calls, 1, Len(calls) - 1)
    /\ UNCHANGED << document, bytes, failing, seen >>

\* The decode is over.
Finished == calls = << >> /\ (failing \/ zs.state.payload > 0) /\ UNCHANGED vars

SearchTurn == SearchRestarts \/ SearchTries \/ SearchSkips
EndTurn    == EndSkips \/ EndReturns

Next ==
    \/ DocumentStart \/ InnerStart
    \/ \E key \in Keys : SearchStart(key)
    \/ SearchTurn
    \/ ElemProcessed \/ SkipValue \/ WrongValue
    \/ MapEnd \/ EndTurn \/ MapForceEnd
    \/ UnionStart \/ UnionElem \/ UnionEnd
    \/ Finished

\* A loop of the library runs on by itself; the decoder may stop at any time.
Spec == Init /\ [][Next]_vars /\ WF_vars(SearchTurn) /\ WF_vars(EndTurn)

-----------------------------------------------------------------------------
(* Properties.                                                             *)

\* All of the document is there, and there is a flag for each of its pairs.
Complete == Len(bytes) > Len(MapBytes(document))

\* Pairs of the innermost map with a key.
PairsOf(key) == { i \in Pairs(Here.map) : Here.map.pairs[i].key = << key >> }

SearchReturns == Running("search") /\ call' = << >>

\* The two things that say where a decoder is, payload and elem_count, tell of
\* the same element at all times: through wrap-arounds, roll-backs, nested maps
\* and failed searches.  zcbor counts elements down from the size of the map or,
\* while that is unknown, from ZCBOR_LARGE_ELEM_COUNT.
CursorAligned ==
    (calls # << >> /\ ~failing) =>
        LET n == zcbor_current_max_elem_count(zs.state) - zs.state.elem_count
        IN  n \in 0 .. 2 * Len(Here.map.pairs) /\ zs.state.payload = Position(n)

\* A search that succeeds points to the value of a pair that has the key and
\* that was not processed before.
FoundIsRight ==
    [][SearchReturns /\ ret' =>
        \E i \in PairsOf(call[1].key) :
            i \notin seen.processed /\ zs'.state.payload = Position(2 * i - 1)]_vars

\* A search that fails in a complete map means that every pair with the key was
\* processed, wherever in the map the search began.
NotFoundIsGone ==
    [][SearchReturns /\ ~ret' /\ Complete =>
        PairsOf(call[1].key) \subseteq seen.processed]_vars

\* zcbor_decode.h says of a search: "If unsuccessful, the state will be
\* unchanged".  Of the cursor that is meant to hold whatever failed.
FailsInPlace ==
    [][SearchReturns /\ ~ret' =>
        /\ zs'.state.payload = call[1].payload
        /\ zs'.state.elem_count = call[1].elem_count]_vars

\* The flags of a map, and the saved ones of each rollback point, tell which of
\* the pairs seen so far were processed when they were saved.
FlagsTellProcessed ==
    LET Stack == Append(zs.backup_list, zs.state)
        Ghost(j) == IF j \in DOMAIN calls THEN calls[j].before ELSE seen
        count(j) == Stack[j].decode_state.map_elem_count
    IN  (SmartSearch /\ ~failing) =>
            \A j \in DOMAIN Stack :
                /\ Ghost(j).processed \subseteq 1 .. count(j)
                /\ \A i \in 1 .. count(j) :
                     FlagIsSet([zs EXCEPT !.state =
                         [Stack[j] EXCEPT !.elem_count =
                             zcbor_current_max_elem_count(Stack[j]) - 2 * (i - 1)]], i - 1)
                       <=> i \notin Ghost(j).processed

\* The end of a map succeeds only if each of its pairs was processed, and then
\* the cursor is right behind the map.
EndMeansAll ==
    [][Running("end") /\ call' = << >> /\ ret' =>
        /\ seen.processed = Pairs(Here.map)
        /\ zs'.state.payload = Here.first + Len(MapBytes(Here.map)) - 1]_vars

\* A map is refused at its end only if a pair of it was not processed, unless
\* the decoder left a value unread.
EndRefusesPart ==
    [][MapEnd /\ call' = << >> /\ Complete /\ zs.state.elem_count % 2 = 0 =>
        seen.processed # Pairs(Here.map)]_vars

\* A search goes round the map once and returns, also where the map is cut.
SearchEnds == Running("search") ~> ~Running("search")

\* The end of a complete map returns, whatever is left to skip.  With
\* stop_on_error, the README says, every function called after an error aborts:
\* the end would have to return then, too.
MapEndReturns == Running("end") /\ Complete ~> ~Running("end")

=============================================================================
