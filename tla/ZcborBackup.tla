---------------------------- MODULE ZcborBackup ----------------------------
(***************************************************************************)
(* A decoder at work on its backups and map-search flags, for any payload. *)
(*                                                                         *)
(* zs is the zcbor machine.  calls is the decoder's own call stack: the    *)
(* unions, repetitions, lists, maps and strings it is inside of.  It is    *)
(* written as zcbor.py generates it (xcode_union, xcode_list, xcode_bstr)  *)
(* and as the loops of multi_decode_backup and zcbor_unordered_map_search  *)
(* have it: once a call fails (failing) the decoder goes back through the  *)
(* enclosing calls, closing each, until a union or a repetition catches    *)
(* the failure.  What the payload holds is chosen anew at every read.      *)
(***************************************************************************)
EXTENDS ZcborDecode

CONSTANTS
    PayloadLen,     \* bytes of payload
    RootElems,      \* elem_count the state was created with
    Headers,        \* the headers the payload may hold
    StaleBytes,     \* what the flag buffer may hold before its first use
    ManuallyProcess, \* constant_state->manually_process_elem
    MapKinds,       \* how the decoder enters maps: as "ordered", "unordered" ones
    StopModes,      \* what the caller sets constant_state->stop_on_error to
    MovesPayload    \* TRUE: the decoder calls zcbor_update_state as it goes

ASSUME PayloadAssumption == PayloadLen \in Nat /\ MovesPayload \in BOOLEAN
ASSUME StopAssumption == StopModes \subseteq BOOLEAN
ASSUME RootAssumption == RootElems \in 0 .. SIZE_MAX
ASSUME StaleAssumption == StaleBytes \subseteq Byte 
                   /\ ManuallyProcess \in BOOLEAN
                   /\ MapKinds \subseteq {"ordered", "unordered"}
ASSUME HeaderAssumption ==
    Headers \subseteq [major : 0 .. 7, additional : 0 .. 31,
                       value : 0 .. SIZE_MAX, minimal : BOOLEAN]

VARIABLES
    zs,         \* the zcbor machine
    calls,      \* the calls the decoder is inside of
    failing,    \* a call has failed and no one has caught it yet
    search      \* << >>, or << where the running search of a map began >>

vars == << zs, calls, failing, search >>

Calls == {"union", "multi", "list", "umap", "bstr"}

-----------------------------------------------------------------------------
InitialCursor ==
    [payload |-> 0, payload_bak |-> 0, payload_end |-> PayloadLen,
     elem_count |-> RootElems, payload_moved |-> FALSE, inside_cbor_bstr |-> FALSE,
     decode_state |->
        [indefinite_length_array |-> FALSE, counting_map_elems |-> FALSE,
         elem_state_backed_up |-> FALSE, map_search_elem_state |-> 0,
         map_elem_count |-> 0, map_elems_processed |-> 0,
         map_start_backup_num |-> 0]]

\* The flag buffer is the caller's stack memory: any bytes.  The decode-only
\* fields that zcbor_new_state leaves unset are never read before a list or a
\* map sets them, so they start with a fixed value.
Init ==
    /\ \E b \in StaleBytes, stop \in StopModes :
         zs = [state |-> InitialCursor, backup_list |-> << >>,
               mem |-> [a \in Address |-> b], error |-> "SUCCESS", stop_on_error |-> stop]
    /\ calls = << >>
    /\ failing = FALSE
    /\ search = << >>

\* The decoder can go on reading: nothing has failed, no search is running.
Decoding == ~failing /\ search = << >>

In(call) == calls # << >> /\ calls[Len(calls)] = call

\* The list or map the decoder is inside of, unions and repetitions aside.
InUnorderedMap ==
    \E i \in 1 .. Len(calls) :
        /\ calls[i] = "umap"
        /\ \A j \in i + 1 .. Len(calls) : calls[j] \in {"union", "multi"}

-----------------------------------------------------------------------------
(* How a call's result reaches the decoder.                                *)

Return(r) == zs' = r.m /\ failing' = ~r.ok /\ UNCHANGED search

Enter(call, r) ==
    /\ Decoding
    /\ Return(r)
    /\ calls' = IF r.ok THEN Append(calls, call) ELSE calls

Leave(call, r) ==
    /\ In(call)
    /\ zs' = r.m
    /\ calls' = SubSeq(calls, 1, Len(calls) - 1)
    /\ UNCHANGED search

-----------------------------------------------------------------------------
(* Values.                                                                 *)

\* zcbor_uint64_decode, standing for any function that reads one value.
Decode == \E h \in Headers :
    LET t == type_check(zs, h, PINT)
        v == value_extract(zs, h, 8, FALSE)
    IN  /\ Decoding
        /\ Return(IF t.ok THEN v ELSE t)
        /\ UNCHANGED calls

\* What becomes of the copy zcbor_any_skip works on, from the cursor s on.  The
\* element's header lies in the payload, but a string behind it is compared with
\* what the payload had left before the header, so the copy can end up behind
\* payload_end.  One error stands for all.
SkipResults(s) ==
    {Skipped(a) : a \in s.payload + 1 .. 2 * s.payload_end - s.payload}
        \cup {[CannotSkip("NO_PAYLOAD") EXCEPT !.rewinds = back] : back \in BOOLEAN}

\* A value of any type.
AnySkip == \E taken \in SkipResults(zs.state) :
    Decoding /\ Return(any_skip(zs, taken)) /\ UNCHANGED calls

\* zcbor_update_state, by a decoder that receives its payload in pieces.
MovePayload ==
    /\ MovesPayload
    /\ Decoding
    /\ Return(Success(zcbor_update_state(zs, PayloadLen)))
    /\ UNCHANGED calls

-----------------------------------------------------------------------------
(* Lists, maps and strings.                                                *)

ListStart == \E h \in Headers : Enter("list", zcbor_list_start_decode(zs, h))

\* A map whose keys come in a known order is closed as a list is.
MapStart == \E h \in Headers :
    "ordered" \in MapKinds /\ Enter("list", zcbor_map_start_decode(zs, h))

UnorderedMapStart == \E h \in Headers :
    "unordered" \in MapKinds /\ Enter("umap", zcbor_unordered_map_start_decode(zs, h))

\* The end of a list whose contents decoded, and the forced end if not.
ListEnd == \E at_break \in BOOLEAN :
    LET r == list_map_end_decode(zs, at_break) IN
    Decoding /\ Leave("list", r) /\ failing' = ~r.ok

\* Where skipping the rest of the map, at least n elements, from address a on can
\* end: behind its last element, or at its break.
EndsFrom(s, a, n) ==
    IF s.decode_state.indefinite_length_array THEN a + 1 .. s.payload_end - 1
    ELSE a + n .. 2 * s.payload_end - a - n + 1

\* The loop does not look at the skips' results.  It ends if all of them succeed;
\* if one fails, and was put back to payload_bak, it may still end from there, or
\* not.  It never does where no skip can succeed.
Rests(m) ==
    LET s == m.state IN
    IF ~initial_checks(m).ok \/ s.elem_count = 0 THEN {}
    ELSE {Skipped(a) : a \in EndsFrom(s, s.payload, s.elem_count)}
           \cup {[Skipped(a) EXCEPT !.error = "NO_PAYLOAD"] :
                    a \in IF m.stop_on_error THEN {} ELSE EndsFrom(s, s.payload_bak, 1)}

UnorderedMapEnd == \E at_break \in BOOLEAN :
    LET c == EndChecks(zs, at_break)
        loops == c.ok /\ ~zcbor_array_at_end(zs.state, at_break)
    IN  /\ Decoding
        /\ \E rest \in IF loops THEN Rests(c.m) ELSE {Skipped(zs.state.payload)} :
             LET r == zcbor_unordered_map_end_decode(zs, at_break, rest) IN
             Leave("umap", r) /\ failing' = ~r.ok

ListForceEnd == \E call \in {"list", "umap"} :
    failing /\ Leave(call, zcbor_list_map_end_force_decode(zs)) /\ UNCHANGED failing

BstrStart == \E h \in Headers : Enter("bstr", zcbor_bstr_start_decode(zs, h))

\* The generated code calls the end function either way and drops its result.
BstrEnd == search = << >> /\ Leave("bstr", zcbor_bstr_end_decode(zs)) /\ UNCHANGED failing

-----------------------------------------------------------------------------
(* Unordered maps.                                                         *)

\* zcbor_unordered_map_search loops once over the pairs of the map, from
\* wherever the cursor is.  Each turn of the loop is a step: it goes back to the
\* first key at the end of the map, else takes the key if its flag is still set
\* and it is the one, or skips the pair.
SearchStart ==
    /\ InUnorderedMap
    /\ Decoding
    /\ IF zs.state.elem_count % 2 = 1
       THEN Return(Err(zs, "MAP_MISALIGNED"))
       ELSE /\ search' = << [payload |-> zs.state.payload,
                             elem_count |-> zs.state.elem_count] >>
            /\ UNCHANGED << zs, failing >>
    /\ UNCHANGED calls

\* How the loop ends: with the key, with an error, or (BackToStart) undone.
SearchReturns(r) == zs' = r.m /\ failing' = ~r.ok /\ search' = << >>

BackToStart(m) ==
    Failure([m EXCEPT !.state.payload = search[1].payload,
                      !.state.elem_count = search[1].elem_count])

\* The end of the loop's body: once round, or not yet.
SearchGoesOn(m) ==
    IF m.state.elem_count = search[1].elem_count
    THEN SearchReturns(BackToStart(zcbor_error(m, "ELEM_NOT_FOUND")))
    ELSE zs' = m /\ UNCHANGED << failing, search >>

\* The flags for the pairs seen so far, while their number is not known yet.
SearchFlags ==
    IF zs.state.decode_state.counting_map_elems
    THEN GrowMap(zs, SizeT(ZCBOR_LARGE_ELEM_COUNT - zs.state.elem_count + 2))
    ELSE Success(zs)

SearchRestarts ==
    LET r == handle_map_end(zs) IN
    /\ search # << >>
    /\ \E at_break \in BOOLEAN : zcbor_array_at_end(zs.state, at_break)
    /\ IF r.ok THEN SearchGoesOn(r.m) ELSE SearchReturns(BackToStart(r.m))
    /\ UNCHANGED calls

SearchFinds ==
    LET g == SearchFlags
        key == [g.m EXCEPT !.state.payload_bak = g.m.state.payload,
                           !.state.payload = @ + 1, !.state.elem_count = @ - 1]
    IN  /\ search # << >>
        /\ \E at_break \in BOOLEAN : ~zcbor_array_at_end(zs.state, at_break)
        /\ g.ok /\ should_try_key(g.m).ok
        /\ g.m.state.elem_count > 0 /\ g.m.state.payload < g.m.state.payload_end
        /\ zcbor_check_error(g.m)
        /\ SearchReturns(IF ManuallyProcess THEN Success(key)
                                            ELSE zcbor_elem_processed(key))
        /\ UNCHANGED calls

\* try_key undoes what a key decoder did that found another type or another
\* value, payload_bak and the error aside.
KeysRefused(m) ==
    LET i == initial_checks(m) IN
    IF ~i.ok THEN {i.m}
    ELSE {zcbor_error(m, "WRONG_TYPE"),
          [zcbor_error(m, "WRONG_VALUE") EXCEPT !.state.payload_bak = m.state.payload]}

\* No flag to try, or another key: key and value are skipped.
SearchSkips ==
    LET g == SearchFlags
        t == should_try_key(g.m)
    IN  /\ search # << >>
        /\ \E at_break \in BOOLEAN : ~zcbor_array_at_end(zs.state, at_break)
        /\ IF ~g.ok THEN SearchReturns(g)
           ELSE \E m \in IF t.ok THEN KeysRefused(t.m) ELSE {t.m} :
                \E key \in {any_skip(m, taken) : taken \in SkipResults(m.state)} :
                \E value \in {any_skip(key.m, taken) : taken \in SkipResults(key.m.state)} :
                   IF key.ok /\ value.ok THEN SearchGoesOn(value.m)
                   ELSE SearchReturns(BackToStart(IF key.ok THEN value.m ELSE key.m))
        /\ UNCHANGED calls

\* Where elements are processed manually: by the decoder, once it has the value.
ElemProcessed ==
    /\ ManuallyProcess
    /\ InUnorderedMap
    /\ Decoding
    /\ Return(zcbor_elem_processed(zs))
    /\ UNCHANGED calls

-----------------------------------------------------------------------------
(* Unions and repetitions.                                                 *)

UnionStart == Enter("union", zcbor_union_start_code(zs))

\* The next alternative, after the one before failed.
UnionElem ==
    /\ failing
    /\ In("union")
    /\ Return(zcbor_union_elem_code(zs))
    /\ UNCHANGED calls

UnionEnd == search = << >> /\ Leave("union", zcbor_union_end_code(zs)) /\ UNCHANGED failing

\* One iteration of multi_decode_backup: the backup, then either the decoder
\* succeeds and the backup goes, or it fails and the state is rolled back.
IterationStart ==
    Enter("multi", zcbor_new_backup_w_elem_state(zs, zs.state.elem_count, TRUE))

IterationOk ==
    LET r == zcbor_process_backup(zs, {"CONSUME"}) IN
    Decoding /\ Leave("multi", r) /\ failing' = ~r.ok

IterationFails ==
    LET r == zcbor_process_backup(zs, {"CONSUME", "RESTORE"}) IN
    /\ failing
    /\ Leave("multi", r)
    /\ failing' \in IF r.ok THEN BOOLEAN ELSE {TRUE}    \* enough iterations, or not

-----------------------------------------------------------------------------
\* The decode failed; the next one starts afresh in the same memory.
NewState ==
    /\ failing /\ calls = << >>
    /\ \E stop \in StopModes :
         zs' = [zcbor_new_state(zs, PayloadLen, RootElems) EXCEPT !.stop_on_error = stop]
    /\ failing' = FALSE
    /\ UNCHANGED << calls, search >>

Next ==
    \/ Decode \/ AnySkip \/ MovePayload
    \/ ListStart \/ MapStart \/ UnorderedMapStart
    \/ ListEnd \/ UnorderedMapEnd \/ ListForceEnd
    \/ BstrStart \/ BstrEnd
    \/ SearchStart \/ SearchRestarts \/ SearchFinds \/ SearchSkips
    \/ ElemProcessed
    \/ UnionStart \/ UnionElem \/ UnionEnd
    \/ IterationStart \/ IterationOk \/ IterationFails
    \/ NewState

Spec == Init /\ [][Next]_vars

-----------------------------------------------------------------------------
(* Properties.                                                             *)

DecodeState ==
    [indefinite_length_array : BOOLEAN, counting_map_elems : BOOLEAN,
     elem_state_backed_up : BOOLEAN, map_search_elem_state : 0 .. FlagBytes,
     map_elem_count : 0 .. SIZE_MAX \div 2, map_elems_processed : 0 .. SIZE_MAX,
     map_start_backup_num : 0 .. NumBackups]

\* Skipping takes a cursor no further than this behind the payload.
MaxPayload == 2 * PayloadLen

Cursor ==
    [payload : 0 .. MaxPayload, payload_bak : 0 .. PayloadLen,
     payload_end : 0 .. PayloadLen, elem_count : 0 .. SIZE_MAX,
     payload_moved : BOOLEAN, inside_cbor_bstr : BOOLEAN,
     decode_state : DecodeState]

Errors == {"SUCCESS", "NO_PAYLOAD", "WRONG_TYPE", "LOW_ELEM_COUNT", "HIGH_ELEM_COUNT",
           "INVALID_VALUE_ENCODING", "ADDITIONAL_INVAL", "INT_SIZE", "NO_BACKUP_MEM",
           "NO_BACKUP_ACTIVE", "BAD_ARG", "PAYLOAD_OUTDATED", "MAP_MISALIGNED",
           "MAP_FLAGS_NOT_AVAILABLE", "ELEMS_NOT_PROCESSED", "PAYLOAD_NOT_CONSUMED",
           "ELEM_NOT_FOUND", "WRONG_VALUE"}

Machine == [state : Cursor, backup_list : Seq(Cursor), mem : [Address -> Byte],
            error : Errors, stop_on_error : BOOLEAN]

\* Every field holds what its C type and use allow (no count wraps, no section
\* ends behind the payload, and no cursor gets further behind it than the payload
\* is long), and no more backups are in use than there is room for.
TypeOK ==
    /\ zs \in Machine
    /\ Len(zs.backup_list) <= NumBackups
    /\ calls \in Seq(Calls)
    /\ failing \in BOOLEAN
    /\ search \in Seq([payload : 0 .. MaxPayload, elem_count : 0 .. SIZE_MAX])

-----------------------------------------------------------------------------
\* The backups in use, and the state on top of them.
Stack == Append(zs.backup_list, zs.state)

\* A call has failed and left its backup on the list, so the backups no longer
\* belong to the calls the decoder is in.
Orphaned == Len(zs.backup_list) # Len(calls)

\* No cursor's flags reach past the end of the flag buffer: exit_map,
\* do_elem_state_backup and allocate_map_flags check this each from other
\* numbers, and a discard does not check it at all.
FlagsInBounds ==
    SmartSearch => \A i \in DOMAIN Stack : FlagEnd(Stack[i]) <= FlagBytes

\* The flags of each backup lie below those of every later one and of the
\* state, so work on the innermost map cannot reach those of an outer one.
FlagsApart ==
    SmartSearch /\ ~Orphaned =>
        \A i, j \in DOMAIN Stack :
            i < j => FlagEnd(Stack[i]) <= Stack[j].decode_state.map_search_elem_state

\* Whatever a decoder does after taking a backup, the backup stays as it was,
\* flags included, until it is removed or zcbor_update_state moves it.
SavedStaysSaved ==
    [][~Orphaned /\ ~Orphaned' =>
         \A i \in DOMAIN zs.backup_list \cap DOMAIN zs'.backup_list :
            LET b == zs.backup_list[i]  bb == zs'.backup_list[i] IN
            /\ b.elem_count = bb.elem_count
            /\ b.decode_state = bb.decode_state
            /\ b.payload # bb.payload => bb.payload_moved
            /\ \A a \in FlagAddresses(b) : zs'.mem[a] = zs.mem[a]]_vars

\* The next alternative of a union can always be tried: there was room for a
\* second copy of the flags when the union started, and there still is.
RetryIsPossible ==
    (In("union") /\ ~Orphaned /\ zcbor_check_error(zs)
        /\ ~zs.backup_list[Len(calls)].payload_moved)
      => zcbor_union_elem_code(zs).ok

\* Taking a rollback point does all of it or nothing: where the flags have no
\* room for a copy, no backup is left behind.
MarkIsAtomic ==
    LET r == zcbor_union_start_code(zs) IN
    ~r.ok => r.m = [zs EXCEPT !.error = r.m.error]

\* Without smart search a map's elements are only counted: no cursor has
\* processed more of them than its map has, also after a rollback.
ProcessedWithinCount ==
    \A i \in DOMAIN Stack :
        ~SmartSearch => Stack[i].decode_state.map_elems_processed
                          <= Stack[i].decode_state.map_elem_count

\* The section a cursor reads lies in the sections of the cursors below it: a
\* string's contents end no later than the string around it, also after pieces of
\* payload were exchanged.  (The cursor itself may be behind its section, and after
\* a string was left with contents unread, its backup stays, and a search may go
\* back to a map around it while backups from within the string are still in use.)
SectionsNest ==
    ~Orphaned =>
        \A i, j \in DOMAIN Stack :
            i < j => Stack[j].payload_end <= Stack[i].payload_end

\* Behind the end of its section, where skipping a string can leave it, a cursor
\* goes no further: until the section is left it stays, or goes back to where it,
\* a backup or the running search once was.
NothingReadBehind ==
    [][zs.state.payload > zs.state.payload_end =>
         zs'.state.payload \in
            {zs.state.payload, 0} \cup {zs.backup_list[i].payload : i \in DOMAIN zs.backup_list}
              \cup {search[i].payload : i \in DOMAIN search}]_vars

\* zcbor_common.h asks for the memory of elem_state only where unordered maps are
\* decoded, so elsewhere a union starts whenever there is a backup left.
UnionStartsInRoom ==
    (Decoding /\ "umap" \notin {calls[i] : i \in DOMAIN calls}
        /\ Len(zs.backup_list) < NumBackups)
      => zcbor_union_start_code(zs).ok

\* With stop_on_error the first error is kept and nothing moves any more, though
\* the decoder goes on closing its calls, until a new start.
FirstErrorStops ==
    [][zs.stop_on_error /\ zs.error # "SUCCESS" =>
         zs' = zs \/ (zs'.error = "SUCCESS" /\ calls = << >>)]_vars

\* Calls and backups stay paired even when calls fail.
NoOrphans == ~Orphaned

\* Without CBOR in strings only maps break that: the end of an unordered one that
\* finds an element unprocessed, and the start of one whose flags have no room or
\* whose elements a size_t does not count.  Whatever else fails, inside of whatever,
\* has taken no backup or gives it up again.
OnlyMapsStrand ==
    [][~Orphaned /\ ~zs.stop_on_error /\ Orphaned' =>
         \/ UnorderedMapEnd /\ zs'.error = "ELEMS_NOT_PROCESSED"
         \/ UnorderedMapStart /\ zs'.error = "MAP_FLAGS_NOT_AVAILABLE"
         \/ (MapStart \/ UnorderedMapStart) /\ zs'.error = "INT_SIZE"]_vars

-----------------------------------------------------------------------------
(* What the backup list stands for: snapshots that own their flags.        *)

\* Flag i of the cursor c is set in the machine m.  Without smart search only
\* the number of flags that are is known.
FlagLeft(m, c, i) ==
    IF SmartSearch THEN i % BitsPerByte \in m.mem[FlagByteOf(c, i)]
                   ELSE i >= c.decode_state.map_elems_processed

FlagsOf(m, c) ==
    IF c.decode_state.map_elem_count = 0 THEN << >>
    ELSE [i \in 0 .. c.decode_state.map_elem_count - 1 |-> FlagLeft(m, c, i)]

Snapshot(m, c) ==
    [payload |-> c.payload, elem_count |-> c.elem_count, flags |-> FlagsOf(m, c)]

\* A backup from before zcbor_update_state has no place to go back to.
Saved(m, b) ==
    [Snapshot(m, b) EXCEPT !.payload = IF b.payload_moved THEN -1 ELSE @]

Promise == INSTANCE BackupStack WITH
    Payloads <- 0 .. MaxPayload,
    cur      <- IF Orphaned THEN [flags |-> << >>] ELSE Snapshot(zs, zs.state),
    saved    <- IF Orphaned THEN << >>
                ELSE [i \in DOMAIN zs.backup_list |-> Saved(zs, zs.backup_list[i])],
    orphaned <- Orphaned

\* The shared flag buffer implements snapshots that each own their flags.
PromiseKept == Promise!Spec

=============================================================================
