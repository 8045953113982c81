---------------------------- MODULE ZcborDecode ----------------------------
(***************************************************************************)
(* The decoder functions of zcbor_decode.c that move the cursor, the       *)
(* backup list or the map-search flags, for any payload.                   *)
(*                                                                         *)
(* A function that reads the payload takes what it reads as a parameter: a *)
(* header h = [major, additional, value, minimal] with the two parts of    *)
(* the header byte, the value of the bytes it announces, and whether it is *)
(* the shortest encoding of that value; or at_break, whether the next byte *)
(* is 0xFF.  So the same operators serve a model that lets the payload be  *)
(* anything and one that fixes its bytes.                                  *)
(***************************************************************************)
EXTENDS ZcborState, FiniteSets

CONSTANT EnforceCanonical       \* constant_state->enforce_canonical

ASSUME CanonicalAssumption == EnforceCanonical \in BOOLEAN

PINT == 0   NINT == 1   BSTR == 2   TSTR == 3
LIST == 4   MAP  == 5   TAG  == 6   SIMPLE == 7
INDEFINITE == 31

SIZEOF_SIZE_T == 4              \* sizeof(size_t) on the targets

\* What a size_t holds after an addition or a subtraction.
SizeT(n) == n % (SIZE_MAX + 1)

-----------------------------------------------------------------------------
(* Reading one header.                                                     *)

additional_len(additional) ==
    CASE additional <= 23 -> 0
      [] additional = 24  -> 1
      [] additional = 25  -> 2
      [] additional = 26  -> 4
      [] additional = 27  -> 8
      [] OTHER            -> 15

BugStopsAtEndOnly(m) ==
    IF ~zcbor_check_error(m) THEN Failure(m)
    ELSE IF m.state.payload = m.state.payload_end THEN Err(m, "NO_PAYLOAD")
    ELSE Success(m)

initial_checks(m) ==
    IF ~zcbor_check_error(m) THEN Failure(m)
    ELSE IF m.state.payload >= m.state.payload_end THEN Err(m, "NO_PAYLOAD")
    ELSE Success(m)

type_check(m, h, exp_major_type) ==
    LET i == initial_checks(m) IN
    IF ~i.ok THEN i
    ELSE IF h.major # exp_major_type THEN Err(m, "WRONG_TYPE") ELSE Success(m)

\* FAIL_RESTORE: back to the start of the value read last.
Rewound(m) == [m EXCEPT !.state.payload = m.state.payload_bak,
                        !.state.elem_count = SizeT(@ + 1)]
FAIL_RESTORE(m) == Failure(Rewound(m))
ERR_RESTORE(m, err) == Err(Rewound(m), err)

IsFloat(h) == h.major = SIMPLE /\ h.additional \in 25 .. 27

value_extract(m, h, result_len, indefinite_allowed) ==
    LET len   == additional_len(h.additional)
        indef == h.additional = INDEFINITE /\ indefinite_allowed
        i     == initial_checks(m)
        Advanced(n) == Success([m EXCEPT !.state.payload_bak = m.state.payload,
                                         !.state.payload = @ + n + 1,
                                         !.state.elem_count = @ - 1])
    IN  IF ~i.ok THEN i
        ELSE IF m.state.elem_count = 0 THEN Err(m, "LOW_ELEM_COUNT")
        ELSE IF indef /\ EnforceCanonical THEN Err(m, "INVALID_VALUE_ENCODING")
        ELSE IF indef THEN Advanced(0)
        ELSE IF h.additional > 27 THEN Err(m, "ADDITIONAL_INVAL")
        ELSE IF len > result_len THEN Err(m, "INT_SIZE")
        ELSE IF m.state.payload + len + 1 > m.state.payload_end
        THEN Err(m, "NO_PAYLOAD")
        ELSE IF EnforceCanonical /\ len > 0 /\ ~h.minimal /\ ~IsFloat(h)
        THEN Err(m, "INVALID_VALUE_ENCODING")
        ELSE Advanced(len)

-----------------------------------------------------------------------------
(* Skipping a value, whatever it is: zcbor_any_skip works on a copy of the *)
(* state, and what the copy has come to is a record [at, error, rewinds].  *)

Skipped(a) == [at |-> a, error |-> "SUCCESS", rewinds |-> FALSE]
CannotSkip(err) == [at |-> 0, error |-> err, rewinds |-> FALSE]

\* The caller's cursor follows the copy (taken) if that got through.  A string
\* that does not fit rewinds the caller's cursor, not the copy.
CopyTaken(m, taken) ==
    IF taken.rewinds THEN ERR_RESTORE(m, taken.error)
    ELSE IF taken.error # "SUCCESS" THEN Err(m, taken.error)
    ELSE Success([m EXCEPT !.state.payload = taken.at, !.state.elem_count = @ - 1])

any_skip(m, taken) ==
    LET i == initial_checks(m)
    IN  IF ~i.ok THEN i
        ELSE IF m.state.elem_count = 0 THEN Err(m, "LOW_ELEM_COUNT")
        ELSE CopyTaken(m, taken)

-----------------------------------------------------------------------------
(* The flags of unordered maps.                                            *)

\* Step over the enclosing map's flags and start with none.
BugMapNotLeft(m) == Success([m EXCEPT !.state.decode_state.map_elem_count = 0])

exit_map(m) ==
    IF SmartSearch
    THEN IF FlagEnd(m.state) > FlagBytes THEN Err(m, "MAP_FLAGS_NOT_AVAILABLE")
         ELSE Success([m EXCEPT
                !.state.decode_state.map_search_elem_state = FlagEnd(m.state),
                !.state.decode_state.map_elem_count = 0])
    ELSE Success([m EXCEPT !.state.decode_state.map_elems_processed = 0,
                           !.state.decode_state.map_elem_count = 0])

\* Set the flags of the bytes that old_flags flags did not reach yet.
allocate_map_flags(m, old_flags) ==
    LET flags == m.state.decode_state.map_search_elem_state
        old   == FlagsToBytes(old_flags)
        new   == FlagLen(m.state)
    IN  IF new = old THEN Success(m)
        ELSE IF flags + new > FlagBytes
        THEN Err([m EXCEPT !.state.decode_state.map_elem_count
                                = BitsPerByte * (FlagBytes - flags)],
                 "MAP_FLAGS_NOT_AVAILABLE")
        ELSE Success([m EXCEPT !.mem =
               [a \in DOMAIN m.mem |-> IF a \in flags + old .. flags + new - 1
                                       THEN Bit ELSE m.mem[a]]])

\* update_map_elem_count, then the flags for what it added.
GrowMap(m, elem_count) ==
    LET old == m.state.decode_state.map_elem_count
        new == IF elem_count \div 2 > old THEN elem_count \div 2 ELSE old
        grown == [m EXCEPT !.state.decode_state.map_elem_count = new]
    IN  IF SmartSearch THEN allocate_map_flags(grown, old) ELSE Success(grown)

zcbor_current_max_elem_count(s) ==
    IF s.decode_state.indefinite_length_array THEN ZCBOR_LARGE_ELEM_COUNT
    ELSE 2 * s.decode_state.map_elem_count

\* size_t subtraction: a cursor past the start gives a huge index, not -1.
get_current_index(s, index_offset) ==
    LET cur == SizeT(zcbor_current_max_elem_count(s) - s.elem_count)
    IN  IF index_offset > cur THEN 0 ELSE (cur - index_offset) \div 2

FlagByteOf(s, index) == s.decode_state.map_search_elem_state + index \div BitsPerByte

FlagIsSet(m, index) == index % BitsPerByte \in m.mem[FlagByteOf(m.state, index)]

BugOneShort(m) == [Success(m) EXCEPT !.ok =
    m.state.decode_state.map_elems_processed + 1 < m.state.decode_state.map_elem_count]

should_try_key(m) ==
    LET index == get_current_index(m.state, 0) IN
    IF ~SmartSearch
    THEN IF m.state.decode_state.map_elems_processed < m.state.decode_state.map_elem_count
         THEN Success(m) ELSE Failure(m)
    ELSE IF index >= m.state.decode_state.map_elem_count
    THEN Err(m, "MAP_FLAGS_NOT_AVAILABLE")
    ELSE IF FlagIsSet(m, index) THEN Success(m) ELSE Failure(m)

zcbor_elem_processed(m) ==
    LET s == m.state
        index == get_current_index(s, 1)
    IN  IF s.elem_count >= zcbor_current_max_elem_count(s)
        THEN Err(m, "MAP_MISALIGNED")
        ELSE IF ~SmartSearch
        THEN Success(IF should_try_key(m).ok
                     THEN [m EXCEPT !.state.decode_state.map_elems_processed = @ + 1]
                     ELSE m)
        ELSE IF index >= s.decode_state.map_elem_count
        THEN Err(m, "MAP_FLAGS_NOT_AVAILABLE")
        ELSE Success([m EXCEPT !.mem[FlagByteOf(s, index)] = @ \ {index % BitsPerByte}])

-----------------------------------------------------------------------------
(* Lists and maps.                                                         *)

zcbor_array_at_end(s, at_break) ==
    IF s.decode_state.indefinite_length_array
    THEN s.payload < s.payload_end /\ at_break
    ELSE s.elem_count = 0

list_map_start_decode(m, h, exp_major_type) ==
    LET indef == h.additional = INDEFINITE
        t == type_check(m, h, exp_major_type)
        v == value_extract(m, h, SIZEOF_SIZE_T, TRUE)
        b == zcbor_new_backup(v.m, IF indef THEN ZCBOR_LARGE_ELEM_COUNT ELSE h.value)
    IN  IF ~t.ok THEN t
        ELSE IF ~v.ok THEN v
        ELSE IF ~b.ok THEN FAIL_RESTORE(b.m)
        ELSE exit_map([b.m EXCEPT
               !.state.decode_state.map_start_backup_num = Len(b.m.backup_list),
               !.state.decode_state.indefinite_length_array = indef])

zcbor_list_start_decode(m, h) == list_map_start_decode(m, h, LIST)

\* A map has two elements for each pair that its header announces.
PairsCounted(r) ==
    IF ~r.ok \/ r.m.state.decode_state.indefinite_length_array THEN r
    ELSE IF r.m.state.elem_count >= SIZE_MAX \div 2
    THEN ERR_RESTORE(r.m, "INT_SIZE")
    ELSE Success([r.m EXCEPT !.state.elem_count = 2 * @])

zcbor_map_start_decode(m, h) == PairsCounted(list_map_start_decode(m, h, MAP))

SearchStarted(r) ==
    LET counting == r.m.state.decode_state.indefinite_length_array
        n == [r.m EXCEPT !.state.decode_state.map_elem_count = 0,
                         !.state.decode_state.counting_map_elems = counting]
    IN  IF ~r.ok THEN r
        ELSE IF counting THEN Success(n)
        ELSE GrowMap(n, n.state.elem_count)

zcbor_unordered_map_start_decode(m, h) == SearchStarted(zcbor_map_start_decode(m, h))

BugEndUnchecked(m, at_break) ==
    IF at_break THEN Success([m EXCEPT !.state.payload = @ + 1])
                ELSE Err(m, "WRONG_TYPE")

array_end_expect(m, at_break) ==
    LET i == initial_checks(m) IN
    IF ~i.ok THEN i
    ELSE IF ~at_break THEN Err(m, "WRONG_TYPE")
    ELSE Success([m EXCEPT !.state.payload = @ + 1])

zcbor_list_map_end_force_decode(m) ==
    zcbor_process_backup(m, {"RESTORE", "CONSUME", "KEEP_PAYLOAD"})

BugChecksFirst(m, at_break) ==
    IF ~m.state.decode_state.indefinite_length_array /\ m.state.elem_count > 0
    THEN Err(m, "HIGH_ELEM_COUNT")
    ELSE zcbor_process_backup(m, {"RESTORE", "CONSUME", "KEEP_PAYLOAD"})

\* The backup is consumed (r) before the contents are known to be complete.
ArrayEnded(m, at_break, r) ==
    IF ~r.ok THEN r
    ELSE IF m.state.decode_state.indefinite_length_array
    THEN array_end_expect(r.m, at_break)
    ELSE IF m.state.elem_count > 0 THEN Err(r.m, "HIGH_ELEM_COUNT")
    ELSE r

list_map_end_decode(m, at_break) ==
    ArrayEnded(m, at_break, zcbor_process_backup(m, {"RESTORE", "CONSUME", "KEEP_PAYLOAD"}))

BugNoClear(m) == m
BugMaskTooShort(m) ==
    LET last == m.state.decode_state.map_elem_count - 1 IN
    [m EXCEPT !.mem[FlagByteOf(m.state, last)] = @ \cap 0 .. (last % BitsPerByte) - 1]

\* FLAG_MODE_CLEAR_UNUSED: the bits of the last byte that stand for no element.
ClearUnused(m) ==
    LET last == m.state.decode_state.map_elem_count - 1 IN
    [m EXCEPT !.mem[FlagByteOf(m.state, last)] = @ \cap 0 .. last % BitsPerByte]

FlagAddresses(c) == c.decode_state.map_search_elem_state .. FlagEnd(c) - 1

\* The loop that skips what is left of the map went as far as rest.at; the skips
\* that failed on the way, if any, only left their error.
SkipToEnd(m, rest) ==
    LET e == IF rest.error = "SUCCESS" THEN m ELSE zcbor_error(m, rest.error)
    IN  [e EXCEPT !.state.payload = rest.at,
                  !.state.elem_count = IF m.state.decode_state.indefinite_length_array
                                       THEN @ ELSE 0]

\* The part of zcbor_unordered_map_end_decode before that loop: unlike
\* list_map_end_decode it fails before the backup is consumed when an element
\* was not processed.
EndChecks(m, at_break) ==
    LET count == m.state.decode_state.map_elem_count
        c == IF SmartSearch /\ count > 0 THEN ClearUnused(m) ELSE m
        unprocessed == /\ count > 0
                       /\ IF SmartSearch
                          THEN \E a \in FlagAddresses(c.state) : c.mem[a] # {}
                          ELSE should_try_key(m).ok
    IN  IF ~zcbor_array_at_end(m.state, at_break)
             /\ m.state.decode_state.counting_map_elems
        THEN Err(m, "ELEMS_NOT_PROCESSED")
        ELSE IF unprocessed THEN Err(c, "ELEMS_NOT_PROCESSED")
        ELSE Success(c)

zcbor_unordered_map_end_decode(m, at_break, rest) ==
    LET c == EndChecks(m, at_break)
    IN  IF c.ok THEN list_map_end_decode(SkipToEnd(c.m, rest), TRUE) ELSE c

BugRestartsTop(m) ==
    LET r == zcbor_process_backup(m, {"RESTORE", "KEEP_DECODE_STATE"})
    IN  IF ~r.ok THEN r
        ELSE Success([r.m EXCEPT
               !.state.elem_count = zcbor_current_max_elem_count(r.m.state)])

\* All elements of the map are to come.
AllElements(r) ==
    IF ~r.ok THEN r
    ELSE Success([r.m EXCEPT !.state.elem_count = zcbor_current_max_elem_count(r.m.state)])

\* Back to the first key of the map.
map_restart(m) ==
    AllElements(zcbor_process_backup_num(m, {"RESTORE", "KEEP_DECODE_STATE"},
                                         m.state.decode_state.map_start_backup_num))

handle_map_end(m) ==
    map_restart([m EXCEPT !.state.decode_state.counting_map_elems = FALSE])

-----------------------------------------------------------------------------
(* Byte strings whose contents are CBOR.                                   *)

BugNoOverflowCheck(m, h, exp_major_type) ==
    LET t == type_check(m, h, exp_major_type) IN
    IF ~t.ok THEN t ELSE value_extract(m, h, SIZEOF_SIZE_T, FALSE)

\* h.value bytes of string follow the header.
str_start_decode_with_overflow_check(m, h, exp_major_type) ==
    LET t == type_check(m, h, exp_major_type)
        v == value_extract(m, h, SIZEOF_SIZE_T, FALSE)
    IN  IF ~t.ok THEN t
        ELSE IF ~v.ok THEN v
        ELSE IF h.value > v.m.state.payload_end - v.m.state.payload
        THEN ERR_RESTORE(v.m, "NO_PAYLOAD")
        ELSE v

\* The string, around which b was saved, is the payload, up to its end.
StringEntered(b, end) ==
    LET e == exit_map(b.m)
    IN  IF ~b.ok THEN FAIL_RESTORE(b.m)
        ELSE IF ~e.ok THEN e
        ELSE Success([e.m EXCEPT !.state.payload_end = end,
                                 !.state.inside_cbor_bstr = TRUE])

zcbor_bstr_start_decode(m, h) ==
    LET s == str_start_decode_with_overflow_check(m, h, BSTR)
    IN  IF ~s.ok THEN s
        ELSE StringEntered(zcbor_new_backup(s.m, ZCBOR_MAX_ELEM_COUNT), s.m.state.payload + h.value)

zcbor_bstr_end_decode(m) ==
    IF m.state.payload # m.state.payload_end THEN Err(m, "PAYLOAD_NOT_CONSUMED")
    ELSE zcbor_process_backup(m, {"RESTORE", "CONSUME", "KEEP_PAYLOAD"})

=============================================================================
