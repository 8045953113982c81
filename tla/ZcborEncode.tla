---------------------------- MODULE ZcborEncode ----------------------------
(***************************************************************************)
(* The encoder: values, strings and tags are written one behind the other; *)
(* the header of a list, a map or a CBOR byte string is written before its *)
(* length is known and put right at its end.                               *)
(*                                                                         *)
(* The payload is a buffer of cells, one per byte.  A cell << major, value,*)
(* i >> is byte i of the header that announces value; the shape of a header*)
(* matters here only for its length.  The machine of ZcborState gets one   *)
(* more field, bytes.  asked and sent are not in the code: asked holds, for *)
(* each container that is open, what the caller put into it so far, sent   *)
(* the payload sections that are full.                                     *)
(***************************************************************************)
EXTENDS ZcborState, FiniteSets, SequencesExt

CONSTANTS
    HeaderLimits,   \* the largest values of headers of 1, 2, 3 and 5 bytes: 23, 2^8 - 1, ...
    StopModes,      \* what the caller sets constant_state->stop_on_error to
    Builds,         \* whether ZCBOR_CANONICAL is defined: a set of Booleans
    Payloads,       \* bound: lengths of a payload section
    MaxBytes,       \* bound: bytes written and the room of the section after them
    MaxDepth,       \* bound: containers open at a time, in builds that keep no backup of them
    Values,         \* bound: the numbers to encode
    Lengths,        \* bound: the lengths of strings to encode
    Hints           \* bound: size hints

HeaderBytes == << 1, 2, 3, 5, 9 >>

\* The limits are so far apart that the longest string that fits has no
\* shorter header than any other that fits.
ASSUME LimitAssumption ==
    /\ HeaderLimits \in Seq(Nat \ {0}) /\ Len(HeaderLimits) <= 4
    /\ \A i \in 1 .. Len(HeaderLimits) - 1 :
         HeaderLimits[i + 1] - HeaderLimits[i] >= HeaderBytes[i + 2] - 1
ASSUME BuildAssumption == Builds \subseteq BOOLEAN
ASSUME InputAssumption ==
    /\ MaxBytes \in Nat /\ Payloads \subseteq 0 .. MaxBytes
    /\ Values \subseteq Nat /\ Lengths \subseteq Nat /\ Hints \subseteq Nat
ASSUME StopAssumption == StopModes \subseteq BOOLEAN

VARIABLES m, canonical, asked, sent

vars == << m, canonical, asked, sent >>

PINT == 0   BSTR == 2   TSTR == 3   LIST == 4   MAP == 5   TAG == 6   SIMPLE == 7
INDEFINITE == 31

CONTENT  == 8                       \* not a major type: the bytes of a string
Untouched == << 9, 0, 0 >>          \* what the buffer held before
External == -1                      \* a string that is not in the payload buffer

-----------------------------------------------------------------------------
(* Headers.                                                                *)

zcbor_header_len(value) ==
    HeaderBytes[1 + Cardinality({i \in DOMAIN HeaderLimits : value > HeaderLimits[i]})]

Header(major, value) == [i \in 1 .. zcbor_header_len(value) |-> << major, value, i >>]
HeaderByte(major, additional) == << << major, additional, 1 >> >>
Content(len) == [i \in 1 .. len |-> << CONTENT, 0, i >>]

\* The longest string whose header and bytes fit into the rest.
zcbor_remaining_str_len(s) ==
    LET max_len        == s.payload_end - s.payload
        min_header_len == zcbor_header_len(max_len - zcbor_header_len(max_len))
    IN  IF max_len = 0 THEN 0
        ELSE max_len - zcbor_header_len(max_len - min_header_len)

Written(bytes, at, cells) ==
    [a \in DOMAIN bytes |-> IF a - at + 1 \in DOMAIN cells THEN cells[a - at + 1] ELSE bytes[a]]

\* Write cells and step behind them.
Put(mc, cells) == [mc EXCEPT !.bytes = Written(@, mc.state.payload, cells),
                                 !.state.payload = @ + Len(cells)]

encode_header_byte(mc, major, additional) ==
    IF ~zcbor_check_error(mc) THEN Failure(mc)
    ELSE IF mc.state.payload >= mc.state.payload_end THEN Err(mc, "NO_PAYLOAD")
    ELSE Success(Put(mc, HeaderByte(major, additional)))

value_encode(mc, major, value) ==
    LET header == Header(major, value)
    IN  IF mc.state.payload + Len(header) > mc.state.payload_end THEN Err(mc, "NO_PAYLOAD")
        ELSE IF ~zcbor_check_error(mc) THEN Failure(mc)
        ELSE Success([Put(mc, header) EXCEPT !.state.elem_count = @ + 1])

zcbor_uint_encode(mc, value) == value_encode(mc, PINT, value)

zcbor_tag_put(mc, tag) ==
    LET v == value_encode(mc, TAG, tag)
    IN  IF v.ok THEN Success([v.m EXCEPT !.state.elem_count = @ - 1]) ELSE v

-----------------------------------------------------------------------------
(* Strings.                                                                *)

\* The bytes of a string at value, which may be in the payload buffer itself.
\* A length below 0 is a size_t that wrapped, and longer than any payload.
str_encode(mc, value, len, major) ==
    LET h     == value_encode(mc, major, len)
        at    == h.m.state.payload
        moved == IF value = External THEN Written(h.m.bytes, at, Content(len))
                 ELSE Memmove(h.m.bytes, at, value, len)
    IN  IF mc.state.payload >= mc.state.payload_end THEN Err(mc, "NO_PAYLOAD")
        ELSE IF \/ len < 0
                \/ mc.state.payload + zcbor_header_len(len) + len > mc.state.payload_end
        THEN Err(mc, "NO_PAYLOAD")
        ELSE IF ~h.ok THEN h
        ELSE Success([h.m EXCEPT !.bytes = moved, !.state.payload = @ + len])

zcbor_tstr_encode(mc, len) == str_encode(mc, External, len, TSTR)

zcbor_bstr_start_encode(mc) ==
    LET b == zcbor_new_backup(mc, 0)
        h == value_encode(b.m, BSTR, zcbor_remaining_str_len(b.m.state))
    IN  IF ~b.ok THEN b
        ELSE IF ~h.ok THEN Failure(zcbor_process_backup(h.m, {"CONSUME"}).m)
        ELSE h

\* The content is behind the header that was reserved; it follows the new one.
zcbor_bstr_end_encode(mc) ==
    LET r == zcbor_process_backup(mc, {"RESTORE", "CONSUME"})
        value == r.m.state.payload + zcbor_header_len(zcbor_remaining_str_len(r.m.state))
    IN  IF ~r.ok THEN r ELSE str_encode(r.m, value, mc.state.payload - value, BSTR)

-----------------------------------------------------------------------------
(* Lists and maps.                                                         *)

\* If the header has no room, the backup stays.
list_map_start_encode(mc, size_hint, major) ==
    LET b == zcbor_new_backup(mc, 0)
        h == value_encode(b.m, major, size_hint)
    IN  IF ~canonical THEN encode_header_byte(mc, major, INDEFINITE)
        ELSE IF ~b.ok THEN b
        ELSE IF ~h.ok THEN h
        ELSE Success([h.m EXCEPT !.state.elem_count = @ - 1])

ListCount(s, major) == IF major = LIST THEN s.elem_count ELSE s.elem_count \div 2

\* The hint was right: only the backup goes, and the whole list is an element.
KeepHeader(mc) ==
    LET r == zcbor_process_backup(mc, {"RESTORE", "CONSUME", "KEEP_PAYLOAD"})
    IN  IF r.ok THEN Success([r.m EXCEPT !.state.elem_count = @ + 1]) ELSE r

\* Is there room for the body where it has to go?
BugMovesUnchecked(new_body, old_body, size, payload_end) == TRUE
BugRoomToMove(new_body, old_body, size, payload_end) == new_body + size < payload_end
RoomForMove(new_body, old_body, size, payload_end) ==
    new_body = old_body \/ new_body + size <= payload_end

\* The body moves before the header is written: a longer one would overwrite it.
BugHeaderFirst(mc, new_body, old_body, size, list_count, major) ==
    LET h == value_encode(mc, major, list_count)
    IN  IF h.ok THEN Success([h.m EXCEPT !.state.payload = @ + size,
                                         !.bytes = Memmove(@, new_body, old_body, size)])
        ELSE h

MoveThenHeader(mc, new_body, old_body, size, list_count, major) ==
    LET h == value_encode([mc EXCEPT !.bytes = Memmove(@, new_body, old_body, size)],
                          major, list_count)
    IN  IF h.ok THEN Success([h.m EXCEPT !.state.payload = @ + size]) ELSE h

\* The header is written again, from the backup, with the count there is.
NewHeader(mc, size_hint, list_count, major) ==
    LET r        == zcbor_process_backup(mc, {"RESTORE", "CONSUME"})
        old_body == r.m.state.payload + zcbor_header_len(size_hint)
        new_body == r.m.state.payload + zcbor_header_len(list_count)
        size     == mc.state.payload - old_body
    IN  IF ~r.ok THEN r
        ELSE IF size < 0 THEN Err(r.m, "BAD_ARG")
        ELSE IF ~RoomForMove(new_body, old_body, size, r.m.state.payload_end)
        THEN Err(r.m, "NO_PAYLOAD")
        ELSE MoveThenHeader(r.m, new_body, old_body, size, list_count, major)

list_map_end_encode(mc, size_hint, major) ==
    LET list_count == ListCount(mc.state, major)
    IN  IF ~canonical THEN encode_header_byte(mc, SIMPLE, INDEFINITE)
        ELSE IF size_hint = list_count THEN KeepHeader(mc)
        ELSE NewHeader(mc, size_hint, list_count, major)

zcbor_list_map_end_force_encode(mc) ==
    IF canonical THEN zcbor_process_backup(mc, {"RESTORE", "CONSUME"}) ELSE Success(mc)

-----------------------------------------------------------------------------
(* A caller.  A frame of asked is what it has put into one open container: *)
(* the header written for it, its body and the number of its elements.     *)
(* The outermost frame is the payload itself.                              *)

Frame(kind, header, size_hint) ==
    [kind |-> kind, header |-> header, size_hint |-> size_hint,
     body |-> << >>, elems |-> 0, usable |-> TRUE]

Top == Last(asked)
Below == Front(asked)

\* The caller adds elems elements to the innermost container.
Added(frames, cells, elems) ==
    Append(Front(frames), [Last(frames) EXCEPT !.body = @ \o cells, !.elems = @ + elems])

\* What an ended container is: the shortest header of what it holds, and that.
Count(f) == IF f.kind = LIST THEN f.elems ELSE f.elems \div 2

Ended(f) ==
    IF f.kind = BSTR THEN Header(BSTR, Len(f.body)) \o f.body
    ELSE IF canonical THEN Header(f.kind, Count(f)) \o f.body
    ELSE f.header \o f.body \o HeaderByte(SIMPLE, INDEFINITE)

\* The call is made; if it fails, the caller has what it had.
Call(r, then) ==
    /\ m' = r.m
    /\ asked' = IF r.ok THEN then ELSE asked
    /\ UNCHANGED << canonical, sent >>

\* A container is ended; an end that fails after its backup went leaves
\* nothing of the container.
End(r) ==
    /\ m' = r.m
    /\ asked' = IF r.ok THEN Added(Below, Ended(Top), 1)
                ELSE IF Len(r.m.backup_list) < Len(m.backup_list) THEN Below
                ELSE asked
    /\ UNCHANGED << canonical, sent >>

\* The memory around the payload: sections begin at 0, and some bytes follow.
Room  == 0 .. MaxBytes + 9
Fresh == [a \in Room |-> Untouched]

\* zcbor_new_encode_state.
Init ==
    /\ canonical \in Builds
    /\ asked = << Frame(SIMPLE, << >>, 0) >>
    /\ sent = << >>
    /\ \E payload_len \in Payloads, stop \in StopModes :
         m = [state |-> [payload |-> 0, payload_end |-> payload_len, elem_count |-> 0,
                         payload_moved |-> FALSE,
                         decode_state |-> [elem_state_backed_up |-> FALSE]],
              backup_list |-> << >>, error |-> "SUCCESS", stop_on_error |-> stop, bytes |-> Fresh]

PutUint ==
    \E value \in Values : Call(zcbor_uint_encode(m, value), Added(asked, Header(PINT, value), 1))

PutTag ==
    \E tag \in Values : Call(zcbor_tag_put(m, tag), Added(asked, Header(TAG, tag), 0))

PutString ==
    \E len \in Lengths :
        Call(zcbor_tstr_encode(m, len), Added(asked, Header(TSTR, len) \o Content(len), 1))

\* A start that fails behind its backup leaves the caller in a container that
\* has no header and can only be given up.
StartList ==
    \E kind \in {LIST, MAP}, size_hint \in Hints :
      LET r == list_map_start_encode(m, size_hint, kind)
          header == IF canonical THEN Header(kind, size_hint) ELSE HeaderByte(kind, INDEFINITE)
          frame == Frame(kind, header, size_hint)
      IN  /\ canonical \/ Len(asked) <= MaxDepth
          /\ m' = r.m
          /\ asked' = IF r.ok THEN Append(asked, frame)
                      ELSE IF Len(r.m.backup_list) > Len(m.backup_list)
                      THEN Append(asked, [frame EXCEPT !.header = << >>, !.usable = FALSE])
                      ELSE asked
          /\ UNCHANGED << canonical, sent >>

\* A list or map ends with whole pairs and the hint it started with.
EndList ==
    /\ Top.kind \in {LIST, MAP}
    /\ Top.kind = MAP => Top.elems % 2 = 0
    /\ End(list_map_end_encode(m, Top.size_hint, Top.kind))

\* A start that fails behind its backup drops the backup, but not what was
\* counted since: the list around it can only be given up.
StartBstr ==
    LET r == zcbor_bstr_start_encode(m)
        header == Header(BSTR, zcbor_remaining_str_len(m.state))
    IN  /\ canonical \/ Len(asked) <= MaxDepth
        /\ m' = r.m
        /\ asked' = IF r.ok THEN Append(asked, Frame(BSTR, header, 0))
                    ELSE IF /\ canonical /\ Top.kind \in {LIST, MAP}
                            /\ r.m.state.elem_count # m.state.elem_count
                    THEN Append(Below, [Top EXCEPT !.usable = FALSE])
                    ELSE asked
        /\ UNCHANGED << canonical, sent >>

EndBstr == Top.kind = BSTR /\ End(zcbor_bstr_end_encode(m))

GiveUp ==
    /\ Top.kind \in {LIST, MAP}
    /\ Call(zcbor_list_map_end_force_encode(m), IF canonical THEN Below ELSE asked)

\* zcbor_update_state: the section is full, or good enough; here is another.
NextSection ==
    \E payload_len \in Payloads :
      /\ Len(FlattenSeq(sent)) + m.state.payload + payload_len <= MaxBytes
      /\ m.state.payload > 0
      /\ sent' = Append(sent, [i \in 1 .. m.state.payload |-> m.bytes[i - 1]])
      /\ m' = [zcbor_update_state(m, payload_len) EXCEPT !.bytes = Fresh]
      /\ UNCHANGED << canonical, asked >>

Next ==
    \/ Top.usable /\ (PutUint \/ PutTag \/ PutString \/ StartList \/ StartBstr)
    \/ Top.usable /\ (EndList \/ EndBstr)
    \/ GiveUp
    \/ NextSection

Spec == Init /\ [][Next]_vars

-----------------------------------------------------------------------------
(* Properties.                                                             *)

\* What was written, over all sections, is what the caller asked for: ended
\* containers with the shortest header for what is in them, open ones with
\* the header reserved for them, and nothing of the calls that failed or the
\* containers that were given up.  (list_map_end_encode, zcbor_bstr_end_encode,
\* the backups they go back to.)
WrittenIsAsked ==
    FlattenSeq(sent) \o [i \in 1 .. m.state.payload |-> m.bytes[i - 1]]
        = FlattenSeq([i \in DOMAIN asked |-> asked[i].header \o asked[i].body])

\* The container can be ended: nothing refuses calls, and its start is still
\* in the section in use, or need not be touched.
InReach ==
    /\ Top.usable /\ zcbor_check_error(m)
    /\ Top.kind = BSTR \/ canonical => ~Last(m.backup_list).payload_moved

\* A container whose finished form fits into the payload can be ended, and
\* only such a one: moving its body needs no more room than that.  With a
\* size hint that is large enough an end never fails (zcbor_encode.h: "the
\* failure will instead happen while encoding an element").
EndsIfItFits ==
    (Top.kind \in {LIST, MAP, BSTR} /\ InReach) =>
        LET start == m.state.payload - Len(Top.header \o Top.body)
            fits  == start + Len(Ended(Top)) <= m.state.payload_end
        IN  IF Top.kind = BSTR THEN zcbor_bstr_end_encode(m).ok <=> fits
            ELSE list_map_end_encode(m, Top.size_hint, Top.kind).ok <=> fits

\* Nothing is written behind the end of the payload, whatever moves.
StaysInPayload ==
    /\ m.state.payload <= m.state.payload_end
    /\ \A a \in DOMAIN m.bytes : a >= m.state.payload_end => m.bytes[a] = Untouched

=============================================================================
