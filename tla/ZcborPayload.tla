---------------------------- MODULE ZcborPayload ----------------------------
(***************************************************************************)
(* The decoder functions that cannot be told apart from the bytes they     *)
(* read: headers, an expected number, and zcbor_any_skip, which reads a    *)
(* whole tree.  The payload is a sequence of bytes; address a of a cursor  *)
(* is its element a + 1.                                                   *)
(***************************************************************************)
EXTENDS ZcborDecode

BREAK == 255

\* The header at address a.  Values of more than one byte are not read.
HeaderAt(bytes, a) ==
    LET byte == bytes[a + 1]
        value == CASE byte % 32 <= 23 -> byte % 32
                   [] byte % 32 = 24 /\ a + 1 < Len(bytes) -> bytes[a + 2]
                   [] OTHER -> 0
    IN  [major |-> byte \div 32, additional |-> byte % 32, value |-> value,
         minimal |-> byte % 32 = 24 => value > 23]

AtBreak(bytes, s) == s.payload < s.payload_end /\ bytes[s.payload + 1] = BREAK

BugEndsAtBreaksOnly(bytes, s) == AtBreak(bytes, s)
AtEnd(bytes, s) == zcbor_array_at_end(s, AtBreak(bytes, s))

\* zcbor_uint32_pexpect and the calls it is made of.
zcbor_uint32_pexpect(m, bytes, expected) ==
    LET h == HeaderAt(bytes, m.state.payload)
        t == type_check(m, h, PINT)
        v == value_extract(m, h, 8, FALSE)
    IN  IF ~t.ok THEN t
        ELSE IF ~v.ok THEN v
        ELSE IF h.value # expected THEN ERR_RESTORE(v.m, "WRONG_VALUE")
        ELSE v

-----------------------------------------------------------------------------
(* zcbor_any_skip.                                                         *)

\* The string check looks at the cursor before the element (start), not at
\* the one behind the string's header, and rewinds that cursor if it fails.
StringFits(m, start, len) == len <= m.state.payload_end - start

BreakLen(open) == IF open THEN 1 ELSE 0

\* skip[start, a, n, open]: n elements from address a on, up to the break if
\* the container is open (of indefinite length).  An element began at start:
\* between start and a there are only tags.
SkipElements(m, bytes) ==
    LET Copy(a, n) == [m EXCEPT !.state.payload = a, !.state.elem_count = n]
        AtSkipEnd(a, n, open) == IF open THEN AtBreak(bytes, Copy(a, n).state) ELSE n = 0
        skip[start \in Nat, a \in Nat, n \in 0 .. SIZE_MAX, open \in BOOLEAN] ==
          LET h == HeaderAt(bytes, a)
              v == value_extract(Copy(a, n), h, IF h.major = TAG THEN 4 ELSE 8, h.major \in {LIST, MAP})
              opens == h.additional = INDEFINITE
              elems == IF opens THEN ZCBOR_LARGE_ELEM_COUNT
                       ELSE IF h.major = MAP THEN 2 * h.value ELSE h.value
              Onward(next) == skip[next, next, n - 1, open]
              After(inner) == IF inner.error # "SUCCESS" THEN [inner EXCEPT !.rewinds = FALSE]
                              ELSE Onward(inner.at + BreakLen(opens))
              Body(body) ==
                  CASE h.major = TAG -> skip[start, body, n, open]
                    [] h.major \in {BSTR, TSTR} ->
                         IF StringFits(m, start, h.value) THEN Onward(body + h.value)
                         ELSE [CannotSkip("NO_PAYLOAD") EXCEPT !.rewinds = TRUE]
                    [] h.major \in {LIST, MAP} ->
                         IF h.major = MAP /\ h.value > SIZE_MAX \div 2 THEN CannotSkip("INT_SIZE")
                         ELSE After(skip[body, body, elems, opens])
                    [] OTHER -> Onward(body)
          IN  IF a = start /\ AtSkipEnd(a, n, open) THEN Skipped(a)
              ELSE IF ~v.ok THEN CannotSkip(v.m.error)
              ELSE Body(v.m.state.payload)
    IN  skip

zcbor_any_skip(m, bytes) ==
    any_skip(m, SkipElements(m, bytes)[m.state.payload, m.state.payload, 1, FALSE])

=============================================================================
