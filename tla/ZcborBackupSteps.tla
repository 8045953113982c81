-------------------------- MODULE ZcborBackupSteps --------------------------
(***************************************************************************)
(* What each zcbor call does to the backups and to their flags, for every  *)
(* value of the constants: a call works on the innermost map, or takes a   *)
(* backup, goes back to one, gives one up, or closes one, and leaves what  *)
(* the backups below own as it was.                                        *)
(***************************************************************************)
EXTENDS ZcborBackupProofs

USE DEF Address, Bit, Byte

Count(c)     == c.decode_state.map_elem_count
Processed(c) == c.decode_state.map_elems_processed
MapOf(c)     == c.decode_state.map_start_backup_num
BackedUp(c)  == c.decode_state.elem_state_backed_up

\* Without smart search, no more of the map's elements processed than it has.
Within(c) == ~SmartSearch => Processed(c) <= Count(c)

Top(m) == m.backup_list[Len(m.backup_list)]

\* From m to n the flags below an address stay.
Below(m, n, top) ==
    /\ \A a \in Address : a < top => n.mem[a] = m.mem[a]
    /\ ~SmartSearch => n.mem = m.mem

\* Work above what the backups own.
KeptBelow(m, n) ==
    /\ n.backup_list = m.backup_list
    /\ Below(m, n, Start(m.state))
    /\ Start(n.state) = Start(m.state)
    /\ MapOf(n.state) = MapOf(m.state)

\* Work on the innermost map: flags are cleared, or added behind the others.
Kept(m, n) ==
    /\ KeptBelow(m, n)
    /\ Count(m.state) <= Count(n.state)
    /\ \A i \in 0 .. Count(m.state) - 1 :
          FlagLeft(n, n.state, i) => FlagLeft(m, m.state, i)
    /\ Within(m.state) => Within(n.state)

SameSection(m, n) == n.state.payload_end = m.state.payload_end

Worked(m, n) == Kept(m, n) /\ SameSection(m, n)

\* The cursor d of n stands for what the cursor c of m does.
Alike(m, c, n, d) ==
    /\ Snapshot(n, d) = Snapshot(m, c)
    /\ d.payload_end = c.payload_end
    /\ Count(d) = Count(c)
    /\ ~SmartSearch => Processed(d) = Processed(c)
    /\ MapOf(d) = MapOf(c)

-----------------------------------------------------------------------------
(* Flags and the bytes they are in.                                        *)

\* n flags fit in the bytes that are set aside for them.
LEMMA FlagsToBytesHolds ==
    ASSUME NEW n \in Nat PROVE n <= BitsPerByte * FlagsToBytes(n)
<1> DEFINE x == n + BitsPerByte - 1
           q == x \div BitsPerByte
<1>1. x \in Nat /\ BitsPerByte \in Nat \ {0}
  BY FlagAssumption
<1>2. q \in Nat /\ x < BitsPerByte * (q + 1)
  BY <1>1
<1>3. BitsPerByte * (q + 1) = BitsPerByte * q + BitsPerByte
  BY <1>1, <1>2
<1>4. BitsPerByte * q \in Int
  BY <1>1, <1>2
<1>5. n <= BitsPerByte * q
  BY <1>1, <1>2, <1>3, <1>4
<1> QED BY <1>5 DEF FlagsToBytes

\* Each of n flags is in one of those bytes.
LEMMA FlagInBytes ==
    ASSUME NEW n \in Nat, NEW i \in 0 .. n - 1
    PROVE  i \div BitsPerByte \in 0 .. FlagsToBytes(n) - 1
<1> DEFINE q == i \div BitsPerByte
           len == FlagsToBytes(n)
<1>1. q \in Nat /\ BitsPerByte * q <= i /\ BitsPerByte \in Nat \ {0}
  BY FlagAssumption
<1>2. len \in Nat /\ n <= BitsPerByte * len
  BY FlagsToBytesType, FlagsToBytesHolds
<1> HIDE DEF q, len
<1>3. ASSUME len <= q PROVE FALSE
  <2>1. BitsPerByte * len <= BitsPerByte * q
    BY <1>1, <1>2, <1>3
  <2>2. BitsPerByte * len \in Int /\ BitsPerByte * q \in Int
    BY <1>1, <1>2
  <2> QED BY <1>1, <1>2, <2>1, <2>2
<1> QED BY <1>1, <1>2, <1>3 DEF q, len

LEMMA CountType ==
    ASSUME NEW c \in Cursor
    PROVE  /\ Count(c) \in Nat /\ Processed(c) \in Nat
           /\ c.payload \in Nat /\ c.payload_end \in Nat /\ c.payload_bak \in Nat
           /\ c.elem_count \in Nat
BY SizeAssumption, PayloadAssumption DEF Cursor, DecodeState, Count, Processed

\* The byte of a flag lies between where the cursor's flags start and end.
LEMMA FlagAddress ==
    ASSUME NEW c \in Cursor, NEW i \in 0 .. Count(c) - 1
    PROVE  /\ i \div BitsPerByte \in 0 .. FlagLen(c) - 1
           /\ FlagByteOf(c, i) = Start(c) + i \div BitsPerByte
           /\ Start(c) <= FlagByteOf(c, i) /\ FlagByteOf(c, i) < FlagEnd(c)
           /\ FlagEnd(c) <= FlagBytes => FlagByteOf(c, i) \in Address
<1>1. i \div BitsPerByte \in 0 .. FlagLen(c) - 1
  BY CountType, FlagInBytes DEF FlagLen, Count
<1>2. FlagByteOf(c, i) = Start(c) + i \div BitsPerByte
  BY DEF FlagByteOf, Start
<1>3. /\ FlagLen(c) \in Nat /\ Start(c) \in 0 .. FlagBytes
      /\ FlagEnd(c) = Start(c) + FlagLen(c)
  BY FlagEndType
<1> QED BY <1>1, <1>2, <1>3, FlagAssumption

\* The bytes that d's flags take in n are those that c's take in m.
SameBytes(m, c, n, d) ==
    \A k \in 0 .. FlagLen(c) - 1 : n.mem[Start(d) + k] = m.mem[Start(c) + k]

\* Flags whose bytes were copied are the same flags.
LEMMA FlagsWithBytes ==
    ASSUME NEW m, NEW n, NEW c \in Cursor, NEW d \in Cursor,
           Count(d) = Count(c),
           ~SmartSearch => Processed(d) = Processed(c),
           SmartSearch => SameBytes(m, c, n, d)
    PROVE  FlagsOf(n, d) = FlagsOf(m, c)
<1>1. ASSUME NEW i \in 0 .. Count(c) - 1
      PROVE  FlagLeft(n, d, i) = FlagLeft(m, c, i)
  <2>1. CASE SmartSearch
    <3>1. n.mem[FlagByteOf(d, i)] = m.mem[FlagByteOf(c, i)]
      BY <2>1, FlagAddress DEF SameBytes
    <3> QED BY <2>1, <3>1 DEF FlagLeft
  <2>2. CASE ~SmartSearch
    BY <2>2 DEF FlagLeft, Processed
  <2> QED BY <2>1, <2>2
<1> QED BY <1>1 DEF FlagsOf, Count

\* So are flags that are where they were, in bytes that stayed.
LEMMA FlagsStay ==
    ASSUME NEW m, NEW n, NEW c \in Cursor, NEW d \in Cursor,
           d.decode_state.map_elem_count = c.decode_state.map_elem_count,
           d.decode_state.map_elems_processed = c.decode_state.map_elems_processed,
           Start(d) = Start(c),
           SmartSearch => FlagEnd(c) <= FlagBytes,
           Below(m, n, FlagEnd(c))
    PROVE  FlagsOf(n, d) = FlagsOf(m, c)
<1>1. /\ FlagLen(c) \in Nat /\ Start(c) \in 0 .. FlagBytes
      /\ FlagEnd(c) = Start(c) + FlagLen(c)
  BY FlagEndType
<1>2. ASSUME SmartSearch, NEW k \in 0 .. FlagLen(c) - 1
      PROVE  n.mem[Start(d) + k] = m.mem[Start(c) + k]
  <2>1. Start(c) + k \in Address /\ Start(c) + k < FlagEnd(c)
    BY <1>1, <1>2, FlagAssumption
  <2> QED BY <2>1 DEF Below
<1>3. /\ Count(d) = Count(c) /\ Processed(d) = Processed(c)
      /\ SmartSearch => SameBytes(m, c, n, d)
  BY <1>2 DEF Count, Processed, SameBytes
<1> QED BY <1>3, FlagsWithBytes

LEMMA BelowLess ==
    ASSUME NEW m, NEW n, NEW b \in Int, NEW a \in Int, a <= b, Below(m, n, b)
    PROVE  Below(m, n, a)
<1> SUFFICES ASSUME NEW x \in Address, x < a PROVE n.mem[x] = m.mem[x]
  BY DEF Below
<1>1. x \in Int
  BY FlagAssumption
<1>2. x < b
  BY <1>1
<1> QED BY <1>2 DEF Below

LEMMA BelowThrough ==
    ASSUME NEW m, NEW k, NEW n, NEW a, Below(m, k, a), Below(k, n, a)
    PROVE  Below(m, n, a)
BY DEF Below

LEMMA BelowSame ==
    ASSUME NEW m, NEW n, n.mem = m.mem, NEW a
    PROVE  Below(m, n, a)
BY DEF Below

\* memmove puts what it reads where it is told to, and nothing below that.
\* len bytes of mem are in moved, from `to' on, and nothing below has changed.
MovedTo(mem, to, from, len, moved) ==
    /\ \A k \in 0 .. len - 1 : moved[to + k] = mem[from + k]
    /\ \A a \in Address : a < to => moved[a] = mem[a]

LEMMA MemmoveMoves ==
    ASSUME NEW mem \in [Address -> Byte], NEW to \in Nat, NEW from \in Nat, NEW len \in Nat,
           to + len <= FlagBytes
    PROVE  MovedTo(mem, to, from, len, Memmove(mem, to, from, len))
<1>1. ASSUME NEW k \in 0 .. len - 1
      PROVE  Memmove(mem, to, from, len)[to + k] = mem[from + k]
  <2>1. to + k \in Address /\ to + k \in to .. to + len - 1 /\ to + k - to + from = from + k
    BY FlagAssumption
  <2> QED BY <2>1 DEF Memmove
<1>2. ASSUME NEW a \in Address, a < to
      PROVE  Memmove(mem, to, from, len)[a] = mem[a]
  <2>1. a \notin to .. to + len - 1
    BY <1>2, FlagAssumption
  <2> QED BY <2>1 DEF Memmove
<1> QED BY <1>1, <1>2 DEF MovedTo

LEMMA AlikeIf ==
    ASSUME NEW m, NEW c, NEW n, NEW d,
           d.payload = c.payload, d.elem_count = c.elem_count,
           d.payload_end = c.payload_end, Count(d) = Count(c), MapOf(d) = MapOf(c),
           ~SmartSearch => Processed(d) = Processed(c),
           FlagsOf(n, d) = FlagsOf(m, c)
    PROVE  Alike(m, c, n, d)
BY DEF Alike, Snapshot

-----------------------------------------------------------------------------
(* Work on the innermost map, step by step.                                *)

\* The state goes elsewhere in the payload, with the flags it has.
LEMMA CursorMoves ==
    ASSUME NEW m, Good(m), NEW n, Good(n),
           n.backup_list = m.backup_list, n.mem = m.mem,
           Start(n.state) = Start(m.state), MapOf(n.state) = MapOf(m.state),
           Count(n.state) = Count(m.state), Processed(n.state) = Processed(m.state)
    PROVE  Kept(m, n)
<1>1. Count(m.state) <= Count(n.state)
  BY CountType, GoodType
<1>2. ASSUME NEW i \in 0 .. Count(m.state) - 1, FlagLeft(n, n.state, i)
      PROVE  FlagLeft(m, m.state, i)
  BY <1>2 DEF FlagLeft, FlagByteOf, Start, Processed
<1> QED BY <1>1, <1>2, BelowSame DEF Kept, KeptBelow, Within

LEMMA WorkedSelf == ASSUME NEW m, Good(m) PROVE Worked(m, m)
BY CursorMoves DEF Worked, SameSection

LEMMA KeptThrough ==
    ASSUME NEW m, Good(m), NEW k, Good(k), NEW n, Good(n), Kept(m, k), Kept(k, n)
    PROVE  Kept(m, n)
<1>1. /\ Count(m.state) \in Int /\ Count(k.state) \in Int /\ Count(n.state) \in Int
      /\ Count(m.state) <= Count(k.state) /\ Count(k.state) <= Count(n.state)
  BY CountType, GoodType DEF Kept
<1>2. Below(m, n, Start(m.state))
  BY BelowThrough DEF Kept, KeptBelow
<1>3. ASSUME NEW i \in 0 .. Count(m.state) - 1, FlagLeft(n, n.state, i)
      PROVE  FlagLeft(m, m.state, i)
  <2>1. i \in 0 .. Count(k.state) - 1
    BY <1>1
  <2> QED BY <1>3, <2>1 DEF Kept
<1> QED BY <1>1, <1>2, <1>3 DEF Kept, KeptBelow

LEMMA WorkedThrough ==
    ASSUME NEW m, Good(m), NEW k, Good(k), NEW n, Good(n), Worked(m, k), Worked(k, n)
    PROVE  Worked(m, n)
BY KeptThrough DEF Worked, SameSection

\* An error changes nothing but the error register.
LEMMA ErrorWorks ==
    ASSUME NEW m, Good(m), NEW err \in Errors
    PROVE  /\ Worked(m, zcbor_error(m, err))
           /\ zcbor_error(m, err).mem = m.mem
<1>1. zcbor_error(m, err).mem = m.mem
  BY GoodType DEF zcbor_error, Machine
<1>2. Good(zcbor_error(m, err)) /\ zcbor_error(m, err).state = m.state
        /\ zcbor_error(m, err).backup_list = m.backup_list
  BY ErrorGood
<1>3. Kept(m, zcbor_error(m, err))
  BY <1>1, <1>2, CursorMoves
<1> QED BY <1>1, <1>2, <1>3 DEF Worked, SameSection

LEMMA ErrWorks ==
    ASSUME NEW m, Good(m), NEW err \in Errors
    PROVE  Worked(m, Err(m, err).m) /\ Err(m, err).m.mem = m.mem
BY ErrorWorks DEF Err, Failure

LEMMA ResultWorks ==
    ASSUME NEW m, Good(m)
    PROVE  Worked(m, Success(m).m) /\ Worked(m, Failure(m).m)
BY WorkedSelf DEF Success, Failure

\* A header of another type is not read.
LEMMA TypeCheckWorks ==
    ASSUME NEW m, Good(m), NEW h, NEW type
    PROVE  Worked(m, type_check(m, h, type).m)
<1>1. {"WRONG_TYPE", "NO_PAYLOAD"} \subseteq Errors
  BY DEF Errors
<1>2. Worked(m, initial_checks(m).m)
  BY <1>1, ErrWorks, ResultWorks DEF initial_checks
<1> QED BY <1>1, <1>2, ErrWorks, ResultWorks DEF type_check

\* A value that was read: the cursor is behind it, in the same section, and
\* knows where it began.
ValueRead(m, n) ==
    /\ n.backup_list = m.backup_list
    /\ n.mem = m.mem
    /\ n.state.decode_state = m.state.decode_state
    /\ n.state.payload_end = m.state.payload_end
    /\ n.state.payload_bak = m.state.payload
    /\ m.state.payload <= n.state.payload
    /\ n.state.elem_count = m.state.elem_count - 1

LEMMA ReadWorks ==
    ASSUME NEW m, Good(m), NEW n, Good(n), ValueRead(m, n)
    PROVE  Worked(m, n)
BY CursorMoves DEF ValueRead, Worked, SameSection, Start, MapOf, Count, Processed

LEMMA ValueExtractReads ==
    ASSUME NEW m, Good(m), NEW h \in HeaderSet, NEW result_len \in Nat, NEW indef \in BOOLEAN
    PROVE  LET r == value_extract(m, h, result_len, indef) IN
           /\ r.ok => ValueRead(m, r.m)
           /\ ~r.ok => Worked(m, r.m)
<1> DEFINE Advanced(k) == [m EXCEPT !.state.payload_bak = m.state.payload,
                                    !.state.payload = @ + k + 1,
                                    !.state.elem_count = @ - 1]
           len == additional_len(h.additional)
           V == value_extract(m, h, result_len, indef)
           Right(r) == (r.ok => ValueRead(m, r.m)) /\ (~r.ok => Worked(m, r.m))
<1>1. len \in Nat
  BY DEF additional_len, HeaderSet
<1>2. /\ m \in Machine /\ m.state \in Cursor /\ m.state.payload \in Nat
      /\ m.state.payload_end \in Nat
  BY GoodType, CountType
<1>3. ASSUME NEW k \in Nat, m.state.payload + k + 1 <= m.state.payload_end
      PROVE  Right(Success(Advanced(k)))
  <2> DEFINE n == Advanced(k)
  <2>1. /\ n.backup_list = m.backup_list /\ n.mem = m.mem
        /\ n.state.decode_state = m.state.decode_state
        /\ n.state.payload_end = m.state.payload_end
        /\ n.state.payload_bak = m.state.payload
        /\ n.state.payload = m.state.payload + k + 1
        /\ n.state.elem_count = m.state.elem_count - 1
    BY <1>2 DEF Machine, Cursor
  <2> HIDE DEF Advanced
  <2>2. ValueRead(m, Advanced(k))
    BY <1>2, <1>3, <2>1 DEF ValueRead
  <2> QED BY <2>2 DEF Success
<1>4. {"LOW_ELEM_COUNT", "INVALID_VALUE_ENCODING", "ADDITIONAL_INVAL", "INT_SIZE",
       "NO_PAYLOAD"} \subseteq Errors
  BY DEF Errors
<1>5. (\A err \in Errors : Right(Err(m, err))) /\ Right(Failure(m))
  BY ErrGood, ErrWorks, ResultGood, ResultWorks
<1>6. CASE ~initial_checks(m).ok
  <2>1. V \in {Err(m, "NO_PAYLOAD"), Failure(m)}
    BY <1>6 DEF value_extract, initial_checks, Success
  <2> HIDE DEF V
  <2> QED BY <1>4, <1>5, <2>1 DEF V
<1>7. CASE initial_checks(m).ok
  <2>1. m.state.payload + 0 + 1 <= m.state.payload_end
    BY <1>2, <1>7, InitialChecksGood
  <2>2. m.state.payload + len + 1 <= m.state.payload_end
          \/ m.state.payload + len + 1 > m.state.payload_end
    BY <1>1, <1>2
  <2> DEFINE asked == h.additional = INDEFINITE /\ indef
             bad == \/ m.state.elem_count = 0
                    \/ asked /\ EnforceCanonical
                    \/ ~asked /\ h.additional > 27
                    \/ ~asked /\ len > result_len
                    \/ ~asked /\ m.state.payload + len + 1 > m.state.payload_end
                    \/ ~asked /\ EnforceCanonical /\ len > 0 /\ ~h.minimal /\ ~IsFloat(h)
  <2>3. CASE bad
    <3>1. \E err \in Errors : V = Err(m, err)
      BY <1>4, <1>7, <2>3 DEF value_extract
    <3> HIDE DEF V, Right
    <3> QED BY <1>5, <3>1 DEF V, Right
  <2>4. CASE ~bad /\ asked
    <3>1. V = Success(Advanced(0))
      BY <1>7, <2>4 DEF value_extract
    <3> HIDE DEF V, Right, Advanced
    <3>2. Right(V)
      BY <1>3, <2>1, <3>1
    <3> QED BY <3>2 DEF V, Right
  <2>5. CASE ~bad /\ ~asked
    <3>1. V = Success(Advanced(len))
      BY <1>7, <2>5 DEF value_extract
    <3>2. m.state.payload + len + 1 <= m.state.payload_end
      BY <2>2, <2>5
    <3> HIDE DEF V, Right, Advanced, len
    <3>3. Right(V)
      BY <1>1, <1>3, <3>1, <3>2
    <3> QED BY <3>3 DEF V, Right
  <2> QED BY <2>3, <2>4, <2>5
<1> QED BY <1>6, <1>7

LEMMA ValueExtractWorks ==
    ASSUME NEW m, Good(m), NEW h \in HeaderSet, NEW result_len \in Nat, NEW indef \in BOOLEAN
    PROVE  Worked(m, value_extract(m, h, result_len, indef).m)
<1> DEFINE r == value_extract(m, h, result_len, indef)
<1>1. Good(r.m)
  BY ValueExtractGood DEF GoodResult
<1>2. /\ r.ok => ValueRead(m, r.m)
      /\ ~r.ok => Worked(m, r.m)
  BY ValueExtractReads
<1> HIDE DEF r
<1> QED BY <1>1, <1>2, ReadWorks DEF r

\* Right after a value was read, rewinding undoes the reading.
LEMMA RewoundWorks ==
    ASSUME NEW m, Good(m), NEW n, Good(n), ValueRead(m, n)
    PROVE  Worked(m, Rewound(n))
<1>1. n \in Machine /\ n.state \in Cursor
  BY GoodType
<1>2. Good(Rewound(n)) /\ Rewound(n).state.decode_state = n.state.decode_state
  BY RewoundGood
<1>3. /\ Rewound(n).backup_list = n.backup_list /\ Rewound(n).mem = n.mem
      /\ Rewound(n).state.payload = n.state.payload_bak
      /\ Rewound(n).state.payload_end = n.state.payload_end
  BY <1>1 DEF Rewound, Machine, Cursor
<1> HIDE DEF Rewound
<1>4. Kept(m, Rewound(n))
  BY <1>2, <1>3, CursorMoves DEF ValueRead, Start, MapOf, Count, Processed
<1> QED BY <1>3, <1>4 DEF Worked, SameSection, ValueRead

\* Skipping a value moves the cursor, behind the value or back, or not at all.
LEMMA AnySkipWorks ==
    ASSUME NEW m, Good(m), NEW taken \in Skips
    PROVE  Worked(m, any_skip(m, taken).m)
<1> DEFINE n == [m EXCEPT !.state.payload = taken.at, !.state.elem_count = @ - 1]
           R == any_skip(m, taken)
<1>1. /\ taken.error \in Errors
      /\ "NO_PAYLOAD" \in Errors /\ "LOW_ELEM_COUNT" \in Errors
  BY DEF Skips, Errors
<1>2. m \in Machine /\ m.state \in Cursor
  BY GoodType
<1>3. Good(Rewound(m)) /\ Worked(m, Rewound(m))
  <2>1. Good(Rewound(m)) /\ Rewound(m).state.decode_state = m.state.decode_state
    BY RewoundGood
  <2>2. /\ Rewound(m).backup_list = m.backup_list /\ Rewound(m).mem = m.mem
        /\ Rewound(m).state.payload_end = m.state.payload_end
    BY <1>2 DEF Rewound, Machine, Cursor
  <2> QED BY <2>1, <2>2, CursorMoves DEF Worked, SameSection, Start, MapOf, Count, Processed
<1>4. Worked(m, Err(Rewound(m), taken.error).m)
  BY <1>1, <1>3, ErrGood, ErrWorks, WorkedThrough DEF GoodResult
<1>5. Worked(m, m)
  BY WorkedSelf
<1>6. \A err \in {"NO_PAYLOAD", "LOW_ELEM_COUNT", taken.error} : Worked(m, Err(m, err).m)
  BY <1>1, ErrWorks
<1>7. ASSUME R = Success(n) PROVE Worked(m, n)
  <2>1. /\ n.backup_list = m.backup_list /\ n.mem = m.mem
        /\ n.state.decode_state = m.state.decode_state
        /\ n.state.payload_end = m.state.payload_end
    BY <1>2 DEF Machine, Cursor
  <2>2. Good(n)
    BY <1>7, AnySkipGood DEF GoodResult, Success
  <2> HIDE DEF n
  <2> QED BY <2>1, <2>2, CursorMoves DEF Worked, SameSection, Start, MapOf, Count, Processed
<1>8. R \in {Failure(m), Err(m, "NO_PAYLOAD"), Err(m, "LOW_ELEM_COUNT"), Err(m, taken.error),
            Err(Rewound(m), taken.error), Success(n)}
  BY DEF any_skip, CopyTaken, initial_checks, ERR_RESTORE, Success
<1> HIDE DEF R, n
<1>9. Worked(m, R.m)
  BY <1>4, <1>5, <1>6, <1>7, <1>8 DEF Failure, Success
<1> QED BY <1>9 DEF R

-----------------------------------------------------------------------------
(* Taking a backup.                                                        *)

\* Where the smart search has room for a copy of the flags, the state goes on
\* with that copy, and nothing below it changes.
LEMMA FlagsCopiedUp ==
    ASSUME SmartSearch, NEW m \in Machine, RoomForCopy(m.state)
    PROVE  LET n == do_elem_state_backup(m, FALSE).m IN
           /\ n \in Machine
           /\ n.backup_list = m.backup_list
           /\ n.state = [m.state EXCEPT
                 !.decode_state.map_search_elem_state = FlagEnd(m.state)]
           /\ Start(n.state) = FlagEnd(m.state)
           /\ Below(m, n, FlagEnd(m.state))
           /\ Alike(m, m.state, n, n.state)
<1> DEFINE r == do_elem_state_backup(m, FALSE)
           flags == Start(m.state)
           len == FlagLen(m.state)
           mem == Memmove(m.mem, flags + len, flags, len)
           c == [m.state EXCEPT !.decode_state.map_search_elem_state = flags + len]
           mm == [m EXCEPT !.mem = mem, !.state = c]
<1>1. /\ m.state \in Cursor /\ m.mem \in [Address -> Byte]
      /\ flags \in Nat /\ len \in Nat /\ FlagEnd(m.state) = flags + len
  BY FlagEndType, FlagAssumption DEF Machine
<1>2. flags + len + len <= FlagBytes
  BY <1>1 DEF RoomForCopy
<1>3. r = Success(mm)
  BY DEF do_elem_state_backup, Start
<1>4. r.m \in Machine /\ r.m.backup_list = m.backup_list /\ Start(r.m.state) = flags + len
  BY <1>1, FlagsCopied
<1>5. r.m.mem = mem /\ r.m.state = c
  <2> HIDE DEF mem, c, r
  <2>1. mm.mem = mem /\ mm.state = c
    BY DEF Machine
  <2> QED BY <1>3, <2>1 DEF Success
<1>6. /\ \A k \in 0 .. len - 1 : mem[flags + len + k] = m.mem[flags + k]
      /\ \A a \in Address : a < flags + len => mem[a] = m.mem[a]
  <2> DEFINE to == flags + len
  <2>1. to \in Nat /\ to + len <= FlagBytes
    BY <1>1, <1>2
  <2> HIDE DEF flags, len, to
  <2>2. LET moved == Memmove(m.mem, to, flags, len) IN
        /\ \A k \in 0 .. len - 1 : moved[to + k] = m.mem[flags + k]
        /\ \A a \in Address : a < to => moved[a] = m.mem[a]
    <3>1. MovedTo(m.mem, to, flags, len, Memmove(m.mem, to, flags, len))
      BY <1>1, <2>1, MemmoveMoves
    <3> QED BY <3>1 DEF MovedTo
  <2> QED BY <2>2 DEF to
<1>7. Below(m, r.m, FlagEnd(m.state))
  BY <1>1, <1>5, <1>6 DEF Below
<1>8. /\ c.payload = m.state.payload /\ c.payload_end = m.state.payload_end
      /\ c.elem_count = m.state.elem_count /\ Count(c) = Count(m.state)
      /\ MapOf(c) = MapOf(m.state) /\ Processed(c) = Processed(m.state)
  BY <1>1 DEF Cursor, DecodeState, Count, MapOf, Processed
<1>9. c \in Cursor
  BY <1>4, <1>5 DEF Machine
<1> DEFINE n == r.m
<1> HIDE DEF mem, c, flags, len, r, n
<1>10. FlagsOf(n, c) = FlagsOf(m, m.state)
  <2>1. \A k \in 0 .. FlagLen(m.state) - 1 :
           n.mem[Start(c) + k] = m.mem[Start(m.state) + k]
    BY <1>4, <1>5, <1>6 DEF flags, len, n
  <2>2. SameBytes(m, m.state, n, c)
    BY <2>1 DEF SameBytes
  <2> QED BY <1>1, <1>8, <1>9, <2>2, FlagsWithBytes
<1>11. Alike(m, m.state, n, c)
  BY <1>8, <1>10, AlikeIf
<1> QED BY <1>1, <1>4, <1>5, <1>7, <1>11 DEF r, c, n

\* The list of n is that of m with one backup more.
OneMore(m, n) ==
    /\ Len(n.backup_list) = Len(m.backup_list) + 1
    /\ \A i \in 1 .. Len(m.backup_list) : n.backup_list[i] = m.backup_list[i]

\* The backup on top of n is the state that m has.
StateSaved(m, n, with_flags) ==
    /\ OneMore(m, n)
    /\ Below(m, n, FlagEnd(m.state))
    /\ Alike(m, m.state, n, Top(n))
    /\ Start(Top(n)) = Start(m.state)
    /\ ~Top(n).payload_moved
    /\ BackedUp(Top(n)) <=> with_flags

\* The state goes on from there.
GoesOn(m, n, elem_count, with_flags) ==
    /\ Alike(m, [m.state EXCEPT !.elem_count = elem_count], n, n.state)
    /\ Start(n.state) = IF with_flags THEN FlagEnd(m.state) ELSE Start(m.state)

LEMMA PushedSaves ==
    ASSUME NEW m, Good(m), NEW elem_count \in 0 .. SIZE_MAX, NEW with_flags \in BOOLEAN
    PROVE  LET p == Pushed(m, elem_count, with_flags) IN
           /\ p \in Machine
           /\ p.mem = m.mem
           /\ StateSaved(m, p, with_flags)
           /\ GoesOn(m, p, elem_count, FALSE)
           /\ FlagEnd(p.state) = FlagEnd(m.state)
<1> DEFINE saved == [m.state EXCEPT !.payload_moved = FALSE,
                                    !.decode_state.elem_state_backed_up = with_flags]
           state == [saved EXCEPT !.elem_count = elem_count]
           list  == Append(m.backup_list, saved)
           p == Pushed(m, elem_count, with_flags)
           n == Len(m.backup_list)
           from == [m.state EXCEPT !.elem_count = elem_count]
<1>1. /\ m \in Machine /\ m.state \in Cursor /\ m.backup_list \in Seq(Cursor)
      /\ n \in Nat
  BY GoodType
<1>2. /\ saved \in Cursor
      /\ saved.payload = m.state.payload /\ saved.payload_end = m.state.payload_end
      /\ saved.elem_count = m.state.elem_count /\ ~saved.payload_moved
      /\ BackedUp(saved) = with_flags
      /\ saved.decode_state.map_elem_count = m.state.decode_state.map_elem_count
      /\ saved.decode_state.map_elems_processed = m.state.decode_state.map_elems_processed
      /\ MapOf(saved) = MapOf(m.state)
      /\ Start(saved) = Start(m.state)
  BY <1>1 DEF Cursor, DecodeState, Start, BackedUp, MapOf
<1> HIDE DEF saved
<1>3. /\ state \in Cursor
      /\ state.decode_state = saved.decode_state
      /\ state.payload = saved.payload /\ state.payload_end = saved.payload_end
      /\ state.elem_count = elem_count
  BY <1>2 DEF Cursor
<1>4. /\ from \in Cursor
      /\ from.decode_state = m.state.decode_state
      /\ from.payload = m.state.payload /\ from.payload_end = m.state.payload_end
      /\ from.elem_count = elem_count
  BY <1>1 DEF Cursor
<1>5. p = [m EXCEPT !.backup_list = list, !.state = state]
  BY DEF Pushed, saved
<1> HIDE DEF state, from
<1>6. /\ list \in Seq(Cursor) /\ Len(list) = n + 1
      /\ \A i \in 1 .. n : list[i] = m.backup_list[i]
      /\ list[n + 1] = saved
  BY <1>1, <1>2, AppendProperties
<1> HIDE DEF list, p
<1>7. p \in Machine /\ p.backup_list = list /\ p.state = state /\ p.mem = m.mem
  BY <1>1, <1>3, <1>5, <1>6 DEF Machine
<1>8. Top(p) = saved /\ OneMore(m, p)
  BY <1>6, <1>7 DEF Top, OneMore
<1>9. Below(m, p, FlagEnd(m.state))
  BY <1>7, BelowSame
<1>10. SmartSearch => FlagEnd(m.state) <= FlagBytes
  BY DEF Good, FlagsSound
<1>11. FlagsOf(p, saved) = FlagsOf(m, m.state)
  BY <1>1, <1>2, <1>9, <1>10, FlagsStay
<1>12. StateSaved(m, p, with_flags)
  BY <1>2, <1>8, <1>9, <1>11, AlikeIf DEF StateSaved, Count, Processed
<1>13. FlagsOf(m, from) = FlagsOf(m, m.state)
  BY <1>4 DEF FlagsOf, FlagLeft, FlagByteOf
<1>14. FlagsOf(p, state) = FlagsOf(p, saved)
  BY <1>3 DEF FlagsOf, FlagLeft, FlagByteOf
<1>15. GoesOn(m, p, elem_count, FALSE)
  <2>1. Alike(m, from, p, state)
    BY <1>2, <1>3, <1>4, <1>11, <1>13, <1>14, AlikeIf DEF Count, MapOf, Processed
  <2>2. Start(state) = Start(m.state)
    BY <1>2, <1>3 DEF Start
  <2> QED BY <1>7, <2>1, <2>2 DEF GoesOn, from
<1>16. FlagEnd(p.state) = FlagEnd(m.state)
  BY <1>2, <1>3, <1>7 DEF FlagEnd, FlagLen, Start
<1> QED BY <1>7, <1>12, <1>15, <1>16 DEF p

LEMMA AlikeThrough ==
    ASSUME NEW m, NEW c, NEW k, NEW b, NEW n, NEW d, Alike(m, c, k, b), Alike(k, b, n, d)
    PROVE  Alike(m, c, n, d)
BY DEF Alike

\* A backup is the state as it was, and the state goes on from there; or else
\* nothing happens.
LEMMA NewBackupSaves ==
    ASSUME NEW m, Good(m), NEW elem_count \in 0 .. SIZE_MAX, NEW flags \in BOOLEAN
    PROVE  LET r == zcbor_new_backup_w_elem_state(m, elem_count, flags)
               with_flags == SmartSearch /\ flags
           IN  /\ r.ok => /\ StateSaved(m, r.m, with_flags)
                          /\ GoesOn(m, r.m, elem_count, with_flags)
                          /\ ~with_flags => r.m = Pushed(m, elem_count, FALSE)
               /\ ~r.ok => \E err \in Errors : r.m \in {m, zcbor_error(m, err)}
<1> DEFINE with_flags == SmartSearch /\ flags
           p == Pushed(m, elem_count, with_flags)
           r == zcbor_new_backup_w_elem_state(m, elem_count, flags)
           n == do_elem_state_backup(p, FALSE).m
<1>1. /\ Len(m.backup_list) \in Nat /\ NumBackups \in Nat /\ with_flags \in BOOLEAN
      /\ m \in Machine /\ m.state \in Cursor
  BY GoodType, BackupAssumption
<1>2. {"NO_BACKUP_MEM", "MAP_FLAGS_NOT_AVAILABLE"} \subseteq Errors
  BY DEF Errors
<1>3. /\ p \in Machine
      /\ StateSaved(m, p, with_flags)
      /\ GoesOn(m, p, elem_count, FALSE)
      /\ FlagEnd(p.state) = FlagEnd(m.state)
  <2> HIDE DEF with_flags
  <2> QED BY <1>1, PushedSaves
<1>4. do_elem_state_backup(m, TRUE)
        = IF RoomForCopy(m.state) THEN Success(m) ELSE Err(m, "MAP_FLAGS_NOT_AVAILABLE")
  BY DEF do_elem_state_backup
<1> DEFINE Refused == ~r.ok /\ \E err \in Errors : r.m \in {m, zcbor_error(m, err)}
<1> HIDE DEF with_flags, p
<1>5. CASE ~zcbor_check_error(m)
  <2>1. r = Failure(m)
    BY <1>5 DEF zcbor_new_backup_w_elem_state
  <2> HIDE DEF r
  <2>2. Refused
    BY <1>2, <2>1 DEF Failure
  <2> QED BY <2>2 DEF r
<1>6. CASE zcbor_check_error(m) /\ Len(m.backup_list) >= NumBackups
  <2>1. r = Err(m, "NO_BACKUP_MEM")
    BY <1>6 DEF zcbor_new_backup_w_elem_state
  <2> HIDE DEF r
  <2>2. Refused
    BY <1>2, <2>1 DEF Err, Failure
  <2> QED BY <2>2 DEF r
<1>7. CASE /\ zcbor_check_error(m) /\ ~(Len(m.backup_list) >= NumBackups)
           /\ with_flags /\ ~RoomForCopy(m.state)
  <2>1. do_elem_state_backup(m, TRUE) = Err(m, "MAP_FLAGS_NOT_AVAILABLE")
    BY <1>4, <1>7
  <2>2. ~do_elem_state_backup(m, TRUE).ok
    BY <1>7, ElemStateBackupGood
  <2>3. r = Err(m, "MAP_FLAGS_NOT_AVAILABLE")
    BY <1>7, <2>1, <2>2 DEF zcbor_new_backup_w_elem_state, with_flags
  <2> HIDE DEF r
  <2>4. Refused
    BY <1>2, <2>3 DEF Err, Failure
  <2> QED BY <2>4 DEF r
<1>8. CASE /\ zcbor_check_error(m) /\ ~(Len(m.backup_list) >= NumBackups)
           /\ with_flags => RoomForCopy(m.state)
  <2>1. with_flags => do_elem_state_backup(m, TRUE).ok
    BY <1>8, ElemStateBackupGood
  <2>2. r = IF with_flags THEN do_elem_state_backup(p, FALSE) ELSE Success(p)
    BY <1>8, <2>1 DEF zcbor_new_backup_w_elem_state, with_flags, p
  <2>3. CASE ~with_flags
    <3>1. r.ok /\ r.m = p
      BY <2>2, <2>3 DEF Success
    <3>2. p = Pushed(m, elem_count, FALSE)
      BY <1>1, <2>3 DEF p
    <3> HIDE DEF r
    <3>3. GoesOn(m, p, elem_count, with_flags)
      BY <1>3, <2>3 DEF GoesOn
    <3> QED BY <1>3, <2>3, <3>1, <3>2, <3>3 DEF r, with_flags
  <2>4. CASE with_flags
    <3>1. Good(p) /\ RoomForCopy(p.state)
      <4>1. Good(p)
        BY <1>1, <1>8, PushedGood DEF p
      <4>2. RoomForCopy(p.state)
        BY <1>3, <1>8, <2>4 DEF RoomForCopy, GoesOn, Alike, FlagLen, Count
      <4> QED BY <4>1, <4>2
    <3>2. r = do_elem_state_backup(p, FALSE) /\ r.m = n /\ r.ok
      BY <2>2, <2>4, <3>1, ElemStateBackupGood
    <3>0. SmartSearch
      BY <2>4 DEF with_flags
    <3> HIDE DEF r
    <3>3. /\ n \in Machine /\ n.backup_list = p.backup_list
          /\ Start(n.state) = FlagEnd(m.state)
          /\ Below(p, n, FlagEnd(m.state))
          /\ Alike(p, p.state, n, n.state)
      BY <1>3, <3>0, <3>1, FlagsCopiedUp
    <3> HIDE DEF n
    <3>4. GoesOn(m, n, elem_count, TRUE)
      BY <1>3, <3>3, AlikeThrough DEF GoesOn
    <3>5. /\ Top(p) \in Cursor /\ FlagEnd(Top(p)) = FlagEnd(m.state)
          /\ FlagEnd(Top(p)) <= FlagBytes
      <4>1. Len(p.backup_list) \in 1 .. Len(p.backup_list)
        BY <1>1, <1>3 DEF StateSaved, OneMore
      <4>2. Top(p) \in Cursor
        BY <3>1, <4>1, GoodType DEF Top
      <4>3. FlagEnd(Top(p)) <= FlagBytes
        BY <3>0, <3>1, <4>1 DEF Good, FlagsSound, Top
      <4>4. FlagEnd(Top(p)) = FlagEnd(m.state)
        BY <1>3 DEF StateSaved, Alike, FlagEnd, FlagLen, Start, Count
      <4> QED BY <4>2, <4>3, <4>4
    <3>6. Alike(p, Top(p), n, Top(n)) /\ Top(n) = Top(p)
      <4>1. Top(n) = Top(p)
        BY <3>3 DEF Top
      <4>2. FlagsOf(n, Top(p)) = FlagsOf(p, Top(p))
        BY <3>3, <3>5, FlagsStay
      <4> QED BY <4>1, <4>2, AlikeIf
    <3>7. StateSaved(m, n, with_flags)
      <4>1. OneMore(m, n)
        BY <1>3, <3>3 DEF StateSaved, OneMore
      <4>2. Below(m, n, FlagEnd(m.state))
        BY <1>3, <3>3, BelowThrough DEF StateSaved
      <4>3. Alike(m, m.state, n, Top(n))
        BY <1>3, <3>6, AlikeThrough DEF StateSaved
      <4> QED BY <1>3, <3>6, <4>1, <4>2, <4>3 DEF StateSaved
    <3>8. with_flags = TRUE
      BY <2>4 DEF with_flags
    <3> QED BY <3>2, <3>4, <3>7, <3>8 DEF r, with_flags
  <2> QED BY <2>3, <2>4
<1> QED BY <1>5, <1>6, <1>7, <1>8

-----------------------------------------------------------------------------
(* Entering a map, and its flags.                                          *)

\* Room for the flags of the map around it is known to be there, so a map can
\* always be entered.
LEMMA ExitMapEnters ==
    ASSUME NEW m, Good(m)
    PROVE  LET r == exit_map(m) IN
           /\ r.ok = TRUE
           /\ r.m.backup_list = m.backup_list /\ r.m.mem = m.mem
           /\ r.m.state.payload = m.state.payload
           /\ r.m.state.payload_end = m.state.payload_end
           /\ MapOf(r.m.state) = MapOf(m.state)
           /\ SmartSearch => Start(r.m.state) = FlagEnd(m.state)
           /\ ~SmartSearch => Processed(r.m.state) = 0
           /\ Within(r.m.state)
<1>1. m \in Machine /\ m.state \in Cursor
  BY GoodType
<1>2. SmartSearch => ~(FlagEnd(m.state) > FlagBytes)
  BY <1>1, FlagEndType, FlagAssumption DEF Good, FlagsSound
<1>3. CASE SmartSearch
  <2> DEFINE n == [m EXCEPT
                !.state.decode_state.map_search_elem_state = FlagEnd(m.state),
                !.state.decode_state.map_elem_count = 0]
  <2>1. exit_map(m) = Success(n)
    BY <1>2, <1>3 DEF exit_map
  <2>2. /\ n.backup_list = m.backup_list /\ n.mem = m.mem
        /\ n.state.payload = m.state.payload
        /\ n.state.payload_end = m.state.payload_end
        /\ MapOf(n.state) = MapOf(m.state)
        /\ Start(n.state) = FlagEnd(m.state)
    BY <1>1 DEF Machine, Cursor, DecodeState, MapOf, Start
  <2> HIDE DEF n
  <2> QED BY <1>3, <2>1, <2>2 DEF Success, Within
<1>4. CASE ~SmartSearch
  <2> DEFINE n == [m EXCEPT !.state.decode_state.map_elems_processed = 0,
                            !.state.decode_state.map_elem_count = 0]
  <2>1. exit_map(m) = Success(n)
    BY <1>4 DEF exit_map
  <2>2. /\ n.backup_list = m.backup_list /\ n.mem = m.mem
        /\ n.state.payload = m.state.payload
        /\ n.state.payload_end = m.state.payload_end
        /\ MapOf(n.state) = MapOf(m.state)
        /\ Processed(n.state) = 0 /\ Count(n.state) = 0
    BY <1>1 DEF Machine, Cursor, DecodeState, MapOf, Processed, Count
  <2> HIDE DEF n
  <2> QED BY <1>4, <2>1, <2>2 DEF Success, Within
<1> QED BY <1>3, <1>4

\* A map that grows keeps the flags it has.
LEMMA GrownKeeps ==
    ASSUME NEW m, Good(m), NEW n, Good(n),
           n.backup_list = m.backup_list, Start(n.state) = Start(m.state),
           MapOf(n.state) = MapOf(m.state), Count(m.state) <= Count(n.state),
           Processed(n.state) = Processed(m.state),
           n.state.payload = m.state.payload, n.state.payload_end = m.state.payload_end,
           Below(m, n, FlagEnd(m.state))
    PROVE  Worked(m, n)
<1>1. /\ m.state \in Cursor /\ n.state \in Cursor
      /\ Start(m.state) \in Int /\ FlagEnd(m.state) \in Int /\ Start(m.state) <= FlagEnd(m.state)
      /\ Count(m.state) \in Int /\ Count(n.state) \in Int /\ Processed(m.state) \in Int
      /\ SmartSearch => FlagEnd(m.state) <= FlagBytes
  <2>1. m.state \in Cursor /\ n.state \in Cursor
    BY GoodType
  <2>2. /\ Start(m.state) \in Int /\ FlagEnd(m.state) \in Int
        /\ Start(m.state) <= FlagEnd(m.state)
    BY <2>1, FlagEndType, FlagAssumption
  <2>3. Count(m.state) \in Int /\ Count(n.state) \in Int /\ Processed(m.state) \in Int
    BY <2>1, CountType
  <2> QED BY <2>1, <2>2, <2>3 DEF Good, FlagsSound
<1>2. Below(m, n, Start(m.state))
  BY <1>1, BelowLess
<1>3. ASSUME NEW i \in 0 .. Count(m.state) - 1, FlagLeft(n, n.state, i)
      PROVE  FlagLeft(m, m.state, i)
  <2>1. CASE ~SmartSearch
    BY <1>3, <2>1 DEF FlagLeft, Processed
  <2>2. CASE SmartSearch
    <3>1. FlagByteOf(n.state, i) = FlagByteOf(m.state, i)
      BY DEF FlagByteOf, Start
    <3>2. n.mem[FlagByteOf(m.state, i)] = m.mem[FlagByteOf(m.state, i)]
      BY <1>1, <2>2, FlagAddress DEF Below
    <3> QED BY <1>3, <2>2, <3>1, <3>2 DEF FlagLeft
  <2> QED BY <2>1, <2>2
<1>4. Within(m.state) => Within(n.state)
  BY <1>1 DEF Within
<1> QED BY <1>2, <1>3, <1>4 DEF Worked, Kept, KeptBelow, SameSection

\* Flags are added for the elements a map is found to have, as far as there is
\* room for them.
LEMMA GrowMapWorks ==
    ASSUME NEW m, Good(m), NEW elem_count \in 0 .. SIZE_MAX
    PROVE  Worked(m, GrowMap(m, elem_count).m)
<1> DEFINE old == Count(m.state)
           new == IF elem_count \div 2 > old THEN elem_count \div 2 ELSE old
           Sized(n) == [m EXCEPT !.state.decode_state.map_elem_count = n]
           flags == Start(m.state)
           left == BitsPerByte * (FlagBytes - flags)
           grown == Sized(new)
           r == GrowMap(m, elem_count)
<1>1. /\ m \in Machine /\ m.state \in Cursor /\ flags \in 0 .. FlagBytes
      /\ m.mem \in [Address -> Byte] /\ old \in Nat
  BY GoodType, FlagEndType, CountType
<1>2. old <= new
  <2>1. elem_count \div 2 \in Int
    BY SizeAssumption
  <2> QED BY <1>1, <2>1
<1>3. Good(r.m)
  BY GrowMapGood DEF GoodResult
<1> HIDE DEF new
<1>4. ASSUME NEW n
      PROVE  /\ Sized(n).backup_list = m.backup_list /\ Sized(n).mem = m.mem
             /\ Sized(n).state.payload = m.state.payload
             /\ Sized(n).state.payload_end = m.state.payload_end
             /\ Count(Sized(n).state) = n /\ Start(Sized(n).state) = flags
             /\ MapOf(Sized(n).state) = MapOf(m.state)
             /\ Processed(Sized(n).state) = Processed(m.state)
  BY <1>1 DEF Machine, Cursor, DecodeState, Start, Count, MapOf, Processed
<1> HIDE DEF Sized
<1>5. ASSUME NEW n, Good(Sized(n)), old <= n
      PROVE  Worked(m, Sized(n))
  <2>1. Below(m, Sized(n), FlagEnd(m.state))
    BY <1>4, BelowSame
  <2> QED BY <1>4, <1>5, <2>1, GrownKeeps
<1>6. CASE ~SmartSearch
  <2>1. r = Success(grown)
    BY <1>6 DEF GrowMap, new, Sized, Count
  <2> HIDE DEF r
  <2>2. r.m = grown
    BY <2>1 DEF Success
  <2> QED BY <1>2, <1>3, <1>5, <2>2 DEF r
<1>7. CASE SmartSearch
  <2> DEFINE oldlen == FlagsToBytes(old)
             newlen == FlagsToBytes(new)
             mem == [a \in DOMAIN grown.mem |-> IF a \in flags + oldlen .. flags + newlen - 1
                                                THEN Bit ELSE grown.mem[a]]
             full == [grown EXCEPT !.mem = mem]
             few == [grown EXCEPT !.state.decode_state.map_elem_count = left]
  <2>1. /\ oldlen \in Nat /\ FlagEnd(m.state) = flags + oldlen
        /\ flags + oldlen <= FlagBytes
    <3>1. FlagEnd(m.state) = flags + oldlen
      BY DEF FlagEnd, FlagLen, Start, Count
    <3> QED BY <1>1, <1>7, <3>1, FlagsToBytesType DEF Good, FlagsSound
  <2>2. r = IF newlen = oldlen THEN Success(grown)
            ELSE IF flags + newlen > FlagBytes THEN Err(few, "MAP_FLAGS_NOT_AVAILABLE")
            ELSE Success(full)
    <3>1. r = allocate_map_flags(grown, old)
      BY <1>7 DEF GrowMap, new, Sized, Count
    <3>2. /\ grown.state.decode_state.map_search_elem_state = flags
          /\ FlagLen(grown.state) = newlen
      <4>1. Start(grown.state) = flags /\ Count(grown.state) = new
        BY <1>4
      <4> HIDE DEF grown, new, flags
      <4> QED BY <4>1 DEF Start, Count, FlagLen
    <3> HIDE DEF r, grown, new, flags
    <3> QED BY <3>1, <3>2 DEF allocate_map_flags
  <2> HIDE DEF r
  <2>3. CASE newlen = oldlen
    <3>1. r.m = grown
      BY <2>2, <2>3 DEF Success
    <3> QED BY <1>2, <1>3, <1>5, <3>1 DEF r
  <2>4. CASE newlen # oldlen /\ flags + newlen > FlagBytes
    <3>1. r = Err(few, "MAP_FLAGS_NOT_AVAILABLE")
      BY <2>2, <2>4
    <3>2. few = Sized(left)
      BY <1>1 DEF Sized, Machine, Cursor, DecodeState
    <3>3. old <= left
      <4>1. old <= BitsPerByte * oldlen
        BY <1>1, FlagsToBytesHolds
      <4>2. oldlen <= FlagBytes - flags /\ FlagBytes - flags \in Nat
        BY <1>1, <2>1, FlagAssumption
      <4> DEFINE room == FlagBytes - flags
      <4> HIDE DEF oldlen, room
      <4>3. BitsPerByte * oldlen <= BitsPerByte * room
        BY <2>1, <4>2, FlagAssumption DEF room
      <4>4. BitsPerByte * oldlen \in Int /\ BitsPerByte * room \in Int
        BY <2>1, <4>2, FlagAssumption DEF room
      <4> QED BY <1>1, <4>1, <4>3, <4>4 DEF room
    <3>0. {"state", "backup_list", "mem"} \subseteq DOMAIN few
      BY <1>1 DEF Sized, Machine
    <3> HIDE DEF left, few, grown
    <3>4. /\ r.m.state = few.state /\ r.m.backup_list = few.backup_list
          /\ r.m.mem = few.mem
      <4>1. r.m = [few EXCEPT !.error = "MAP_FLAGS_NOT_AVAILABLE"] \/ r.m = few
        BY <3>1 DEF Err, Failure, zcbor_error
      <4> QED BY <3>0, <4>1
    <3>5. Below(m, r.m, FlagEnd(m.state))
      BY <1>4, <3>2, <3>4, BelowSame
    <3> QED BY <1>3, <1>4, <3>2, <3>3, <3>4, <3>5, GrownKeeps DEF r
  <2>5. CASE newlen # oldlen /\ ~(flags + newlen > FlagBytes)
    <3>1. r.m = full
      BY <2>2, <2>5 DEF Success
    <3>2. grown.mem = m.mem
      BY <1>4
    <3>3. ASSUME NEW a \in Address, a < FlagEnd(m.state)
          PROVE  mem[a] = m.mem[a]
      <4>1. a \notin flags + oldlen .. flags + newlen - 1
        BY <1>1, <2>1, <3>3, FlagAssumption
      <4> HIDE DEF grown
      <4> QED BY <1>1, <3>2, <4>1
    <3> HIDE DEF mem
    <3>4. full.mem = mem /\ full.state = grown.state /\ full.backup_list = grown.backup_list
      <4>1. "mem" \in DOMAIN grown
        BY <1>1 DEF grown, Sized, Machine
      <4> QED BY <4>1
    <3> HIDE DEF full
    <3>5. Below(m, full, FlagEnd(m.state))
      BY <1>7, <3>3, <3>4 DEF Below
    <3> QED BY <1>2, <1>3, <1>4, <3>1, <3>4, <3>5, GrownKeeps DEF r
  <2> QED BY <2>3, <2>4, <2>5
<1> QED BY <1>6, <1>7

-----------------------------------------------------------------------------
(* Lists, maps and strings: entering one.                                  *)

\* From m to n a list, map or string was entered: what is saved is the state
\* behind its header, and the flags of what was entered are above all others.
Opened(m, n) ==
    /\ OneMore(m, n)
    /\ Below(m, n, FlagEnd(m.state))
    /\ Start(Top(n)) = Start(m.state)
    /\ Count(Top(n)) = Count(m.state)
    /\ MapOf(Top(n)) = MapOf(m.state)
    /\ ~SmartSearch => Processed(Top(n)) = Processed(m.state)
    /\ FlagsOf(n, Top(n)) = FlagsOf(m, m.state)
    /\ Top(n).elem_count = m.state.elem_count - 1
    /\ Top(n).payload_end = m.state.payload_end
    /\ ~Top(n).payload_moved
    /\ ~BackedUp(Top(n))
    /\ SmartSearch => Start(n.state) = FlagEnd(m.state)
    /\ n.state.payload_end <= m.state.payload_end
    /\ Within(n.state)

\* A list or map is in the section that its header is in, and knows its backup.
ListOpened(m, n) ==
    /\ Opened(m, n)
    /\ n.state.payload_end = m.state.payload_end
    /\ MapOf(n.state) = Len(n.backup_list)

\* A start that failed after it took its backup leaves it on the list.
Spilled(m, n) ==
    /\ OneMore(m, n)
    /\ Within(m.state) => Within(Top(n))
    /\ Within(n.state)

LEMMA SavedCarried ==
    ASSUME NEW m, NEW k, NEW n, NEW with_flags, StateSaved(m, k, with_flags),
           n.backup_list = k.backup_list, n.mem = k.mem
    PROVE  StateSaved(m, n, with_flags)
<1>1. Top(n) = Top(k) /\ OneMore(m, n) /\ Below(m, n, FlagEnd(m.state))
  BY DEF StateSaved, Top, OneMore, Below
<1>2. FlagsOf(n, Top(n)) = FlagsOf(k, Top(k))
  BY <1>1 DEF FlagsOf, FlagLeft
<1>3. Alike(m, m.state, n, Top(n))
  BY <1>1, <1>2 DEF StateSaved, Alike, Snapshot
<1> QED BY <1>1, <1>3 DEF StateSaved

LEMMA OpenedIf ==
    ASSUME NEW m, NEW k, NEW n, ValueRead(m, k), StateSaved(k, n, FALSE),
           SmartSearch => Start(n.state) = FlagEnd(k.state),
           n.state.payload_end <= k.state.payload_end, Within(n.state)
    PROVE  Opened(m, n)
<1>1. /\ FlagEnd(k.state) = FlagEnd(m.state) /\ Start(k.state) = Start(m.state)
      /\ Count(k.state) = Count(m.state) /\ MapOf(k.state) = MapOf(m.state)
      /\ Processed(k.state) = Processed(m.state)
  BY DEF ValueRead, FlagEnd, FlagLen, Start, Count, MapOf, Processed
<1>2. FlagsOf(k, k.state) = FlagsOf(m, m.state)
  BY DEF ValueRead, FlagsOf, FlagLeft, FlagByteOf
<1>3. /\ FlagsOf(n, Top(n)) = FlagsOf(k, k.state)
      /\ Top(n).payload = k.state.payload /\ Top(n).elem_count = k.state.elem_count
  BY DEF StateSaved, Alike, Snapshot
<1>4. /\ Top(n).payload_end = k.state.payload_end /\ Count(Top(n)) = Count(k.state)
      /\ MapOf(Top(n)) = MapOf(k.state) /\ Start(Top(n)) = Start(k.state)
      /\ ~SmartSearch => Processed(Top(n)) = Processed(k.state)
      /\ ~Top(n).payload_moved /\ ~BackedUp(Top(n))
  BY DEF StateSaved, Alike
<1>5. OneMore(m, n) /\ Below(m, n, FlagEnd(m.state))
  BY <1>1 DEF StateSaved, ValueRead, OneMore, Below
<1> QED BY <1>1, <1>2, <1>3, <1>4, <1>5 DEF Opened, ValueRead

\* Work above what was saved leaves it as it is.
LEMMA OpenedStays ==
    ASSUME NEW m, Good(m), NEW k, Good(k), NEW n, Good(n), Opened(m, k),
           KeptBelow(k, n), SameSection(k, n), Within(n.state)
    PROVE  Opened(m, n) /\ (ListOpened(m, k) => ListOpened(m, n))
<1>1. /\ n.backup_list = k.backup_list /\ Top(n) = Top(k)
      /\ Start(n.state) = Start(k.state) /\ MapOf(n.state) = MapOf(k.state)
      /\ n.state.payload_end = k.state.payload_end
      /\ Below(k, n, Start(k.state))
  BY DEF KeptBelow, SameSection, Top
<1>2. Below(k, n, FlagEnd(m.state))
  BY <1>1 DEF Opened, Below
<1>3. Below(m, n, FlagEnd(m.state))
  BY <1>2, BelowThrough DEF Opened
<1>4. FlagEnd(Top(k)) = FlagEnd(m.state)
  BY DEF Opened, FlagEnd, FlagLen, Start, Count
<1>5. Top(k) \in Cursor
  <2>1. Len(m.backup_list) \in Nat
    BY GoodType
  <2>2. Len(k.backup_list) \in 1 .. Len(k.backup_list)
    BY <2>1 DEF Opened, OneMore
  <2> QED BY <2>2, GoodType DEF Top
<1>6. SmartSearch => FlagEnd(m.state) <= FlagBytes
  BY DEF Good, FlagsSound
<1>7. FlagsOf(n, Top(k)) = FlagsOf(k, Top(k))
  BY <1>2, <1>4, <1>5, <1>6, FlagsStay
<1> QED BY <1>1, <1>3, <1>7 DEF Opened, ListOpened, OneMore

LEMMA OpenedWorked ==
    ASSUME NEW m, Good(m), NEW k, Good(k), NEW n, Good(n), Opened(m, k), Worked(k, n)
    PROVE  Opened(m, n) /\ (ListOpened(m, k) => ListOpened(m, n))
BY OpenedStays DEF Worked, Kept, Opened

LEMMA OpenedSpills ==
    ASSUME NEW m, NEW k, NEW n, Opened(m, k), n.backup_list = k.backup_list, Within(n.state)
    PROVE  Spilled(m, n)
BY DEF Opened, Spilled, OneMore, Top, Within

\* The header is read, a backup is taken behind it, and the contents have flags
\* of their own; or else the state is as it was.
LEMMA ListMapStartOpens ==
    ASSUME NEW m, Good(m), NEW h \in HeaderSet, NEW type
    PROVE  LET r == list_map_start_decode(m, h, type) IN
           /\ r.ok => /\ ListOpened(m, r.m)
                      /\ ~SmartSearch => Processed(r.m.state) = 0
           /\ ~r.ok => Worked(m, r.m)
<1> DEFINE indef == h.additional = INDEFINITE
           t == type_check(m, h, type)
           v == value_extract(m, h, SIZEOF_SIZE_T, TRUE)
           count == IF indef THEN ZCBOR_LARGE_ELEM_COUNT ELSE h.value
           b == zcbor_new_backup(v.m, count)
           c == [b.m.state EXCEPT
                   !.decode_state.map_start_backup_num = Len(b.m.backup_list),
                   !.decode_state.indefinite_length_array = indef]
           entered == [b.m EXCEPT !.state = c]
           R == list_map_start_decode(m, h, type)
<1>1. Worked(m, t.m)
  BY TypeCheckWorks
<1>2. /\ Good(v.m)
      /\ v.ok => ValueRead(m, v.m)
      /\ ~v.ok => Worked(m, v.m)
  <2>1. SIZEOF_SIZE_T \in Nat
    BY DEF SIZEOF_SIZE_T
  <2> QED BY <2>1, ValueExtractGood, ValueExtractReads DEF GoodResult
<1> HIDE DEF v
<1>3. count \in 0 .. SIZE_MAX
  BY SizeAssumption DEF HeaderSet, ZCBOR_LARGE_ELEM_COUNT
<1> HIDE DEF count
<1>4. GoodResult(b) /\ Good(b.m)
  BY <1>2, <1>3, NewBackupGood DEF zcbor_new_backup, GoodResult
<1>5. /\ b.ok => /\ StateSaved(v.m, b.m, FALSE)
                 /\ b.m = Pushed(v.m, count, FALSE)
      /\ ~b.ok => \E err \in Errors : b.m \in {v.m, zcbor_error(v.m, err)}
  <2>1. (SmartSearch /\ FALSE) = FALSE
    OBVIOUS
  <2> QED BY <1>2, <1>3, <2>1, NewBackupSaves DEF zcbor_new_backup
<1> HIDE DEF b
<1>6. ASSUME v.ok, ~b.ok PROVE Worked(m, FAIL_RESTORE(b.m).m)
  <2>1. PICK err \in Errors : b.m \in {v.m, zcbor_error(v.m, err)}
    BY <1>5, <1>6
  <2>2. b.m.state = v.m.state /\ b.m.backup_list = v.m.backup_list /\ b.m.mem = v.m.mem
    BY <1>2, <2>1, ErrorGood, ErrorWorks
  <2>3. ValueRead(m, b.m)
    BY <1>2, <1>6, <2>2 DEF ValueRead
  <2> QED BY <1>4, <2>3, RewoundWorks DEF FAIL_RESTORE, Failure
<1>7. /\ b.m \in Machine /\ b.m.state \in Cursor /\ Len(b.m.backup_list) \in 0 .. NumBackups
      /\ indef \in BOOLEAN
  BY <1>4, GoodType
<1>8. /\ c \in Cursor /\ Start(c) = Start(b.m.state) /\ FlagEnd(c) = FlagEnd(b.m.state)
      /\ Count(c) = Count(b.m.state)
      /\ MapOf(c) = Len(b.m.backup_list)
      /\ c.payload = b.m.state.payload /\ c.payload_end = b.m.state.payload_end
  BY <1>7 DEF Cursor, DecodeState, Start, FlagEnd, FlagLen, Count, MapOf
<1>9. entered = [b.m EXCEPT
               !.state.decode_state.map_start_backup_num = Len(b.m.backup_list),
               !.state.decode_state.indefinite_length_array = indef]
  BY <1>7 DEF Machine, Cursor, DecodeState
<1> HIDE DEF c
<1>10. /\ Good(entered)
       /\ entered.state = c /\ entered.backup_list = b.m.backup_list
       /\ entered.mem = b.m.mem
  <2>1. Good(entered) /\ entered.state = c /\ entered.backup_list = b.m.backup_list
    BY <1>4, <1>8, StateUpdateGood DEF Count
  <2>2. entered.mem = b.m.mem
    BY <1>7 DEF Machine
  <2> QED BY <2>1, <2>2
<1> HIDE DEF entered
<1>11. R = IF ~t.ok THEN t ELSE IF ~v.ok THEN v
           ELSE IF ~b.ok THEN FAIL_RESTORE(b.m) ELSE exit_map(entered)
  BY <1>9 DEF list_map_start_decode, v, b, count
<1> DEFINE n == exit_map(entered).m
<1>12. ASSUME v.ok, b.ok
       PROVE  /\ ListOpened(m, n) /\ exit_map(entered).ok
              /\ ~SmartSearch => Processed(n.state) = 0
  <2>1. /\ exit_map(entered).ok = TRUE
        /\ n.backup_list = entered.backup_list /\ n.mem = entered.mem
        /\ n.state.payload = entered.state.payload
        /\ n.state.payload_end = entered.state.payload_end
        /\ MapOf(n.state) = MapOf(entered.state)
        /\ SmartSearch => Start(n.state) = FlagEnd(entered.state)
        /\ ~SmartSearch => Processed(n.state) = 0
        /\ Within(n.state)
    BY <1>10, ExitMapEnters
  <2> HIDE DEF n
  <2>2. ValueRead(m, v.m) /\ StateSaved(v.m, b.m, FALSE)
    BY <1>2, <1>5, <1>12
  <2>3. /\ GoesOn(v.m, b.m, count, FALSE)
        /\ FlagEnd(b.m.state) = FlagEnd(v.m.state)
    BY <1>2, <1>3, <1>5, <1>12, PushedSaves
  <2>4. b.m.state.payload = v.m.state.payload /\ b.m.state.payload_end = v.m.state.payload_end
    <3>1. v.m.state \in Cursor
      BY <1>2, GoodType
    <3> DEFINE from == [v.m.state EXCEPT !.elem_count = count]
    <3>2. from.payload = v.m.state.payload /\ from.payload_end = v.m.state.payload_end
      BY <3>1 DEF Cursor
    <3>3. Alike(v.m, from, b.m, b.m.state)
      BY <2>3 DEF GoesOn
    <3> HIDE DEF from
    <3> QED BY <3>2, <3>3 DEF Alike, Snapshot
  <2>5. StateSaved(v.m, n, FALSE)
    BY <1>10, <2>1, <2>2, SavedCarried
  <2>6. n.state.payload_end = v.m.state.payload_end
    BY <1>8, <1>10, <2>1, <2>2, <2>4 DEF ValueRead
  <2>7. n.state.payload_end <= v.m.state.payload_end
    BY <1>2, <2>6, GoodType, CountType
  <2>8. SmartSearch => Start(n.state) = FlagEnd(v.m.state)
    BY <1>8, <1>10, <2>1, <2>3
  <2>9. Opened(m, n)
    BY <2>1, <2>2, <2>5, <2>6, <2>7, <2>8, OpenedIf
  <2> QED BY <1>8, <1>10, <2>1, <2>2, <2>6, <2>9 DEF ListOpened, ValueRead
<1>13. FAIL_RESTORE(b.m).ok = FALSE
  BY DEF FAIL_RESTORE, Failure
<1> HIDE DEF t, R
<1>14. /\ R.ok => ListOpened(m, R.m) /\ (~SmartSearch => Processed(R.m.state) = 0)
       /\ ~R.ok => Worked(m, R.m)
  BY <1>1, <1>2, <1>6, <1>11, <1>12, <1>13
<1> QED BY <1>14 DEF R

LEMMA MapStartOpens ==
    ASSUME NEW m, Good(m), NEW h \in HeaderSet
    PROVE  LET r == zcbor_map_start_decode(m, h) IN
           /\ r.ok => /\ ListOpened(m, r.m)
                      /\ ~SmartSearch => Processed(r.m.state) = 0
           /\ ~r.ok => Worked(m, r.m) \/ Spilled(m, r.m)
<1> DEFINE r == list_map_start_decode(m, h, MAP)
           twice == [r.m EXCEPT !.state.elem_count = 2 * @]
           undone == ERR_RESTORE(r.m, "INT_SIZE")
           R == zcbor_map_start_decode(m, h)
           Right(x) == /\ x.ok => /\ ListOpened(m, x.m)
                                  /\ ~SmartSearch => Processed(x.m.state) = 0
                       /\ ~x.ok => Worked(m, x.m) \/ Spilled(m, x.m)
<1>1. /\ Good(r.m)
      /\ r.ok => ListOpened(m, r.m) /\ (~SmartSearch => Processed(r.m.state) = 0)
      /\ ~r.ok => Worked(m, r.m)
  BY ListMapStartGood, ListMapStartOpens DEF GoodResult
<1> DEFINE many == r.m.state.elem_count >= SIZE_MAX \div 2
<1>2. R = IF ~r.ok \/ r.m.state.decode_state.indefinite_length_array THEN r
          ELSE IF many THEN undone ELSE Success(twice)
  BY DEF zcbor_map_start_decode, PairsCounted
<1>3. GoodResult(R)
  BY MapStartGood
<1> HIDE DEF r
<1>4. r.m \in Machine /\ r.m.state \in Cursor
  BY <1>1, GoodType
<1> HIDE DEF many, R
<1>5. CASE ~r.ok \/ r.m.state.decode_state.indefinite_length_array
  <2>1. R = r
    BY <1>2, <1>5
  <2>2. Right(R)
    BY <1>1, <2>1
  <2> QED BY <2>2 DEF R
<1>6. CASE r.ok /\ ~r.m.state.decode_state.indefinite_length_array /\ many
  <2>1. R = undone
    BY <1>2, <1>6
  <2>2. "INT_SIZE" \in Errors
    BY DEF Errors
  <2>3. /\ Good(Rewound(r.m))
        /\ Rewound(r.m).state.decode_state = r.m.state.decode_state
    BY <1>1, RewoundGood
  <2>4. Rewound(r.m).backup_list = r.m.backup_list
    BY <1>4 DEF Rewound, Machine
  <2>5. /\ undone.ok = FALSE
        /\ undone.m.state = Rewound(r.m).state
        /\ undone.m.backup_list = Rewound(r.m).backup_list
    BY <2>2, <2>3, ErrGood DEF ERR_RESTORE
  <2> HIDE DEF undone
  <2>6. Within(undone.m.state)
    BY <1>1, <1>6, <2>3, <2>5 DEF ListOpened, Opened, Within, Processed, Count
  <2>7. Spilled(m, undone.m)
    BY <1>1, <1>6, <2>4, <2>5, <2>6, OpenedSpills DEF ListOpened
  <2>8. Right(R)
    BY <2>1, <2>5, <2>7
  <2> QED BY <2>8 DEF R
<1>7. CASE r.ok /\ ~r.m.state.decode_state.indefinite_length_array /\ ~many
  <2>1. R = Success(twice)
    BY <1>2, <1>7
  <2>2. R.ok /\ R.m = twice
    BY <2>1 DEF Success
  <2>3. /\ twice.backup_list = r.m.backup_list /\ twice.mem = r.m.mem
        /\ twice.state.decode_state = r.m.state.decode_state
        /\ twice.state.payload = r.m.state.payload
        /\ twice.state.payload_end = r.m.state.payload_end
    BY <1>4 DEF Machine, Cursor
  <2> HIDE DEF twice
  <2>4. Good(twice)
    BY <1>3, <2>2 DEF GoodResult
  <2>5. Kept(r.m, twice)
    BY <1>1, <2>3, <2>4, CursorMoves DEF Start, MapOf, Count, Processed
  <2>6. Worked(r.m, twice)
    BY <2>3, <2>5 DEF Worked, SameSection
  <2>7. ListOpened(m, twice)
    BY <1>1, <1>7, <2>4, <2>6, OpenedWorked DEF ListOpened
  <2>8. Right(R)
    BY <1>1, <1>7, <2>2, <2>3, <2>7 DEF Processed
  <2> QED BY <2>8 DEF R
<1> QED BY <1>5, <1>6, <1>7

LEMMA UnorderedMapStartOpens ==
    ASSUME NEW m, Good(m), NEW h \in HeaderSet
    PROVE  LET r == zcbor_unordered_map_start_decode(m, h) IN
           /\ r.ok => ListOpened(m, r.m)
           /\ ~r.ok => Worked(m, r.m) \/ Spilled(m, r.m)
<1> DEFINE r == zcbor_map_start_decode(m, h)
           counting == r.m.state.decode_state.indefinite_length_array
           n == [r.m EXCEPT !.state.decode_state.map_elem_count = 0,
                            !.state.decode_state.counting_map_elems = counting]
           R == zcbor_unordered_map_start_decode(m, h)
           Right(x) == /\ x.ok => ListOpened(m, x.m)
                       /\ ~x.ok => Worked(m, x.m) \/ Spilled(m, x.m)
<1>1. /\ Good(r.m)
      /\ r.ok => ListOpened(m, r.m) /\ (~SmartSearch => Processed(r.m.state) = 0)
      /\ ~r.ok => Worked(m, r.m) \/ Spilled(m, r.m)
  BY MapStartGood, MapStartOpens DEF GoodResult
<1>2. R = IF ~r.ok THEN r ELSE IF counting THEN Success(n)
          ELSE GrowMap(n, n.state.elem_count)
  BY DEF zcbor_unordered_map_start_decode, SearchStarted
<1>3. GoodResult(R)
  BY UnorderedMapStartGood
<1> HIDE DEF r, R
<1>4. r.m \in Machine /\ r.m.state \in Cursor /\ counting \in BOOLEAN
  BY <1>1, GoodType DEF DecodeState
<1> HIDE DEF counting
<1>5. CASE ~r.ok
  <2>1. Right(R)
    BY <1>1, <1>2, <1>5
  <2> QED BY <2>1 DEF R
<1>6. CASE r.ok
  <2>1. /\ n.backup_list = r.m.backup_list /\ n.mem = r.m.mem
        /\ n.state.payload = r.m.state.payload
        /\ n.state.payload_end = r.m.state.payload_end
        /\ Start(n.state) = Start(r.m.state) /\ MapOf(n.state) = MapOf(r.m.state)
        /\ Count(n.state) = 0 /\ Processed(n.state) = Processed(r.m.state)
    BY <1>4 DEF Machine, Cursor, DecodeState, Start, MapOf, Count, Processed
  <2>2. n \in Machine
    <3>1. 0 \in 0 .. SIZE_MAX \div 2
      BY SizeAssumption
    <3> QED BY <1>4, <3>1 DEF Machine, Cursor, DecodeState
  <2> HIDE DEF n
  <2>3. n.state \in Cursor /\ n.state.elem_count \in 0 .. SIZE_MAX
    BY <2>2 DEF Machine, Cursor
  <2>4. Good(n)
    <3>1. Start(r.m.state) <= Start(n.state)
      BY <1>4, <2>1, FlagEndType, FlagAssumption
    <3>2. FlagEnd(n.state) = Start(n.state) + 0
      BY <2>1, FlagsToBytesZero DEF FlagEnd, FlagLen, Start, Count
    <3>3. FlagEnd(n.state) <= FlagBytes
      BY <2>3, <3>2, FlagEndType, FlagAssumption
    <3> QED BY <1>1, <2>1, <2>2, <3>1, <3>3, FlagsMovedUp
  <2>5. Within(n.state)
    BY <1>1, <1>6, <2>1 DEF Within
  <2>6. KeptBelow(r.m, n) /\ SameSection(r.m, n)
    BY <2>1, BelowSame DEF KeptBelow, SameSection
  <2>7. ListOpened(m, n)
    BY <1>1, <1>6, <2>4, <2>5, <2>6, OpenedStays DEF ListOpened
  <2>8. CASE counting
    <3>1. R = Success(n)
      BY <1>2, <1>6, <2>8
    <3>2. Right(R)
      BY <2>7, <3>1 DEF Success
    <3> QED BY <3>2 DEF R
  <2>9. CASE ~counting
    <3>1. R = GrowMap(n, n.state.elem_count)
      BY <1>2, <1>6, <2>9
    <3>2. Worked(n, R.m) /\ Good(R.m)
      BY <1>3, <2>3, <2>4, <3>1, GrowMapWorks DEF GoodResult
    <3>3. ListOpened(m, R.m)
      BY <2>4, <2>7, <3>2, OpenedWorked DEF ListOpened
    <3>4. Within(R.m.state) /\ R.m.backup_list = n.backup_list
      BY <2>5, <3>2 DEF Worked, Kept, KeptBelow
    <3>5. Right(R)
      BY <2>7, <3>3, <3>4, OpenedSpills DEF ListOpened
    <3> QED BY <3>5 DEF R
  <2> QED BY <2>8, <2>9
<1> QED BY <1>5, <1>6

LEMMA StrStartReads ==
    ASSUME NEW m, Good(m), NEW h \in HeaderSet, NEW type
    PROVE  LET r == str_start_decode_with_overflow_check(m, h, type) IN
           /\ r.ok => /\ ValueRead(m, r.m)
                      /\ r.m.state.payload + h.value <= r.m.state.payload_end
           /\ ~r.ok => Worked(m, r.m)
<1> DEFINE t == type_check(m, h, type)
           v == value_extract(m, h, SIZEOF_SIZE_T, FALSE)
           e == ERR_RESTORE(v.m, "NO_PAYLOAD")
           long == h.value > v.m.state.payload_end - v.m.state.payload
           R == str_start_decode_with_overflow_check(m, h, type)
           Right(x) == /\ x.ok => /\ ValueRead(m, x.m)
                                  /\ x.m.state.payload + h.value <= x.m.state.payload_end
                       /\ ~x.ok => Worked(m, x.m)
<1>1. Worked(m, t.m)
  BY TypeCheckWorks
<1>2. /\ Good(v.m)
      /\ v.ok => ValueRead(m, v.m)
      /\ ~v.ok => Worked(m, v.m)
  <2>1. SIZEOF_SIZE_T \in Nat
    BY DEF SIZEOF_SIZE_T
  <2> QED BY <2>1, ValueExtractGood, ValueExtractReads DEF GoodResult
<1>3. R = IF ~t.ok THEN t ELSE IF ~v.ok THEN v ELSE IF long THEN e ELSE v
  BY DEF str_start_decode_with_overflow_check
<1>4. "NO_PAYLOAD" \in Errors
  BY DEF Errors
<1> HIDE DEF t, v, R
<1>5. CASE ~t.ok \/ ~v.ok
  <2>1. Right(R)
    BY <1>1, <1>2, <1>3, <1>5
  <2> QED BY <2>1 DEF R
<1>6. CASE t.ok /\ v.ok /\ long
  <2>1. Good(Rewound(v.m)) /\ Worked(m, Rewound(v.m))
    BY <1>2, <1>6, RewoundGood, RewoundWorks
  <2>2. /\ e.ok = FALSE /\ Good(e.m)
        /\ Worked(Rewound(v.m), e.m)
    BY <1>4, <2>1, ErrGood, ErrWorks DEF ERR_RESTORE, GoodResult
  <2>3. Worked(m, e.m)
    BY <2>1, <2>2, WorkedThrough
  <2> HIDE DEF e
  <2>4. Right(R)
    BY <1>3, <1>6, <2>2, <2>3
  <2> QED BY <2>4 DEF R
<1>7. CASE t.ok /\ v.ok /\ ~long
  <2>1. v.m.state.payload \in Nat /\ v.m.state.payload_end \in Nat /\ h.value \in Nat
    BY <1>2, GoodType, CountType, SizeAssumption DEF HeaderSet
  <2>2. v.m.state.payload + h.value <= v.m.state.payload_end
    BY <1>7, <2>1
  <2>3. Right(R)
    BY <1>2, <1>3, <1>7, <2>2
  <2> QED BY <2>3 DEF R
<1> QED BY <1>5, <1>6, <1>7

\* A string's contents are a section of their own, within the one around it.
LEMMA BstrStartOpens ==
    ASSUME NEW m, Good(m), NEW h \in HeaderSet
    PROVE  LET r == zcbor_bstr_start_decode(m, h) IN
           /\ r.ok => Opened(m, r.m)
           /\ ~r.ok => Worked(m, r.m)
<1> DEFINE s == str_start_decode_with_overflow_check(m, h, BSTR)
           b == zcbor_new_backup(s.m, ZCBOR_MAX_ELEM_COUNT)
           e == exit_map(b.m)
           end == s.m.state.payload + h.value
           n == [e.m EXCEPT !.state.payload_end = end, !.state.inside_cbor_bstr = TRUE]
           R == zcbor_bstr_start_decode(m, h)
           Right(x) == /\ x.ok => Opened(m, x.m)
                       /\ ~x.ok => Worked(m, x.m)
<1>1. /\ Good(s.m)
      /\ s.ok => ValueRead(m, s.m) /\ end <= s.m.state.payload_end
      /\ ~s.ok => Worked(m, s.m)
  BY StrStartGood, StrStartReads DEF GoodResult
<1>2. R = IF ~s.ok THEN s ELSE IF ~b.ok THEN FAIL_RESTORE(b.m)
          ELSE IF ~e.ok THEN e ELSE Success(n)
  BY DEF zcbor_bstr_start_decode, StringEntered
<1>3. GoodResult(R)
  BY BstrStartGood
<1> HIDE DEF s, R
<1>4. ZCBOR_MAX_ELEM_COUNT \in 0 .. SIZE_MAX
  BY SizeAssumption DEF ZCBOR_MAX_ELEM_COUNT
<1>5. GoodResult(b) /\ Good(b.m)
  BY <1>1, <1>4, NewBackupGood DEF zcbor_new_backup, GoodResult
<1>6. /\ b.ok => /\ StateSaved(s.m, b.m, FALSE)
                 /\ b.m = Pushed(s.m, ZCBOR_MAX_ELEM_COUNT, FALSE)
      /\ ~b.ok => \E err \in Errors : b.m \in {s.m, zcbor_error(s.m, err)}
  <2>1. (SmartSearch /\ FALSE) = FALSE
    OBVIOUS
  <2> QED BY <1>1, <1>4, <2>1, NewBackupSaves DEF zcbor_new_backup
<1> HIDE DEF b
<1>7. /\ e.ok = TRUE
      /\ e.m.backup_list = b.m.backup_list /\ e.m.mem = b.m.mem
      /\ e.m.state.payload = b.m.state.payload
      /\ SmartSearch => Start(e.m.state) = FlagEnd(b.m.state)
      /\ Within(e.m.state)
      /\ Good(e.m)
  BY <1>5, ExitMapEnters, ExitMapGood DEF GoodResult
<1> HIDE DEF e
<1>8. CASE ~s.ok
  <2>1. Right(R)
    BY <1>1, <1>2, <1>8
  <2> QED BY <2>1 DEF R
<1>9. CASE s.ok /\ ~b.ok
  <2>1. PICK err \in Errors : b.m \in {s.m, zcbor_error(s.m, err)}
    BY <1>6, <1>9
  <2>2. b.m.state = s.m.state /\ b.m.backup_list = s.m.backup_list /\ b.m.mem = s.m.mem
    BY <1>1, <2>1, ErrorGood, ErrorWorks
  <2>3. ValueRead(m, b.m)
    BY <1>1, <1>9, <2>2 DEF ValueRead
  <2>4. R.ok = FALSE /\ R.m = Rewound(b.m)
    BY <1>2, <1>9 DEF FAIL_RESTORE, Failure
  <2>5. Right(R)
    BY <1>5, <2>3, <2>4, RewoundWorks
  <2> QED BY <2>5 DEF R
<1>10. CASE s.ok /\ b.ok
  <2>1. R = Success(n)
    BY <1>2, <1>7, <1>10
  <2>2. e.m \in Machine /\ e.m.state \in Cursor
    BY <1>7, GoodType
  <2>3. /\ n.backup_list = e.m.backup_list /\ n.mem = e.m.mem
        /\ n.state.decode_state = e.m.state.decode_state
        /\ n.state.payload = e.m.state.payload
        /\ n.state.payload_end = end
    BY <2>2 DEF Machine, Cursor
  <2> HIDE DEF n
  <2>4. FlagEnd(b.m.state) = FlagEnd(s.m.state) /\ GoesOn(s.m, b.m, ZCBOR_MAX_ELEM_COUNT, FALSE)
    BY <1>1, <1>4, <1>6, <1>10, PushedSaves
  <2>5. b.m.state.payload = s.m.state.payload
    <3> DEFINE from == [s.m.state EXCEPT !.elem_count = ZCBOR_MAX_ELEM_COUNT]
    <3>1. from.payload = s.m.state.payload
      BY <1>1, GoodType DEF Cursor
    <3>2. Alike(s.m, from, b.m, b.m.state)
      BY <2>4 DEF GoesOn
    <3> HIDE DEF from
    <3> QED BY <3>1, <3>2 DEF Alike, Snapshot
  <2>6. ValueRead(m, s.m) /\ StateSaved(s.m, n, FALSE)
    <3>1. StateSaved(s.m, b.m, FALSE) /\ ValueRead(m, s.m)
      BY <1>1, <1>6, <1>10
    <3> QED BY <1>7, <2>3, <3>1, SavedCarried
  <2>7. SmartSearch => Start(n.state) = FlagEnd(s.m.state)
    BY <1>7, <2>3, <2>4 DEF Start
  <2>8. Within(n.state)
    BY <1>7, <2>3 DEF Within, Processed, Count
  <2>10. n.state.payload_end <= s.m.state.payload_end
    BY <1>1, <1>10, <2>3
  <2>11. Opened(m, n)
    BY <2>6, <2>7, <2>8, <2>10, OpenedIf
  <2>12. Right(R)
    BY <2>1, <2>11 DEF Success
  <2> QED BY <2>12 DEF R
<1> QED BY <1>8, <1>9, <1>10

-----------------------------------------------------------------------------
(* Going back to a backup, giving it up, or both.                          *)

\* What an operation on the top backup leaves where it succeeds.
Outcome(m, restore, consume, keep_payload) ==
    LET r == IF restore THEN RestoreFrom(m, Top(m), consume) ELSE Success(m)
        c == IF consume THEN ConsumeTop(r.m, Top(m), restore) ELSE r.m
    IN  IF keep_payload THEN [c EXCEPT !.state.payload = m.state.payload] ELSE c

LEMMA ProcessTopOutcome ==
    ASSUME NEW m, Good(m), NEW flags, "KEEP_DECODE_STATE" \notin flags,
           NEW restore \in BOOLEAN, restore <=> "RESTORE" \in flags,
           NEW consume \in BOOLEAN, consume <=> "CONSUME" \in flags,
           NEW keep \in BOOLEAN, keep <=> "KEEP_PAYLOAD" \in flags
    PROVE  LET R == zcbor_process_backup(m, flags) IN
           /\ R.ok => /\ m.backup_list # << >>
                      /\ restore /\ ~keep => ~Top(m).payload_moved
                      /\ R.m = Outcome(m, restore, consume, keep)
           /\ ~R.ok => \E err \in Errors : R.m \in {m, zcbor_error(m, err)}
<1> DEFINE R == zcbor_process_backup(m, flags)
           r == IF restore THEN RestoreFrom(m, Top(m), consume) ELSE Success(m)
           out == Outcome(m, restore, consume, keep)
           Refused(x) == ~x.ok /\ \E err \in Errors : x.m \in {m, zcbor_error(m, err)}
<1>1. {"NO_BACKUP_ACTIVE", "BAD_ARG", "PAYLOAD_OUTDATED"} \subseteq Errors
  BY DEF Errors
<1>2. \A err \in Errors : Refused(Err(m, err)) /\ Refused(Failure(m))
  BY DEF Err, Failure
<1> HIDE DEF Refused
<1>3. CASE m.backup_list = << >>
  <2>1. R = Err(m, "NO_BACKUP_ACTIVE")
    BY <1>3 DEF zcbor_process_backup
  <2> HIDE DEF R
  <2>2. Refused(R)
    BY <1>1, <1>2, <2>1
  <2> QED BY <2>2 DEF R, Refused
<1>4. CASE m.backup_list # << >> /\ ~zcbor_check_error(m)
  <2>1. R = Failure(m)
    BY <1>4 DEF zcbor_process_backup, zcbor_process_backup_num
  <2> HIDE DEF R
  <2>2. Refused(R)
    BY <1>1, <1>2, <2>1
  <2> QED BY <2>2 DEF R, Refused
<1>5. CASE m.backup_list # << >> /\ zcbor_check_error(m)
  <2>1. Len(m.backup_list) \in 1 .. Len(m.backup_list) /\ Len(m.backup_list) # 0
    BY <1>5, ShorterList
  <2>2. r.ok = TRUE
    <3>1. RestoreFrom(m, Top(m), consume).ok = TRUE
      BY <2>1, RestoreFromType DEF Top
    <3> QED BY <3>1 DEF Success
  <2>3. R = IF restore /\ ~keep /\ Top(m).payload_moved
            THEN Err(m, "PAYLOAD_OUTDATED") ELSE Success(out)
    <3> DEFINE restore0 == "RESTORE" \in flags
               consume0 == "CONSUME" \in flags
               keep0 == "KEEP_PAYLOAD" \in flags
               out0 == Outcome(m, restore0, consume0, keep0)
               r0 == IF restore0 THEN RestoreFrom(m, Top(m), consume0) ELSE Success(m)
    <3>1. restore = restore0 /\ consume = consume0 /\ keep = keep0
      OBVIOUS
    <3>2. RestoreFrom(m, Top(m), consume) = RestoreFrom(m, Top(m), consume0)
      BY <3>1 DEF RestoreFrom
    <3>3. r = r0
      <4> HIDE DEF consume0
      <4> QED BY <3>1, <3>2
    <3>4. \A x : ConsumeTop(x, Top(m), restore) = ConsumeTop(x, Top(m), restore0)
      BY <3>1 DEF ConsumeTop
    <3> DEFINE c == IF consume THEN ConsumeTop(r.m, Top(m), restore) ELSE r.m
               c0 == IF consume0 THEN ConsumeTop(r0.m, Top(m), restore0) ELSE r0.m
    <3>5. c = c0
      <4> HIDE DEF r, r0, restore0
      <4> QED BY <3>1, <3>3, <3>4
    <3>6. out = out0
      <4>1. /\ out = IF keep THEN [c EXCEPT !.state.payload = m.state.payload] ELSE c
            /\ out0 = IF keep0 THEN [c0 EXCEPT !.state.payload = m.state.payload] ELSE c0
        BY DEF Outcome
      <4> HIDE DEF c, c0, out, out0
      <4> QED BY <3>1, <3>5, <4>1
    <3>7. r0.ok = TRUE
      BY <2>2, <3>3
    <3>8. R = IF restore0 /\ ~keep0 /\ Top(m).payload_moved
              THEN Err(m, "PAYLOAD_OUTDATED") ELSE Success(out0)
      BY <1>5, <2>1, <3>7 DEF zcbor_process_backup, zcbor_process_backup_num, Outcome, Top
    <3> HIDE DEF R, out, out0
    <3> QED BY <3>1, <3>6, <3>8
  <2> HIDE DEF R, out, r
  <2>4. CASE restore /\ ~keep /\ Top(m).payload_moved
    <3>1. Refused(R)
      BY <1>1, <1>2, <2>3, <2>4
    <3> QED BY <3>1 DEF R, Refused
  <2>5. CASE ~(restore /\ ~keep /\ Top(m).payload_moved)
    <3>1. R.ok /\ R.m = out
      BY <2>3, <2>5 DEF Success
    <3> QED BY <1>5, <2>5, <3>1 DEF R, out
  <2> QED BY <2>4, <2>5
<1> QED BY <1>3, <1>4, <1>5

\* A call that was refused changes nothing but the error register.
LEMMA RefusedWorks ==
    ASSUME NEW m, Good(m), NEW n, \E err \in Errors : n \in {m, zcbor_error(m, err)}
    PROVE  Worked(m, n) /\ n.state = m.state /\ n.backup_list = m.backup_list
BY ErrorWorks, ErrorGood, WorkedSelf

\* The top backup is gone, and the others are as they were.
OneLess(m, n) ==
    /\ m.backup_list # << >>
    /\ Len(n.backup_list) = Len(m.backup_list) - 1
    /\ \A i \in 1 .. Len(n.backup_list) : n.backup_list[i] = m.backup_list[i]

\* Another try from the top backup, which keeps its own flags.
Retried(m, n) ==
    /\ m.backup_list # << >> /\ ~Top(m).payload_moved
    /\ n.backup_list = m.backup_list
    /\ Below(m, n, FlagEnd(Top(m)))
    /\ Alike(m, Top(m), n, n.state)
    /\ Start(n.state) = IF SmartSearch /\ BackedUp(Top(m)) THEN FlagEnd(Top(m))
                                                           ELSE Start(Top(m))

\* The top backup is the state again.
RolledBack(m, n) ==
    /\ OneLess(m, n) /\ ~Top(m).payload_moved
    /\ n.mem = m.mem
    /\ n.state = Top(m)

\* The top backup was not needed; the flags are where it had its own.
Committed(m, n) ==
    /\ OneLess(m, n)
    /\ Below(m, n, Start(Top(m)))
    /\ Alike(m, m.state, n, n.state)
    /\ Start(n.state) = IF SmartSearch /\ BackedUp(Top(m)) THEN Start(Top(m))
                                                           ELSE Start(m.state)

\* A list, map or string was left: the state around it, but behind it.
Closed(m, n) ==
    /\ OneLess(m, n)
    /\ Below(m, n, Start(m.state))
    /\ n.state.decode_state = Top(m).decode_state
    /\ n.state.elem_count = Top(m).elem_count
    /\ n.state.payload_end = Top(m).payload_end

LEMMA PoppedOneLess ==
    ASSUME NEW m, Good(m), m.backup_list # << >>, NEW n,
           n.backup_list = SubSeq(m.backup_list, 1, Len(m.backup_list) - 1)
    PROVE  OneLess(m, n)
<1>1. /\ Len(n.backup_list) = Len(m.backup_list) - 1
      /\ \A i \in 1 .. Len(m.backup_list) - 1 : n.backup_list[i] = m.backup_list[i]
  BY ShorterList
<1> QED BY <1>1 DEF OneLess

LEMMA TopType ==
    ASSUME NEW m, Good(m), m.backup_list # << >>
    PROVE  /\ Top(m) \in Cursor
           /\ Len(m.backup_list) \in 1 .. Len(m.backup_list)
           /\ SmartSearch => /\ FlagEnd(Top(m)) <= FlagBytes
                             /\ BackedUp(Top(m)) => RoomForCopy(Top(m))
                             /\ Start(Top(m)) <= Start(m.state)
<1>1. Len(m.backup_list) \in 1 .. Len(m.backup_list)
  BY ShorterList
<1> QED BY <1>1, GoodType DEF Good, FlagsSound, Top, BackedUp

LEMMA AlikeSelf ==
    ASSUME NEW m, NEW c, NEW n, n.mem = m.mem
    PROVE  Alike(m, c, n, c)
<1>1. FlagsOf(n, c) = FlagsOf(m, c)
  BY DEF FlagsOf, FlagLeft
<1> QED BY <1>1, AlikeIf

LEMMA UnionElemRetries ==
    ASSUME NEW m, Good(m)
    PROVE  LET r == zcbor_union_elem_code(m) IN
           /\ r.ok => Retried(m, r.m)
           /\ ~r.ok => Worked(m, r.m)
<1> DEFINE R == zcbor_union_elem_code(m)
<1>1. /\ R.ok => /\ m.backup_list # << >> /\ ~Top(m).payload_moved
                 /\ R.m = Outcome(m, TRUE, FALSE, FALSE)
      /\ ~R.ok => \E err \in Errors : R.m \in {m, zcbor_error(m, err)}
  <2> DEFINE flags == {"RESTORE"}
  <2>1. /\ "KEEP_DECODE_STATE" \notin flags /\ (TRUE <=> "RESTORE" \in flags)
        /\ (FALSE <=> "CONSUME" \in flags) /\ (FALSE <=> "KEEP_PAYLOAD" \in flags)
    OBVIOUS
  <2> HIDE DEF flags
  <2>2. LET r == zcbor_process_backup(m, flags) IN
        /\ r.ok => /\ m.backup_list # << >> /\ ~Top(m).payload_moved
                   /\ r.m = Outcome(m, TRUE, FALSE, FALSE)
        /\ ~r.ok => \E err \in Errors : r.m \in {m, zcbor_error(m, err)}
    BY <2>1, ProcessTopOutcome
  <2> QED BY <2>2 DEF zcbor_union_elem_code, flags
<1> HIDE DEF R
<1>2. ASSUME R.ok PROVE Retried(m, R.m)
  <2> DEFINE k == [m EXCEPT !.state = Top(m)]
             copied == SmartSearch /\ BackedUp(Top(m))
  <2>1. m.backup_list # << >> /\ ~Top(m).payload_moved
    BY <1>1, <1>2
  <2>2. m \in Machine /\ Top(m) \in Cursor /\ SmartSearch \in BOOLEAN
    BY <2>1, TopType, GoodType, ModeAssumption
  <2>3. R.m = IF copied THEN do_elem_state_backup(k, FALSE).m ELSE k
    BY <1>1, <1>2 DEF Outcome, RestoreFrom, BackedUp, Success
  <2>4. /\ k \in Machine /\ k.state = Top(m) /\ k.backup_list = m.backup_list
        /\ k.mem = m.mem
    BY <2>2 DEF Machine
  <2> HIDE DEF k
  <2>5. CASE copied
    <3>1. SmartSearch /\ RoomForCopy(k.state)
      BY <2>1, <2>4, <2>5, TopType
    <3> DEFINE n == do_elem_state_backup(k, FALSE).m
    <3>2. /\ n.backup_list = k.backup_list /\ Start(n.state) = FlagEnd(k.state)
          /\ Below(k, n, FlagEnd(k.state)) /\ Alike(k, k.state, n, n.state)
      BY <2>4, <3>1, FlagsCopiedUp
    <3> HIDE DEF n
    <3>3. Alike(m, Top(m), k, Top(m))
      BY <2>4, AlikeSelf
    <3>4. Alike(m, Top(m), n, n.state)
      BY <2>4, <3>2, <3>3, AlikeThrough
    <3>5. Below(m, n, FlagEnd(Top(m)))
      BY <2>4, <3>2 DEF Below
    <3>6. R.m = n
      BY <2>3, <2>5 DEF n
    <3> QED BY <2>1, <2>4, <2>5, <3>2, <3>4, <3>5, <3>6 DEF Retried
  <2>6. CASE ~copied
    <3>1. R.m = k
      BY <2>3, <2>6
    <3>2. Below(m, k, FlagEnd(Top(m)))
      BY <2>4, BelowSame
    <3>3. Alike(m, Top(m), k, Top(m))
      BY <2>4, AlikeSelf
    <3> QED BY <2>1, <2>4, <2>6, <3>1, <3>2, <3>3 DEF Retried
  <2> QED BY <2>5, <2>6
<1>3. ~R.ok => Worked(m, R.m)
  BY <1>1, RefusedWorks
<1> QED BY <1>2, <1>3 DEF R

LEMMA RollsBack ==
    ASSUME NEW m, Good(m)
    PROVE  LET r == zcbor_process_backup(m, {"CONSUME", "RESTORE"}) IN
           /\ r.ok => RolledBack(m, r.m)
           /\ ~r.ok => Worked(m, r.m) /\ r.m.backup_list = m.backup_list
<1> DEFINE flags == {"CONSUME", "RESTORE"}
           R == zcbor_process_backup(m, flags)
<1>1. /\ "KEEP_DECODE_STATE" \notin flags /\ (TRUE <=> "RESTORE" \in flags)
      /\ (TRUE <=> "CONSUME" \in flags) /\ (FALSE <=> "KEEP_PAYLOAD" \in flags)
  OBVIOUS
<1> HIDE DEF flags
<1>2. /\ R.ok => /\ m.backup_list # << >> /\ ~Top(m).payload_moved
                 /\ R.m = Outcome(m, TRUE, TRUE, FALSE)
      /\ ~R.ok => \E err \in Errors : R.m \in {m, zcbor_error(m, err)}
  BY <1>1, ProcessTopOutcome
<1> HIDE DEF R
<1>3. ASSUME R.ok PROVE RolledBack(m, R.m)
  <2> DEFINE k == [m EXCEPT !.state = Top(m)]
             list == SubSeq(m.backup_list, 1, Len(m.backup_list) - 1)
             n == [k EXCEPT !.backup_list = SubSeq(@, 1, Len(@) - 1)]
  <2>1. m \in Machine
    BY GoodType
  <2>2. R.m = n
    BY <1>2, <1>3 DEF Outcome, RestoreFrom, ConsumeTop, Success
  <2>3. n.state = Top(m) /\ n.mem = m.mem /\ n.backup_list = list
    BY <2>1 DEF Machine
  <2> HIDE DEF n
  <2>4. OneLess(m, n)
    BY <1>2, <1>3, <2>3, PoppedOneLess
  <2> QED BY <1>2, <1>3, <2>2, <2>3, <2>4 DEF RolledBack
<1>4. ~R.ok => Worked(m, R.m) /\ R.m.backup_list = m.backup_list
  BY <1>2, RefusedWorks
<1> QED BY <1>3, <1>4 DEF R, flags

\* The flags that are kept go down to where the backup had its own.
LEMMA FlagsMovedDown ==
    ASSUME SmartSearch, NEW m, Good(m), m.backup_list # << >>
    PROVE  LET n == discard_elem_state_backup(m, Top(m)) IN
           /\ n.backup_list = m.backup_list
           /\ Start(n.state) = Start(Top(m))
           /\ Below(m, n, Start(Top(m)))
           /\ Alike(m, m.state, n, n.state)
           /\ n \in Machine
<1> DEFINE flags == Start(m.state)
           to == Start(Top(m))
           len == FlagLen(m.state)
           mem == Memmove(m.mem, to, flags, len)
           c == [m.state EXCEPT !.decode_state.map_search_elem_state = to]
           n == [m EXCEPT !.mem = mem,
                          !.state.decode_state.map_search_elem_state = to]
<1>1. m \in Machine /\ m.state \in Cursor /\ Top(m) \in Cursor /\ m.mem \in [Address -> Byte]
  BY GoodType, TopType
<1>2. /\ flags \in Nat /\ to \in Nat /\ len \in Nat /\ to \in 0 .. FlagBytes
      /\ FlagEnd(m.state) = flags + len /\ FlagEnd(m.state) <= FlagBytes
      /\ to <= flags
  <2>1. flags \in Nat /\ to \in Nat /\ to \in 0 .. FlagBytes
    BY <1>1, FlagEndType, FlagAssumption
  <2>2. len \in Nat /\ FlagEnd(m.state) = flags + len
    BY <1>1, FlagEndType
  <2> QED BY <2>1, <2>2, TopType DEF Good, FlagsSound
<1>3. to + len <= FlagBytes
  BY <1>2, FlagAssumption
<1>4. discard_elem_state_backup(m, Top(m)) = n
  BY DEF discard_elem_state_backup, Start
<1> HIDE DEF to, flags, len
<1>5. /\ \A k \in 0 .. len - 1 : mem[to + k] = m.mem[flags + k]
      /\ \A a \in Address : a < to => mem[a] = m.mem[a]
  <2>1. MovedTo(m.mem, to, flags, len, mem)
    BY <1>1, <1>2, <1>3, MemmoveMoves
  <2> QED BY <2>1 DEF MovedTo
<1>6. mem \in [Address -> Byte]
  BY <1>1, <1>2, MemmoveType
<1> HIDE DEF mem
<1>7. /\ c.payload = m.state.payload /\ c.payload_end = m.state.payload_end
      /\ c.elem_count = m.state.elem_count /\ Count(c) = Count(m.state)
      /\ MapOf(c) = MapOf(m.state) /\ Processed(c) = Processed(m.state)
      /\ Start(c) = to /\ c \in Cursor
  BY <1>1, <1>2 DEF Cursor, DecodeState, Count, MapOf, Processed, Start
<1>8. /\ n.mem = mem /\ n.state = c /\ n.backup_list = m.backup_list /\ n \in Machine
  <2>1. n = [m EXCEPT !.mem = mem, !.state = c]
    BY <1>1 DEF Machine, Cursor
  <2> HIDE DEF c
  <2> QED BY <1>1, <1>6, <1>7, <2>1 DEF Machine
<1> HIDE DEF c, n
<1>9. Below(m, n, to)
  BY <1>5, <1>8 DEF Below
<1>10. SameBytes(m, m.state, n, c)
  BY <1>5, <1>7, <1>8 DEF SameBytes, flags, len
<1>11. FlagsOf(n, c) = FlagsOf(m, m.state)
  BY <1>1, <1>7, <1>10, FlagsWithBytes
<1>12. Alike(m, m.state, n, c)
  BY <1>7, <1>11, AlikeIf
<1> QED BY <1>4, <1>7, <1>8, <1>9, <1>12 DEF to

LEMMA Commits ==
    ASSUME NEW m, Good(m)
    PROVE  LET r == zcbor_process_backup(m, {"CONSUME"}) IN
           /\ r.ok => Committed(m, r.m)
           /\ ~r.ok => Worked(m, r.m) /\ r.m.backup_list = m.backup_list
<1> DEFINE flags == {"CONSUME"}
           R == zcbor_process_backup(m, flags)
<1>1. /\ "KEEP_DECODE_STATE" \notin flags /\ (FALSE <=> "RESTORE" \in flags)
      /\ (TRUE <=> "CONSUME" \in flags) /\ (FALSE <=> "KEEP_PAYLOAD" \in flags)
  OBVIOUS
<1> HIDE DEF flags
<1>2. /\ R.ok => /\ m.backup_list # << >>
                 /\ R.m = Outcome(m, FALSE, TRUE, FALSE)
      /\ ~R.ok => \E err \in Errors : R.m \in {m, zcbor_error(m, err)}
  BY <1>1, ProcessTopOutcome
<1> HIDE DEF R
<1>3. ASSUME R.ok PROVE Committed(m, R.m)
  <2> DEFINE discard == SmartSearch /\ BackedUp(Top(m))
             k == IF discard THEN discard_elem_state_backup(m, Top(m)) ELSE m
             list == SubSeq(m.backup_list, 1, Len(m.backup_list) - 1)
             n == [k EXCEPT !.backup_list = SubSeq(@, 1, Len(@) - 1)]
  <2>1. m \in Machine /\ m.backup_list # << >> /\ m.state \in Cursor /\ Top(m) \in Cursor
    BY <1>2, <1>3, GoodType, TopType
  <2>2. R.m = n
    BY <1>2, <1>3 DEF Outcome, ConsumeTop, Success, BackedUp
  <2>3. /\ k \in Machine /\ k.backup_list = m.backup_list
        /\ Start(k.state) = IF discard THEN Start(Top(m)) ELSE Start(m.state)
        /\ Below(m, k, Start(Top(m)))
        /\ Alike(m, m.state, k, k.state)
    <3>1. CASE discard
      <4>1. SmartSearch
        BY <3>1
      <4>2. /\ k \in Machine /\ k.backup_list = m.backup_list
            /\ Start(k.state) = Start(Top(m))
            /\ Below(m, k, Start(Top(m)))
            /\ Alike(m, m.state, k, k.state)
        BY <2>1, <3>1, <4>1, FlagsMovedDown
      <4> QED BY <3>1, <4>2
    <3>2. CASE ~discard
      BY <2>1, <3>2, BelowSame, AlikeSelf
    <3> QED BY <3>1, <3>2
  <2> HIDE DEF k
  <2>4. n.state = k.state /\ n.mem = k.mem /\ n.backup_list = list
    BY <2>3 DEF Machine
  <2> HIDE DEF n
  <2>5. OneLess(m, n)
    BY <2>1, <2>4, PoppedOneLess
  <2>6. Below(m, n, Start(Top(m)))
    BY <2>3, <2>4 DEF Below
  <2>7. Alike(m, m.state, n, n.state)
    <3>1. Alike(k, k.state, n, n.state)
      BY <2>4, AlikeSelf
    <3> QED BY <2>3, <3>1, AlikeThrough
  <2> QED BY <2>2, <2>3, <2>4, <2>5, <2>6, <2>7 DEF Committed
<1>4. ~R.ok => Worked(m, R.m) /\ R.m.backup_list = m.backup_list
  BY <1>2, RefusedWorks
<1> QED BY <1>3, <1>4 DEF R, flags

LEMMA Closes ==
    ASSUME NEW m, Good(m)
    PROVE  LET r == zcbor_process_backup(m, {"RESTORE", "CONSUME", "KEEP_PAYLOAD"}) IN
           /\ r.ok => Closed(m, r.m)
           /\ ~r.ok => Worked(m, r.m) /\ r.m.backup_list = m.backup_list
<1> DEFINE flags == {"RESTORE", "CONSUME", "KEEP_PAYLOAD"}
           R == zcbor_process_backup(m, flags)
<1>1. /\ "KEEP_DECODE_STATE" \notin flags /\ (TRUE <=> "RESTORE" \in flags)
      /\ (TRUE <=> "CONSUME" \in flags) /\ (TRUE <=> "KEEP_PAYLOAD" \in flags)
  OBVIOUS
<1> HIDE DEF flags
<1>2. /\ R.ok => /\ m.backup_list # << >>
                 /\ R.m = Outcome(m, TRUE, TRUE, TRUE)
      /\ ~R.ok => \E err \in Errors : R.m \in {m, zcbor_error(m, err)}
  BY <1>1, ProcessTopOutcome
<1> HIDE DEF R
<1>3. ASSUME R.ok PROVE Closed(m, R.m)
  <2> DEFINE k == [m EXCEPT !.state = Top(m)]
             list == SubSeq(m.backup_list, 1, Len(m.backup_list) - 1)
             c == [k EXCEPT !.backup_list = SubSeq(@, 1, Len(@) - 1)]
             n == [c EXCEPT !.state.payload = m.state.payload]
  <2>1. m \in Machine /\ Top(m) \in Cursor /\ m.state \in Cursor
    BY <1>2, <1>3, GoodType, TopType
  <2>2. R.m = n
    BY <1>2, <1>3 DEF Outcome, RestoreFrom, ConsumeTop, Success
  <2>3. c.state = Top(m) /\ c.mem = m.mem /\ c.backup_list = list /\ "state" \in DOMAIN c
    BY <2>1 DEF Machine
  <2> HIDE DEF c
  <2>4. /\ n.mem = m.mem /\ n.backup_list = list
        /\ n.state = [Top(m) EXCEPT !.payload = m.state.payload]
    BY <2>3
  <2> HIDE DEF n
  <2>5. /\ n.state.decode_state = Top(m).decode_state
        /\ n.state.elem_count = Top(m).elem_count
        /\ n.state.payload_end = Top(m).payload_end
        /\ n.state.payload = m.state.payload
    BY <2>1, <2>4 DEF Cursor
  <2>6. OneLess(m, n) /\ Below(m, n, Start(m.state))
    BY <1>2, <1>3, <2>4, PoppedOneLess, BelowSame
  <2> QED BY <2>2, <2>5, <2>6 DEF Closed
<1>4. ~R.ok => Worked(m, R.m) /\ R.m.backup_list = m.backup_list
  BY <1>2, RefusedWorks
<1> QED BY <1>3, <1>4 DEF R, flags

\* From m to n the cursor may have moved forward, within its section.
Forward(m, n) ==
    /\ n.backup_list = m.backup_list
    /\ n.mem = m.mem
    /\ n.state.decode_state = m.state.decode_state
    /\ n.state.elem_count = m.state.elem_count
    /\ n.state.payload_end = m.state.payload_end

LEMMA ClosedForward ==
    ASSUME NEW m, NEW k, NEW n, Closed(m, k), Forward(k, n)
    PROVE  Closed(m, n)
BY DEF Closed, Forward, OneLess, Below

LEMMA ErrForward ==
    ASSUME NEW m, Good(m), NEW err \in Errors
    PROVE  Forward(m, Err(m, err).m) /\ Err(m, err).ok = FALSE
BY ErrorGood, ErrorWorks DEF Err, Failure, Forward

LEMMA ArrayEndForward ==
    ASSUME NEW m, Good(m), NEW at_break \in BOOLEAN
    PROVE  Forward(m, array_end_expect(m, at_break).m)
<1> DEFINE i == initial_checks(m)
           n == [m EXCEPT !.state.payload = @ + 1]
           R == array_end_expect(m, at_break)
<1>1. {"WRONG_TYPE", "NO_PAYLOAD"} \subseteq Errors
  BY DEF Errors
<1>2. m \in Machine /\ m.state \in Cursor
        /\ m.state.payload \in Nat /\ m.state.payload_end \in Nat
  BY GoodType, CountType
<1>3. i.ok => m.state.payload < m.state.payload_end
  BY InitialChecksGood
<1>4. i \in {Failure(m), Err(m, "NO_PAYLOAD"), Success(m)}
  BY DEF initial_checks
<1>5. R = IF ~i.ok THEN i ELSE IF ~at_break THEN Err(m, "WRONG_TYPE") ELSE Success(n)
  BY DEF array_end_expect
<1>6. /\ n.backup_list = m.backup_list /\ n.mem = m.mem
      /\ n.state.decode_state = m.state.decode_state
      /\ n.state.elem_count = m.state.elem_count
      /\ n.state.payload_end = m.state.payload_end
      /\ n.state.payload = m.state.payload + 1
  BY <1>2 DEF Machine, Cursor
<1> HIDE DEF n, R, i
<1>7. Forward(m, m)
  BY DEF Forward
<1>8. i.ok => Forward(m, n)
  BY <1>2, <1>3, <1>6 DEF Forward
<1>9. Forward(m, i.m)
  <2>1. Forward(m, Err(m, "NO_PAYLOAD").m)
    BY <1>1, ErrForward
  <2>2. Success(m).m = m /\ Failure(m).m = m
    BY DEF Success, Failure
  <2> QED BY <1>4, <1>7, <2>1, <2>2
<1>10. CASE ~i.ok
  BY <1>5, <1>9, <1>10 DEF R
<1>11. CASE i.ok /\ ~at_break
  <2>1. Forward(m, R.m)
    BY <1>1, <1>5, <1>11, ErrForward
  <2> QED BY <2>1 DEF R
<1>12. CASE i.ok /\ at_break
  <2>1. R.m = n
    BY <1>5, <1>12 DEF Success
  <2> QED BY <1>8, <1>12, <2>1 DEF R
<1> QED BY <1>10, <1>11, <1>12

\* Whether or not the contents are complete, the state around them is back, if
\* the backup was there.
LEMMA ListMapEndCloses ==
    ASSUME NEW m, Good(m), NEW at_break \in BOOLEAN
    PROVE  LET r == list_map_end_decode(m, at_break) IN
           Closed(m, r.m) \/ (~r.ok /\ Worked(m, r.m) /\ r.m.backup_list = m.backup_list)
<1> DEFINE r == zcbor_process_backup(m, {"RESTORE", "CONSUME", "KEEP_PAYLOAD"})
           R == list_map_end_decode(m, at_break)
<1>1. /\ Good(r.m)
      /\ r.ok => Closed(m, r.m)
      /\ ~r.ok => Worked(m, r.m) /\ r.m.backup_list = m.backup_list
  BY Closes, ProcessTopGood DEF GoodResult
<1>2. "HIGH_ELEM_COUNT" \in Errors
  BY DEF Errors
<1>3. \/ ~r.ok /\ R = r
      \/ r.ok /\ R \in {array_end_expect(r.m, at_break), Err(r.m, "HIGH_ELEM_COUNT"), r}
  BY DEF list_map_end_decode, ArrayEnded
<1> HIDE DEF r, R
<1>4. /\ Forward(r.m, array_end_expect(r.m, at_break).m)
      /\ Forward(r.m, Err(r.m, "HIGH_ELEM_COUNT").m)
  BY <1>1, <1>2, ArrayEndForward, ErrForward
<1>5. CASE ~r.ok /\ R = r
  BY <1>1, <1>5 DEF R
<1>6. CASE r.ok /\ R \in {array_end_expect(r.m, at_break), Err(r.m, "HIGH_ELEM_COUNT"), r}
  <2>1. Closed(m, R.m)
    BY <1>1, <1>4, <1>6, ClosedForward
  <2> QED BY <2>1 DEF R
<1> QED BY <1>3, <1>5, <1>6

\* Work in what is then left changes nothing about leaving it.
LEMMA WorkedCloses ==
    ASSUME NEW m, NEW k, NEW n, Worked(m, k), Closed(k, n)
    PROVE  Closed(m, n)
<1>1. /\ k.backup_list = m.backup_list /\ Top(k) = Top(m)
      /\ Start(k.state) = Start(m.state) /\ k.state.payload_end = m.state.payload_end
      /\ Below(m, k, Start(m.state))
  BY DEF Worked, Kept, KeptBelow, SameSection, Top
<1>2. Below(m, n, Start(m.state))
  BY <1>1, BelowThrough DEF Closed
<1> QED BY <1>1, <1>2 DEF Closed, OneLess

\* Flags may go, and nothing else.
LEMMA FlagsGo ==
    ASSUME NEW m, Good(m), NEW n, Good(n), NEW a \in Int, NEW bits,
           n.mem = [m.mem EXCEPT ![a] = @ \ bits] \/ n.mem = [m.mem EXCEPT ![a] = @ \cap bits],
           n.state = m.state, n.backup_list = m.backup_list,
           SmartSearch, Start(m.state) <= a
    PROVE  Worked(m, n)
<1>1. m.mem \in [Address -> Byte] /\ m.state \in Cursor
  BY GoodType
<1>2. \A x \in Address : n.mem[x] \subseteq m.mem[x] /\ (x # a => n.mem[x] = m.mem[x])
  BY <1>1
<1>3. /\ Start(m.state) \in Int /\ Count(m.state) \in Int
      /\ FlagEnd(m.state) <= FlagBytes
  BY <1>1, FlagEndType, FlagAssumption, CountType DEF Good, FlagsSound
<1>4. Below(m, n, Start(m.state))
  <2>1. \A x \in Address : x \in Int
    BY FlagAssumption
  <2> QED BY <1>2, <1>3, <2>1 DEF Below
<1>5. ASSUME NEW i \in 0 .. Count(m.state) - 1, FlagLeft(n, n.state, i)
      PROVE  FlagLeft(m, m.state, i)
  <2>1. FlagByteOf(m.state, i) \in Address
    BY <1>1, <1>3, FlagAddress
  <2> QED BY <1>2, <1>5, <2>1 DEF FlagLeft
<1> QED BY <1>3, <1>4, <1>5 DEF Worked, Kept, KeptBelow, SameSection

LEMMA FlagByteAbove ==
    ASSUME NEW c \in Cursor, NEW i \in Nat
    PROVE  FlagByteOf(c, i) \in Int /\ Start(c) <= FlagByteOf(c, i)
<1>1. i \div BitsPerByte \in Nat
  BY FlagAssumption
<1>2. Start(c) \in Nat /\ FlagByteOf(c, i) = Start(c) + i \div BitsPerByte
  BY FlagEndType, FlagAssumption DEF FlagByteOf, Start
<1> QED BY <1>1, <1>2

LEMMA EndChecksWorks ==
    ASSUME NEW m, Good(m), NEW at_break \in BOOLEAN
    PROVE  Worked(m, EndChecks(m, at_break).m)
<1> DEFINE count == m.state.decode_state.map_elem_count
           last == count - 1
           c == IF SmartSearch /\ count > 0 THEN ClearUnused(m) ELSE m
           mem == [m.mem EXCEPT ![FlagByteOf(m.state, last)] = @ \cap 0 .. last % BitsPerByte]
           e == EndChecks(m, at_break)
<1>1. m \in Machine /\ m.state \in Cursor /\ count \in Nat
  BY GoodType, CountType DEF Count
<1>2. Good(c) /\ Worked(m, c)
  <2>1. CASE SmartSearch /\ count > 0
    <3>1. ClearUnused(m) = [m EXCEPT !.mem = mem]
      BY DEF ClearUnused
    <3>2. mem \in [Address -> Byte]
      BY <1>1, FlagsCleared DEF Machine
    <3>3. last \in Nat
      BY <1>1, <2>1
    <3>4. FlagByteOf(m.state, last) \in Int /\ Start(m.state) <= FlagByteOf(m.state, last)
      BY <1>1, <3>3, FlagByteAbove
    <3> DEFINE k == ClearUnused(m)
    <3>5. k.mem = mem /\ k.state = m.state /\ k.backup_list = m.backup_list /\ Good(k)
      <4> HIDE DEF mem
      <4>1. k.mem = mem /\ k.state = m.state /\ k.backup_list = m.backup_list
        BY <1>1, <3>1 DEF Machine
      <4>2. Good(k)
        BY <3>1, <3>2, OtherMemGood
      <4> QED BY <4>1, <4>2
    <3> HIDE DEF k
    <3>6. Worked(m, k)
      BY <2>1, <3>4, <3>5, FlagsGo
    <3> QED BY <2>1, <3>5, <3>6 DEF k
  <2>2. CASE ~(SmartSearch /\ count > 0)
    BY <2>2, WorkedSelf
  <2> QED BY <2>1, <2>2
<1> HIDE DEF c
<1>3. "ELEMS_NOT_PROCESSED" \in Errors
  BY DEF Errors
<1>4. \/ e = Err(m, "ELEMS_NOT_PROCESSED")
      \/ e = Err(c, "ELEMS_NOT_PROCESSED")
      \/ e = Success(c)
  BY DEF EndChecks, c
<1>5. /\ Worked(m, Err(m, "ELEMS_NOT_PROCESSED").m)
      /\ Worked(m, Err(c, "ELEMS_NOT_PROCESSED").m)
      /\ Worked(m, Success(c).m)
  <2>1. Worked(c, Err(c, "ELEMS_NOT_PROCESSED").m) /\ Good(Err(c, "ELEMS_NOT_PROCESSED").m)
    BY <1>2, <1>3, ErrWorks, ErrGood DEF GoodResult
  <2>2. Worked(m, Err(c, "ELEMS_NOT_PROCESSED").m)
    BY <1>2, <2>1, WorkedThrough
  <2> QED BY <1>2, <1>3, <2>2, ErrWorks DEF Success
<1> HIDE DEF e
<1>6. Worked(m, e.m)
  BY <1>4, <1>5
<1> QED BY <1>6 DEF e

LEMMA SkipToEndWorks ==
    ASSUME NEW m, Good(m), NEW rest \in Skips
    PROVE  Worked(m, SkipToEnd(m, rest))
<1> DEFINE e == IF rest.error = "SUCCESS" THEN m ELSE zcbor_error(m, rest.error)
           n == SkipToEnd(m, rest)
<1>1. Good(n)
  BY SkipToEndGood
<1>2. Good(e) /\ e.state = m.state /\ e.backup_list = m.backup_list /\ e.mem = m.mem
  <2>1. rest.error \in Errors
    BY DEF Skips
  <2>2. zcbor_error(m, rest.error).mem = m.mem
    BY GoodType DEF zcbor_error, Machine
  <2> QED BY <2>1, <2>2, ErrorGood
<1> HIDE DEF e
<1>3. /\ n.backup_list = m.backup_list /\ n.mem = m.mem
      /\ n.state.decode_state = m.state.decode_state
      /\ n.state.payload_end = m.state.payload_end
  <2>1. e \in Machine /\ e.state \in Cursor
    BY <1>2, GoodType
  <2>2. n = [e EXCEPT !.state.payload = rest.at,
                      !.state.elem_count = IF m.state.decode_state.indefinite_length_array
                                           THEN @ ELSE 0]
    BY DEF SkipToEnd, e
  <2> HIDE DEF n
  <2>3. /\ n.backup_list = e.backup_list /\ n.mem = e.mem
        /\ n.state.decode_state = e.state.decode_state
        /\ n.state.payload_end = e.state.payload_end
    BY <2>1, <2>2 DEF Machine, Cursor
  <2> QED BY <1>2, <2>3
<1> HIDE DEF n
<1>4. Worked(m, n)
  BY <1>1, <1>3, CursorMoves DEF Worked, SameSection, Start, MapOf, Count, Processed
<1> QED BY <1>4 DEF n

LEMMA UnorderedMapEndCloses ==
    ASSUME NEW m, Good(m), NEW at_break \in BOOLEAN, NEW rest \in Skips
    PROVE  LET r == zcbor_unordered_map_end_decode(m, at_break, rest) IN
           Closed(m, r.m) \/ (~r.ok /\ Worked(m, r.m) /\ r.m.backup_list = m.backup_list)
<1> DEFINE c == EndChecks(m, at_break)
           k == SkipToEnd(c.m, rest)
           l == list_map_end_decode(k, TRUE)
           R == zcbor_unordered_map_end_decode(m, at_break, rest)
<1>1. Good(c.m) /\ c.m.state = m.state /\ Worked(m, c.m)
  BY EndChecksGood, EndChecksWorks DEF GoodResult
<1>2. R = IF c.ok THEN l ELSE c
  BY DEF zcbor_unordered_map_end_decode
<1> HIDE DEF c
<1>3. Good(k) /\ Worked(c.m, k)
  BY <1>1, SkipToEndGood, SkipToEndWorks
<1> HIDE DEF k
<1>4. Worked(m, k)
  BY <1>1, <1>3, WorkedThrough
<1>5. Closed(k, l.m) \/ (~l.ok /\ Worked(k, l.m) /\ l.m.backup_list = k.backup_list)
  BY <1>3, ListMapEndCloses
<1>6. Good(l.m)
  BY <1>3, ListMapEndGood DEF GoodResult
<1>7. c.m.backup_list = m.backup_list /\ k.backup_list = m.backup_list
  BY <1>1, <1>4 DEF Worked, Kept, KeptBelow
<1> HIDE DEF l, R
<1>8. CASE ~c.ok
  BY <1>1, <1>2, <1>7, <1>8 DEF R
<1>9. CASE c.ok /\ Closed(k, l.m)
  <2>1. Closed(m, R.m)
    BY <1>2, <1>4, <1>9, WorkedCloses
  <2> QED BY <2>1 DEF R
<1>10. CASE c.ok /\ ~l.ok /\ Worked(k, l.m) /\ l.m.backup_list = k.backup_list
  <2>1. Worked(m, l.m)
    BY <1>3, <1>4, <1>6, <1>10, WorkedThrough
  <2> QED BY <1>2, <1>7, <1>10, <2>1 DEF R
<1> QED BY <1>5, <1>8, <1>9, <1>10

LEMMA BstrEndCloses ==
    ASSUME NEW m, Good(m)
    PROVE  LET r == zcbor_bstr_end_decode(m) IN
           /\ r.ok => Closed(m, r.m)
           /\ ~r.ok => Worked(m, r.m) /\ r.m.backup_list = m.backup_list
<1>1. "PAYLOAD_NOT_CONSUMED" \in Errors
  BY DEF Errors
<1> DEFINE e == Err(m, "PAYLOAD_NOT_CONSUMED")
<1>2. e.ok = FALSE /\ Worked(m, e.m) /\ e.m.backup_list = m.backup_list
  BY <1>1, ErrWorks, ErrGood
<1> HIDE DEF e
<1> QED BY <1>2, Closes DEF zcbor_bstr_end_decode, e

-----------------------------------------------------------------------------
(* The elements of an unordered map.                                       *)

LEMMA ShouldTryKeyWorks ==
    ASSUME NEW m, Good(m)
    PROVE  Worked(m, should_try_key(m).m)
<1>1. "MAP_FLAGS_NOT_AVAILABLE" \in Errors
  BY DEF Errors
<1>2. /\ Worked(m, Success(m).m) /\ Worked(m, Failure(m).m)
      /\ Worked(m, Err(m, "MAP_FLAGS_NOT_AVAILABLE").m)
  BY <1>1, ResultWorks, ErrWorks
<1> QED BY <1>2 DEF should_try_key

\* The flag of one element is cleared, or one more element is counted.
LEMMA ElemProcessedWorks ==
    ASSUME NEW m, Good(m)
    PROVE  Worked(m, zcbor_elem_processed(m).m)
<1> DEFINE s == m.state
           index == get_current_index(s, 1)
           a == FlagByteOf(s, index)
           mem == [m.mem EXCEPT ![a] = @ \ {index % BitsPerByte}]
           cleared == [m EXCEPT !.mem = mem]
           counted == [m EXCEPT !.state.decode_state.map_elems_processed = @ + 1]
           R == zcbor_elem_processed(m)
<1>1. {"MAP_MISALIGNED", "MAP_FLAGS_NOT_AVAILABLE"} \subseteq Errors
  BY DEF Errors
<1>2. /\ Worked(m, Success(m).m)
      /\ Worked(m, Err(m, "MAP_MISALIGNED").m)
      /\ Worked(m, Err(m, "MAP_FLAGS_NOT_AVAILABLE").m)
  BY <1>1, ResultWorks, ErrWorks
<1>3. m \in Machine /\ s \in Cursor /\ m.mem \in [Address -> Byte]
  BY GoodType
<1>4. GoodResult(R)
  BY ElemProcessedGood
<1>5. CASE SmartSearch
  <2>1. index \in Nat
    <3>1. zcbor_current_max_elem_count(s) - s.elem_count \in Int
      BY <1>3, MaxElemCountType, CountType, SizeAssumption
    <3>2. SizeT(zcbor_current_max_elem_count(s) - s.elem_count) \in Nat
      BY <3>1, SizeTType, SizeAssumption
    <3> DEFINE cur == SizeT(zcbor_current_max_elem_count(s) - s.elem_count)
    <3>3. index = IF 1 > cur THEN 0 ELSE (cur - 1) \div 2
      BY DEF get_current_index
    <3> HIDE DEF cur, index
    <3> QED BY <3>2, <3>3 DEF cur
  <2> HIDE DEF index
  <2>2. a \in Int /\ Start(s) <= a
    BY <1>3, <2>1, FlagByteAbove
  <2>3. R \in {Success(cleared), Err(m, "MAP_MISALIGNED"), Err(m, "MAP_FLAGS_NOT_AVAILABLE")}
    BY <1>5 DEF zcbor_elem_processed, index
  <2> HIDE DEF a
  <2>4. mem \in [Address -> Byte]
    BY <1>3, FlagsCleared
  <2>5. cleared.mem = mem /\ cleared.state = m.state /\ cleared.backup_list = m.backup_list
    BY <1>3, <2>4 DEF Machine
  <2>6. Good(cleared)
    BY <2>4, OtherMemGood
  <2> HIDE DEF cleared, R
  <2>7. Worked(m, cleared)
    BY <1>5, <2>2, <2>5, <2>6, FlagsGo
  <2>8. Worked(m, R.m)
    BY <1>2, <2>3, <2>7 DEF Success
  <2> QED BY <2>8 DEF R
<1>6. CASE ~SmartSearch
  <2>1. CASE ~should_try_key(m).ok
    <3>1. R \in {Success(m), Err(m, "MAP_MISALIGNED")}
      BY <1>6, <2>1 DEF zcbor_elem_processed
    <3> HIDE DEF R
    <3>2. Worked(m, R.m)
      BY <1>2, <3>1
    <3> QED BY <3>2 DEF R
  <2>2. CASE should_try_key(m).ok
    <3>1. Processed(s) < Count(s)
      <4>1. Success(m).ok = TRUE /\ Failure(m).ok = FALSE
        BY ResultGood
      <4> QED BY <1>6, <2>2, <4>1 DEF should_try_key, Processed, Count
    <3>2. R \in {Success(counted), Err(m, "MAP_MISALIGNED")}
      BY <1>6, <2>2 DEF zcbor_elem_processed
    <3>3. Processed(s) \in Nat /\ Count(s) \in Nat
      BY <1>3, CountType
    <3>4. /\ counted.mem = m.mem /\ counted.backup_list = m.backup_list
          /\ counted.state.payload = s.payload /\ counted.state.payload_end = s.payload_end
          /\ Start(counted.state) = Start(s) /\ MapOf(counted.state) = MapOf(s)
          /\ Count(counted.state) = Count(s)
          /\ Processed(counted.state) = Processed(s) + 1
      BY <1>3 DEF Machine, Cursor, DecodeState, Start, MapOf, Count, Processed
    <3> HIDE DEF counted, R
    <3>5. ASSUME NEW i \in 0 .. Count(s) - 1, FlagLeft(counted, counted.state, i)
          PROVE  FlagLeft(m, s, i)
      BY <1>6, <3>3, <3>4, <3>5 DEF FlagLeft, Processed
    <3>6. Within(counted.state) /\ Count(s) <= Count(counted.state)
      BY <3>1, <3>3, <3>4 DEF Within
    <3>7. Below(m, counted, Start(s))
      BY <3>4, BelowSame
    <3>8. Worked(m, counted)
      BY <3>4, <3>5, <3>6, <3>7 DEF Worked, Kept, KeptBelow, SameSection
    <3>9. Worked(m, R.m)
      BY <1>2, <3>2, <3>8 DEF Success
    <3> QED BY <3>9 DEF R
  <2> QED BY <2>1, <2>2
<1> QED BY <1>5, <1>6

\* An undone search leaves the cursor where it began, with the flags it has.
LEMMA BackToStartKeeps ==
    ASSUME IInv, search # << >>, NEW m, Good(m)
    PROVE  LET r == BackToStart(m) IN
           /\ Kept(m, r.m)
           /\ r.m.state.payload_end = m.state.payload_end
           /\ r.m.state.payload = search[1].payload
           /\ ~r.ok
<1> DEFINE n == [m EXCEPT !.state.payload = search[1].payload,
                          !.state.elem_count = search[1].elem_count]
<1>1. Good(n)
  BY BackToStartGood, ResultGood DEF BackToStart, GoodResult, Failure
<1>2. m \in Machine /\ m.state \in Cursor
  BY GoodType
<1>3. /\ n.backup_list = m.backup_list /\ n.mem = m.mem
      /\ n.state.decode_state = m.state.decode_state
      /\ n.state.payload_end = m.state.payload_end
      /\ n.state.payload = search[1].payload
  BY <1>2 DEF Machine, Cursor
<1>4. BackToStart(m) = Failure(n)
  BY DEF BackToStart
<1> HIDE DEF n
<1>5. Kept(m, n)
  BY <1>1, <1>3, CursorMoves DEF Start, MapOf, Count, Processed
<1> QED BY <1>3, <1>4, <1>5 DEF Failure

\* Back at the first key of the map: the place is the one saved when the map
\* was entered, and the flags are the ones there are.
LEMMA MapRestartKeeps ==
    ASSUME NEW m, Good(m), MapOf(m.state) \in 1 .. Len(m.backup_list),
           SmartSearch => ~BackedUp(m.backup_list[MapOf(m.state)])
    PROVE  LET r == handle_map_end(m)
               b == m.backup_list[MapOf(m.state)]
           IN  /\ Kept(m, r.m)
               /\ r.ok => r.m.state.payload = b.payload /\ r.m.state.payload_end = b.payload_end
               /\ ~r.ok => Worked(m, r.m)
<1> DEFINE k == [m EXCEPT !.state.decode_state.counting_map_elems = FALSE]
           num == MapOf(m.state)
           b == m.backup_list[num]
           flags == {"RESTORE", "KEEP_DECODE_STATE"}
           restored == [k EXCEPT !.state = b]
           p == [restored EXCEPT !.state.decode_state = k.state.decode_state]
           max == zcbor_current_max_elem_count(p.state)
           n == [p EXCEPT !.state.elem_count = max]
           q == zcbor_process_backup_num(k, flags, k.state.decode_state.map_start_backup_num)
           R == handle_map_end(m)
<1>1. /\ m \in Machine /\ m.state \in Cursor /\ b \in Cursor
      /\ num \in Nat /\ Len(m.backup_list) \in Nat /\ num # 0 /\ ~(num > Len(m.backup_list))
  BY GoodType
<1>2. /\ k.backup_list = m.backup_list /\ k.mem = m.mem /\ k \in Machine
      /\ k.state.payload = m.state.payload /\ k.state.payload_end = m.state.payload_end
      /\ Start(k.state) = Start(m.state) /\ MapOf(k.state) = MapOf(m.state)
      /\ Count(k.state) = Count(m.state) /\ Processed(k.state) = Processed(m.state)
      /\ k.state \in Cursor
  BY <1>1 DEF Machine, Cursor, DecodeState, Start, MapOf, Count, Processed
<1>3. R = AllElements(q)
  BY DEF handle_map_end, map_restart
<1>4. GoodResult(R)
  BY MapRestartGood
<1> HIDE DEF k, b
<1>5. Good(k) /\ Worked(m, k)
  <2>1. Good(k)
    BY <1>2, SameFlags DEF Count
  <2>2. Kept(m, k)
    BY <1>2, <2>1, CursorMoves
  <2> QED BY <1>2, <2>1, <2>2 DEF Worked, SameSection
<1>6. {"BAD_ARG", "PAYLOAD_OUTDATED"} \subseteq Errors
  BY DEF Errors
<1>7. /\ "RESTORE" \in flags /\ "CONSUME" \notin flags /\ "KEEP_PAYLOAD" \notin flags
      /\ "KEEP_DECODE_STATE" \in flags
  OBVIOUS
<1> HIDE DEF flags
<1>8. q = IF ~zcbor_check_error(k) THEN Failure(k)
          ELSE IF b.payload_moved THEN Err(k, "PAYLOAD_OUTDATED")
          ELSE Success(p)
  <2>1. k.state.decode_state.map_start_backup_num = num /\ k.backup_list[num] = b
    BY <1>2 DEF MapOf, b
  <2>2. RestoreFrom(k, b, "CONSUME" \in flags) = Success(restored)
    BY <1>7 DEF RestoreFrom, BackedUp, b
  <2>3. RestoreFrom(k, b, "CONSUME" \in flags).ok = TRUE
        /\ RestoreFrom(k, b, "CONSUME" \in flags).m = restored
    BY <2>2 DEF Success
  <2> HIDE DEF restored, num
  <2> QED BY <1>1, <1>2, <1>7, <2>1, <2>3 DEF zcbor_process_backup_num
<1>9. /\ p.backup_list = m.backup_list /\ p.mem = m.mem
      /\ p.state.decode_state = k.state.decode_state
      /\ p.state.payload = b.payload /\ p.state.payload_end = b.payload_end
      /\ p \in Machine
  <2>1. /\ restored \in Machine /\ restored.backup_list = m.backup_list
        /\ restored.mem = m.mem /\ restored.state = b
    BY <1>1, <1>2 DEF Machine
  <2> HIDE DEF restored
  <2> QED BY <1>1, <1>2, <2>1 DEF Machine, Cursor
<1> HIDE DEF p, q
<1>10. CASE zcbor_check_error(k) /\ ~b.payload_moved
  <2>1. q.ok /\ q.m = p
    BY <1>8, <1>10 DEF Success
  <2>2. R = Success(n)
    BY <1>3, <2>1 DEF AllElements
  <2>3. R.ok /\ R.m = n
    BY <2>2 DEF Success
  <2>4. /\ n.backup_list = m.backup_list /\ n.mem = m.mem
        /\ n.state.decode_state = k.state.decode_state
        /\ n.state.payload = b.payload /\ n.state.payload_end = b.payload_end
    BY <1>9 DEF Machine, Cursor
  <2> HIDE DEF n, R
  <2>5. Good(n)
    BY <1>4, <2>3 DEF GoodResult
  <2>6. Kept(k, n)
    BY <1>2, <1>5, <2>4, <2>5, CursorMoves DEF Start, MapOf, Count, Processed
  <2>7. Kept(m, n)
    BY <1>5, <2>5, <2>6, KeptThrough DEF Worked
  <2> QED BY <2>3, <2>4, <2>7 DEF R, b
<1>11. CASE ~(zcbor_check_error(k) /\ ~b.payload_moved)
  <2>1. q \in {Failure(k), Err(k, "PAYLOAD_OUTDATED")}
    BY <1>8, <1>11
  <2>2. /\ q.ok = FALSE /\ Worked(k, q.m) /\ Good(q.m)
        /\ Good(k) /\ Worked(m, k)
    <3>1. CASE q = Failure(k)
      <4>1. q.ok = FALSE /\ q.m = k
        BY <3>1 DEF Failure
      <4> QED BY <1>5, <4>1, WorkedSelf
    <3>2. CASE q = Err(k, "PAYLOAD_OUTDATED")
      <4>1. Worked(k, q.m)
        BY <1>5, <1>6, <3>2, ErrWorks
      <4>2. GoodResult(q) /\ q.ok = FALSE
        BY <1>5, <1>6, <3>2, ErrGood
      <4> QED BY <1>5, <4>1, <4>2 DEF GoodResult
    <3> QED BY <2>1, <3>1, <3>2
  <2>3. R = q
    BY <1>3, <2>2 DEF AllElements
  <2> HIDE DEF R
  <2>4. Worked(m, R.m) /\ R.ok = FALSE
    <3>1. Worked(m, q.m)
      BY <2>2, WorkedThrough
    <3> QED BY <2>2, <2>3, <3>1
  <2> QED BY <2>4 DEF R, Worked
<1> QED BY <1>10, <1>11

-----------------------------------------------------------------------------
(* Another piece of payload, and a new start.                              *)

\* The cursor is at the start of the new piece, with all else that it had.
AtStart(c, d) ==
    /\ d.payload = 0 /\ d.payload_end = PayloadLen
    /\ d.elem_count = c.elem_count
    /\ d.decode_state = c.decode_state

\* All cursors are in the new piece, and no backup has a place there.
Moved(m, n) ==
    /\ n.mem = m.mem
    /\ Len(n.backup_list) = Len(m.backup_list)
    /\ \A i \in 1 .. Len(m.backup_list) :
          AtStart(m.backup_list[i], n.backup_list[i]) /\ n.backup_list[i].payload_moved
    /\ AtStart(m.state, n.state)

LEMMA UpdateStateMoves ==
    ASSUME NEW m, Good(m)
    PROVE  Moved(m, zcbor_update_state(m, PayloadLen))
<1> DEFINE n == zcbor_update_state(m, PayloadLen)
<1>1. m \in Machine /\ m.backup_list \in Seq(Cursor)
  BY GoodType
<1>2. /\ n.mem = m.mem
      /\ n.state = InSection(m.state, PayloadLen)
      /\ n.backup_list = [i \in DOMAIN m.backup_list |->
            [InSection(m.backup_list[i], PayloadLen) EXCEPT !.payload_moved = TRUE]]
  BY <1>1 DEF zcbor_update_state, Machine
<1> HIDE DEF n
<1>3. \A c \in Cursor :
        /\ AtStart(c, InSection(c, PayloadLen))
        /\ AtStart(c, [InSection(c, PayloadLen) EXCEPT !.payload_moved = TRUE])
        /\ [InSection(c, PayloadLen) EXCEPT !.payload_moved = TRUE].payload_moved
  BY DEF AtStart, InSection, Cursor
<1>4. AtStart(m.state, n.state)
  BY <1>1, <1>2, <1>3 DEF Machine
<1>5. n.backup_list \in Seq(Cursor)
  BY UpdateStateGood, GoodType DEF n
<1>6. DOMAIN m.backup_list = 1 .. Len(m.backup_list)
      /\ DOMAIN n.backup_list = 1 .. Len(n.backup_list)
      /\ Len(m.backup_list) \in Nat /\ Len(n.backup_list) \in Nat
  BY <1>1, <1>5
<1>7. DOMAIN n.backup_list = DOMAIN m.backup_list
  BY <1>2
<1>8. Len(n.backup_list) = Len(m.backup_list)
  BY <1>6, <1>7
<1>9. ASSUME NEW i \in 1 .. Len(m.backup_list)
      PROVE  AtStart(m.backup_list[i], n.backup_list[i]) /\ n.backup_list[i].payload_moved
  <2>1. m.backup_list[i] \in Cursor
    BY <1>1
  <2>2. n.backup_list[i] = [InSection(m.backup_list[i], PayloadLen) EXCEPT !.payload_moved = TRUE]
    BY <1>2, <1>6
  <2> QED BY <1>3, <2>1, <2>2
<1> QED BY <1>2, <1>4, <1>8, <1>9 DEF Moved, n

\* A new start knows no backup and no map.
LEMMA NewStateStarts ==
    ASSUME NEW m, Good(m)
    PROVE  LET n == zcbor_new_state(m, PayloadLen, RootElems) IN
           /\ n.backup_list = << >>
           /\ ~SmartSearch => Processed(n.state) = 0
           /\ Within(n.state)
<1> DEFINE n == zcbor_new_state(m, PayloadLen, RootElems)
<1>1. m \in Machine /\ m.state \in Cursor /\ m.state.decode_state \in DecodeState
  BY GoodType
<1>2. /\ n.backup_list = << >>
      /\ n.state.payload = 0 /\ n.state.payload_end = PayloadLen
      /\ n.state.decode_state = NewDecodeState(m.state.decode_state)
  BY <1>1 DEF zcbor_new_state, Machine, Cursor
<1>3. n.state \in Cursor
  BY NewStateGood, GoodType
<1> HIDE DEF n
<1>5. ~SmartSearch => Processed(n.state) = 0
  BY <1>1, <1>2 DEF NewDecodeState, Processed, DecodeState
<1>6. Within(n.state)
  BY <1>3, <1>5, CountType DEF Within
<1> QED BY <1>2, <1>5, <1>6 DEF n

=============================================================================
