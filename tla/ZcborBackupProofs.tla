------------------------- MODULE ZcborBackupProofs -------------------------
(***************************************************************************)
(* Theorems about ZcborBackup for every value of its constants: the        *)
(* machine keeps its types, and no cursor's flags reach past the flag      *)
(* buffer.                                                                 *)
(***************************************************************************)
EXTENDS ZcborBackup, SequenceTheorems, TLAPS

Start(c) == c.decode_state.map_search_elem_state

\* FlagsInBounds alone is not inductive: when a rollback point is given up its
\* flags are replaced by the active ones, at the address of the saved ones.
\* That this stays in bounds needs the flags to be ordered as the backups are.
FlagsSound(m) ==
    SmartSearch =>
        /\ FlagEnd(m.state) <= FlagBytes
        /\ \A i \in 1 .. Len(m.backup_list) :
              /\ FlagEnd(m.backup_list[i]) <= FlagBytes
              /\ m.backup_list[i].decode_state.elem_state_backed_up
                   => RoomForCopy(m.backup_list[i])
              /\ Start(m.backup_list[i]) <= Start(m.state)
        /\ \A i, j \in 1 .. Len(m.backup_list) :
              i <= j => Start(m.backup_list[i]) <= Start(m.backup_list[j])

Good(m) == m \in Machine /\ Len(m.backup_list) <= NumBackups /\ FlagsSound(m)

GoodResult(r) == r.ok \in BOOLEAN /\ Good(r.m)

USE DEF Address, Bit, Byte
-----------------------------------------------------------------------------
\* A size_t stays one.
LEMMA SizeTType ==
    ASSUME NEW n \in Int PROVE SizeT(n) \in 0 .. SIZE_MAX
BY SizeAssumption DEF SizeT

-----------------------------------------------------------------------------
(* Bytes of flags.                                                         *)

\* So many flags fit in so many bytes: FlagsToBytes rounds up.
LEMMA FlagsToBytesType ==
    ASSUME NEW n \in Nat PROVE FlagsToBytes(n) \in Nat
BY FlagAssumption DEF FlagsToBytes

\* k bytes are full with BitsPerByte * k flags.
LEMMA FlagsToBytesExact ==
    ASSUME NEW k \in Nat PROVE FlagsToBytes(BitsPerByte * k) = k
<1> DEFINE a == BitsPerByte * k + BitsPerByte - 1
<1>1. a \in Nat /\ BitsPerByte * k <= a /\ a < BitsPerByte * k + BitsPerByte
  BY FlagAssumption
<1>2. \A b \in Nat \ {0} : \A x \in Nat :
        b * k <= x /\ x < b * k + b => x \div b = k
  OBVIOUS
<1> QED BY <1>1, <1>2, FlagAssumption DEF FlagsToBytes

\* Flags that take more than k bytes are more than k bytes hold.
LEMMA FlagsToBytesAbove ==
    ASSUME NEW n \in Nat, NEW k \in Nat, FlagsToBytes(n) > k
    PROVE  BitsPerByte * k <= n
<1> DEFINE q == (n + BitsPerByte - 1) \div BitsPerByte
<1>1. q \in Nat /\ BitsPerByte * q <= n + BitsPerByte - 1
  BY FlagAssumption
<1>2. k + 1 <= q
  BY <1>1 DEF FlagsToBytes
<1>3. BitsPerByte * (k + 1) <= BitsPerByte * q
  BY <1>1, <1>2, FlagAssumption
<1> QED BY <1>1, <1>3, FlagAssumption

LEMMA FlagsToBytesZero == FlagsToBytes(0) = 0
<1>1. BitsPerByte * 0 = 0 BY FlagAssumption
<1> QED BY FlagsToBytesExact, <1>1

\* The flags a cursor uses depend on its two flag fields only.
LEMMA FlagEndType ==
    ASSUME NEW c \in Cursor
    PROVE  /\ FlagLen(c) \in Nat
           /\ Start(c) \in 0 .. FlagBytes
           /\ FlagEnd(c) = Start(c) + FlagLen(c)
           /\ FlagEnd(c) \in Nat
BY FlagsToBytesType, SizeAssumption, FlagAssumption
   DEF Cursor, DecodeState, FlagLen, FlagEnd, Start

-----------------------------------------------------------------------------
(* Steps that leave the flags and the backup list alone.                   *)

LEMMA PayloadsWithin ==
    /\ \A n \in 0 .. PayloadLen : n \in 0 .. MaxPayload
    /\ 0 \in 0 .. PayloadLen
BY PayloadAssumption DEF MaxPayload

LEMMA GoodType ==
    ASSUME NEW m, Good(m)
    PROVE  /\ m \in Machine
           /\ m.state \in Cursor
           /\ m.state.decode_state \in DecodeState
           /\ m.backup_list \in Seq(Cursor)
           /\ Len(m.backup_list) \in 0 .. NumBackups
           /\ m.mem \in [Address -> Byte]
           /\ m.error \in Errors
           /\ \A i \in 1 .. Len(m.backup_list) : m.backup_list[i] \in Cursor
<1>1. /\ m.state \in Cursor /\ m.backup_list \in Seq(Cursor)
      /\ m.mem \in [Address -> Byte] /\ m.error \in Errors
  BY DEF Good, Machine
<1>2. m.state.decode_state \in DecodeState
  BY <1>1 DEF Cursor
<1>3. Len(m.backup_list) \in 0 .. NumBackups
  BY <1>1, BackupAssumption, LenProperties DEF Good
<1>4. \A i \in 1 .. Len(m.backup_list) : m.backup_list[i] \in Cursor
  BY <1>1, ElementOfSeq
<1> QED BY <1>1, <1>2, <1>3, <1>4 DEF Good

LEMMA SameFlags ==
    ASSUME NEW m, Good(m), NEW mm \in Machine,
           mm.backup_list = m.backup_list,
           mm.state.decode_state.map_elem_count = m.state.decode_state.map_elem_count,
           Start(mm.state) = Start(m.state)
    PROVE  Good(mm)
BY DEF Good, FlagsSound, FlagEnd, FlagLen, Start

LEMMA ErrorGood ==
    ASSUME NEW m, Good(m), NEW err \in Errors
    PROVE  /\ Good(zcbor_error(m, err))
           /\ zcbor_error(m, err).state = m.state
           /\ zcbor_error(m, err).backup_list = m.backup_list
<1> DEFINE mm == [m EXCEPT !.error = err]
<1>1. mm \in Machine /\ mm.state = m.state /\ mm.backup_list = m.backup_list
  BY GoodType DEF Machine
<1>2. Good(mm)
  BY <1>1, SameFlags
<1> QED BY <1>1, <1>2 DEF zcbor_error

LEMMA ErrGood ==
    ASSUME NEW m, Good(m), NEW err \in Errors
    PROVE  /\ GoodResult(Err(m, err))
           /\ Err(m, err).ok = FALSE
           /\ Err(m, err).m.state = m.state
           /\ Err(m, err).m.backup_list = m.backup_list
BY ErrorGood DEF GoodResult, Failure, Err

LEMMA ResultGood ==
    ASSUME NEW m, Good(m)
    PROVE  /\ GoodResult(Success(m)) /\ Success(m).ok = TRUE  /\ Success(m).m = m
           /\ GoodResult(Failure(m)) /\ Failure(m).ok = FALSE /\ Failure(m).m = m
BY DEF GoodResult, Success, Failure

-----------------------------------------------------------------------------
(* Reading a header.                                                       *)

HeaderSet ==
    [major : 0 .. 7, additional : 0 .. 31, value : 0 .. SIZE_MAX, minimal : BOOLEAN]

LEMMA InitialChecksGood ==
    ASSUME NEW m, Good(m)
    PROVE  /\ GoodResult(initial_checks(m))
           /\ initial_checks(m).ok =>
                initial_checks(m).m = m /\ m.state.payload < m.state.payload_end
<1>1. m.state.payload \in Int /\ m.state.payload_end \in Int
  BY GoodType DEF Cursor
<1>2. "NO_PAYLOAD" \in Errors
  BY DEF Errors
<1>3. CASE ~zcbor_check_error(m)
  BY <1>3, ResultGood DEF initial_checks
<1>4. CASE zcbor_check_error(m) /\ m.state.payload >= m.state.payload_end
  BY <1>2, <1>4, ErrGood DEF initial_checks
<1>5. CASE zcbor_check_error(m) /\ m.state.payload < m.state.payload_end
  <2>1. ~(m.state.payload >= m.state.payload_end)
    BY <1>1, <1>5
  <2>2. initial_checks(m) = Success(m)
    BY <1>5, <2>1 DEF initial_checks
  <2> QED BY <1>5, <2>2, ResultGood
<1> QED BY <1>1, <1>3, <1>4, <1>5

LEMMA TypeCheckGood ==
    ASSUME NEW m, Good(m), NEW h, NEW type
    PROVE  /\ GoodResult(type_check(m, h, type))
           /\ type_check(m, h, type).ok => type_check(m, h, type).m = m
<1>1. "WRONG_TYPE" \in Errors
  BY DEF Errors
<1>2. CASE initial_checks(m).ok
  BY <1>1, <1>2, InitialChecksGood, ResultGood, ErrGood DEF type_check
<1>3. CASE ~initial_checks(m).ok
  BY <1>3, InitialChecksGood DEF type_check
<1> QED BY <1>2, <1>3

LEMMA RewoundGood ==
    ASSUME NEW m, Good(m)
    PROVE  /\ Good(Rewound(m))
           /\ Rewound(m).state.decode_state = m.state.decode_state
<1>1. m \in Machine
  BY GoodType
<1>2. SizeT(m.state.elem_count + 1) \in 0 .. SIZE_MAX
  <2>1. m.state.elem_count + 1 \in Int
    BY <1>1 DEF Machine, Cursor
  <2> QED BY <2>1, SizeTType
<1>3. Rewound(m) \in Machine
  BY <1>1, <1>2, PayloadsWithin DEF Rewound, Machine, Cursor
<1>4. Rewound(m).backup_list = m.backup_list
  BY <1>1 DEF Rewound, Machine
<1>5. Rewound(m).state.decode_state = m.state.decode_state
  BY <1>1 DEF Rewound, Machine, Cursor
<1> QED BY <1>3, <1>4, <1>5, SameFlags DEF Start

LEMMA RestoreGood ==
    ASSUME NEW m, Good(m), NEW err \in Errors
    PROVE  GoodResult(FAIL_RESTORE(m)) /\ GoodResult(ERR_RESTORE(m, err))
<1>1. Good(Rewound(m))
  BY RewoundGood
<1> QED BY <1>1, ResultGood, ErrGood DEF FAIL_RESTORE, ERR_RESTORE

\* A value that was read moves the cursor within its section and takes one
\* element; nothing else changes.
KeepsSection(r, m) == /\ r.m.state.payload_end = m.state.payload_end
                      /\ r.m.state.decode_state = m.state.decode_state
                      /\ r.m.backup_list = m.backup_list

LEMMA ValueExtractGood ==
    ASSUME NEW m, Good(m), NEW h \in HeaderSet, NEW result_len \in Nat,
           NEW indef \in BOOLEAN
    PROVE  /\ GoodResult(value_extract(m, h, result_len, indef))
           /\ KeepsSection(value_extract(m, h, result_len, indef), m)
<1> DEFINE Advanced(n) == [m EXCEPT !.state.payload_bak = m.state.payload,
                                    !.state.payload = @ + n + 1,
                                    !.state.elem_count = @ - 1]
           len == additional_len(h.additional)
<1>0. m \in Machine
  BY GoodType
<1>1. len \in Nat
  BY DEF additional_len, HeaderSet
<1>2. m.state.payload \in Nat /\ m.state.payload_end \in 0 .. PayloadLen
        /\ m.state.elem_count \in 0 .. SIZE_MAX
  BY <1>0 DEF Machine, Cursor
<1>3. ASSUME NEW n \in Nat, m.state.payload + n + 1 <= m.state.payload_end,
             m.state.elem_count # 0
      PROVE  /\ GoodResult(Success(Advanced(n)))
             /\ KeepsSection(Success(Advanced(n)), m)
  <2>0. /\ m.state.payload \in 0 .. PayloadLen
        /\ m.state.payload + n + 1 \in 0 .. MaxPayload
        /\ m.state.elem_count - 1 \in 0 .. SIZE_MAX
    BY <1>2, <1>3, PayloadAssumption, SizeAssumption DEF MaxPayload
  <2>1. Advanced(n) \in Machine
    BY <1>0, <2>0 DEF Machine, Cursor
  <2>2. /\ Advanced(n).state.payload_end = m.state.payload_end
        /\ Advanced(n).state.decode_state = m.state.decode_state
    BY <1>0 DEF Machine, Cursor
  <2>3. Advanced(n).backup_list = m.backup_list
    BY <1>0 DEF Machine
  <2>4. Good(Advanced(n))
    BY <2>1, <2>2, <2>3, SameFlags DEF Start
  <2> HIDE DEF Advanced
  <2> QED BY <2>2, <2>3, <2>4, ResultGood DEF KeepsSection
<1>4. \A err \in Errors :
        GoodResult(Err(m, err)) /\ KeepsSection(Err(m, err), m)
  BY ErrGood DEF KeepsSection
<1>5. GoodResult(Failure(m)) /\ KeepsSection(Failure(m), m)
  BY ResultGood DEF KeepsSection
<1>6. /\ GoodResult(initial_checks(m))
      /\ KeepsSection(initial_checks(m), m)
      /\ initial_checks(m).ok => m.state.payload + 0 + 1 <= m.state.payload_end
  <2>1. "NO_PAYLOAD" \in Errors
    BY DEF Errors
  <2>2. KeepsSection(Success(m), m)
    BY ResultGood DEF KeepsSection
  <2>3. KeepsSection(initial_checks(m), m)
    BY <1>4, <1>5, <2>1, <2>2 DEF initial_checks
  <2> QED BY <1>2, <2>3, InitialChecksGood
<1>7. {"LOW_ELEM_COUNT", "INVALID_VALUE_ENCODING", "ADDITIONAL_INVAL", "INT_SIZE",
       "NO_PAYLOAD"} \subseteq Errors
  BY DEF Errors
<1>8. m.state.payload + len + 1 <= m.state.payload_end
        \/ m.state.payload + len + 1 > m.state.payload_end
  BY <1>1, <1>2
<1> DEFINE V == value_extract(m, h, result_len, indef)
           asked == h.additional = INDEFINITE /\ indef
           ready == /\ initial_checks(m).ok
                    /\ m.state.elem_count # 0
                    /\ ~(asked /\ EnforceCanonical)
<1>9. CASE ~initial_checks(m).ok
  BY <1>6, <1>9 DEF value_extract
<1>10. CASE initial_checks(m).ok /\ ~ready
  BY <1>4, <1>7, <1>10 DEF value_extract
<1>11. CASE ready /\ asked
  <2>1. V = Success(Advanced(0))
    BY <1>11 DEF value_extract
  <2> QED BY <1>3, <1>6, <1>11, <2>1
<1>12. CASE ready /\ ~asked
  <2>1. CASE h.additional > 27 \/ len > result_len
               \/ m.state.payload + len + 1 > m.state.payload_end
               \/ (EnforceCanonical /\ len > 0 /\ ~h.minimal /\ ~IsFloat(h))
    <3>1. \E err \in Errors : V = Err(m, err)
      BY <1>7, <1>12, <2>1 DEF value_extract
    <3> QED BY <1>4, <3>1
  <2>2. CASE ~(h.additional > 27 \/ len > result_len
               \/ m.state.payload + len + 1 > m.state.payload_end
               \/ (EnforceCanonical /\ len > 0 /\ ~h.minimal /\ ~IsFloat(h)))
    <3>1. V = Success(Advanced(len))
      BY <1>12, <2>2 DEF value_extract
    <3> QED BY <1>1, <1>3, <1>8, <1>12, <2>2, <3>1
  <2> QED BY <2>1, <2>2
<1> QED BY <1>9, <1>10, <1>11, <1>12

-----------------------------------------------------------------------------
(* Flags that move.                                                        *)

\* Flags may move up, as far as the buffer reaches.
LEMMA FlagsMovedUp ==
    ASSUME NEW m, Good(m), NEW mm \in Machine,
           mm.backup_list = m.backup_list,
           SmartSearch => Start(m.state) <= Start(mm.state) /\ FlagEnd(mm.state) <= FlagBytes
    PROVE  Good(mm)
<1>1. Start(m.state) \in Int /\ Start(mm.state) \in Int
  <2>1. m.state \in Cursor /\ mm.state \in Cursor
    BY GoodType DEF Machine
  <2> QED BY <2>1, FlagEndType, FlagAssumption
<1>2. ASSUME SmartSearch, NEW i \in 1 .. Len(m.backup_list)
      PROVE  Start(m.backup_list[i]) <= Start(mm.state)
  <2>1. Start(m.backup_list[i]) \in Int
    <3>1. m.backup_list \in Seq(Cursor)
      BY GoodType
    <3>2. m.backup_list[i] \in Cursor
      BY <1>2, <3>1
    <3> QED BY <3>2, FlagEndType, FlagAssumption
  <2>2. Start(m.backup_list[i]) <= Start(m.state)
    BY <1>2 DEF Good, FlagsSound
  <2> QED BY <1>1, <1>2, <2>1, <2>2
<1>3. FlagsSound(mm)
  BY <1>2 DEF Good, FlagsSound
<1> QED BY <1>3 DEF Good

\* A copy of bytes of the buffer is bytes of it, if what is read is inside.
LEMMA MemmoveType ==
    ASSUME NEW mem \in [Address -> Byte], NEW to \in Nat, NEW from \in Nat, NEW len \in Nat,
           from + len <= FlagBytes
    PROVE  Memmove(mem, to, from, len) \in [Address -> Byte]
<1>1. ASSUME NEW a \in Address, a \in to .. to + len - 1
      PROVE  a - to + from \in 0 .. FlagBytes - 1
  <2>1. a \in Int /\ to <= a /\ a <= to + len - 1
    BY <1>1, FlagAssumption
  <2> QED BY <2>1, FlagAssumption
<1>2. DOMAIN mem = Address
  OBVIOUS
<1>3. \A a \in Address : (IF a \in to .. to + len - 1 THEN mem[a - to + from] ELSE mem[a]) \in Byte
  BY <1>1
<1> QED BY <1>2, <1>3 DEF Memmove

\* Where there is room, the copy starts where the flags ended.
LEMMA FlagsCopied ==
    ASSUME NEW m \in Machine, RoomForCopy(m.state)
    PROVE  LET r == do_elem_state_backup(m, FALSE) IN
           /\ r.ok = TRUE
           /\ r.m \in Machine
           /\ r.m.backup_list = m.backup_list
           /\ r.m.state.payload = m.state.payload
           /\ Start(r.m.state) = FlagEnd(m.state)
           /\ FlagEnd(r.m.state) = FlagEnd(m.state) + FlagLen(m.state)
<1> DEFINE flags == Start(m.state)
           len   == FlagLen(m.state)
           mem   == Memmove(m.mem, flags + len, flags, len)
           mm    == [m EXCEPT !.mem = mem,
                              !.state.decode_state.map_search_elem_state = flags + len]
<1>1. /\ m.state \in Cursor /\ m.mem \in [Address -> Byte]
  BY DEF Machine
<1>2. /\ len \in Nat /\ flags \in 0 .. FlagBytes /\ FlagEnd(m.state) = flags + len
  BY <1>1, FlagEndType
<1>3. flags + len + len <= FlagBytes
  BY <1>2 DEF RoomForCopy
<1>4. mem \in [Address -> Byte]
  <2>1. flags \in Nat /\ flags + len \in Nat /\ flags + len <= FlagBytes
    BY <1>2, <1>3, FlagAssumption
  <2> HIDE DEF flags, len
  <2> QED BY <1>1, <1>2, <2>1, MemmoveType
<1>5. flags + len \in 0 .. FlagBytes
  BY <1>2, <1>3, FlagAssumption
<1> HIDE DEF mem, flags, len
<1>6. /\ mm \in Machine
      /\ mm.backup_list = m.backup_list
      /\ mm.state.payload = m.state.payload
      /\ mm.state.decode_state.map_elem_count = m.state.decode_state.map_elem_count
      /\ Start(mm.state) = flags + len
  BY <1>1, <1>4, <1>5 DEF Machine, Cursor, DecodeState, Start
<1>7. FlagEnd(mm.state) = flags + len + len
  BY <1>6 DEF FlagEnd, FlagLen, Start, len
<1>8. do_elem_state_backup(m, FALSE) = Success(mm)
  BY DEF do_elem_state_backup, mem, flags, len, Start
<1> HIDE DEF mm
<1>9. do_elem_state_backup(m, FALSE).ok = TRUE /\ do_elem_state_backup(m, FALSE).m = mm
  <2>1. Success(mm).ok = TRUE /\ Success(mm).m = mm
    BY DEF Success
  <2> QED BY <1>8, <2>1
<1>10. len = FlagLen(m.state)
  BY DEF len
<1> QED BY <1>2, <1>6, <1>7, <1>9, <1>10

\* do_elem_state_backup fails exactly where there is no room.
LEMMA ElemStateBackupGood ==
    ASSUME NEW m, Good(m), NEW dry_run \in BOOLEAN
    PROVE  LET r == do_elem_state_backup(m, dry_run) IN
           /\ GoodResult(r)
           /\ r.m.backup_list = m.backup_list
           /\ r.ok <=> RoomForCopy(m.state)
<1>1. m.state \in Cursor /\ m \in Machine
  BY GoodType
<1>2. "MAP_FLAGS_NOT_AVAILABLE" \in Errors
  BY DEF Errors
<1>3. CASE ~RoomForCopy(m.state)
  BY <1>2, <1>3, ErrGood DEF do_elem_state_backup
<1>4. CASE RoomForCopy(m.state) /\ dry_run
  BY <1>4, ResultGood DEF do_elem_state_backup
<1>5. CASE RoomForCopy(m.state) /\ ~dry_run
  <2> DEFINE r == do_elem_state_backup(m, FALSE)
  <2>1. /\ r.ok = TRUE /\ r.m \in Machine /\ r.m.backup_list = m.backup_list
        /\ Start(r.m.state) = FlagEnd(m.state)
        /\ FlagEnd(r.m.state) = FlagEnd(m.state) + FlagLen(m.state)
    BY <1>1, <1>5, FlagsCopied
  <2>2. Start(m.state) <= FlagEnd(m.state) /\ FlagEnd(m.state) + FlagLen(m.state) <= FlagBytes
    BY <1>1, <1>5, FlagEndType, FlagAssumption DEF RoomForCopy
  <2> HIDE DEF r
  <2>3. Good(r.m)
    BY <2>1, <2>2, FlagsMovedUp
  <2> QED BY <1>5, <2>1, <2>3 DEF GoodResult, r
<1> QED BY <1>3, <1>4, <1>5

-----------------------------------------------------------------------------
(* The backup list.                                                        *)

LEMMA SameCursorFlags ==
    ASSUME NEW c, NEW cc,
           cc.decode_state.map_elem_count = c.decode_state.map_elem_count,
           Start(cc) = Start(c)
    PROVE  FlagEnd(cc) = FlagEnd(c) /\ FlagLen(cc) = FlagLen(c)
             /\ (RoomForCopy(cc) <=> RoomForCopy(c))
BY DEF FlagEnd, FlagLen, RoomForCopy, Start

LEMMA PushedGood ==
    ASSUME NEW m, Good(m), Len(m.backup_list) < NumBackups,
           NEW new_elem_count \in 0 .. SIZE_MAX, NEW with_flags \in BOOLEAN,
           with_flags => RoomForCopy(m.state)
    PROVE  LET p == Pushed(m, new_elem_count, with_flags) IN
           /\ Good(p)
           /\ RoomForCopy(p.state) <=> RoomForCopy(m.state)
<1> DEFINE saved == [m.state EXCEPT !.payload_moved = FALSE,
                                    !.decode_state.elem_state_backed_up = with_flags]
           state == [saved EXCEPT !.elem_count = new_elem_count]
           list  == Append(m.backup_list, saved)
           p == Pushed(m, new_elem_count, with_flags)
           n == Len(m.backup_list)
<1>1. /\ m \in Machine /\ m.state \in Cursor /\ m.backup_list \in Seq(Cursor)
      /\ n \in Nat
  BY GoodType
<1>2. /\ saved \in Cursor
      /\ saved.decode_state.elem_state_backed_up = with_flags
      /\ saved.decode_state.map_elem_count = m.state.decode_state.map_elem_count
      /\ Start(saved) = Start(m.state)
  BY <1>1 DEF Cursor, DecodeState, Start
<1> HIDE DEF saved
<1>3. /\ state \in Cursor
      /\ state.decode_state = saved.decode_state
  BY <1>2 DEF Cursor
<1>4. p = [m EXCEPT !.backup_list = list, !.state = state]
  BY DEF Pushed, saved
<1> HIDE DEF state
<1>5. /\ list \in Seq(Cursor) /\ Len(list) = n + 1
      /\ \A i \in 1 .. n : list[i] = m.backup_list[i]
      /\ list[n + 1] = saved
  BY <1>1, <1>2, AppendProperties
<1> HIDE DEF list, p
<1>6. p \in Machine /\ p.backup_list = list /\ p.state = state
  BY <1>1, <1>3, <1>4, <1>5 DEF Machine
<1>7. /\ FlagEnd(saved) = FlagEnd(m.state) /\ FlagEnd(state) = FlagEnd(m.state)
      /\ RoomForCopy(saved) <=> RoomForCopy(m.state)
      /\ RoomForCopy(state) <=> RoomForCopy(m.state)
      /\ Start(state) = Start(m.state) /\ Start(saved) = Start(m.state)
  BY <1>2, <1>3, SameCursorFlags DEF Start
<1>8. Start(m.state) \in Int
  BY <1>1, FlagEndType, FlagAssumption
<1>9. ASSUME SmartSearch PROVE FlagsSound(p)
  <2>1. FlagEnd(p.state) <= FlagBytes
    BY <1>6, <1>7, <1>9 DEF Good, FlagsSound
  <2>2. ASSUME NEW i \in 1 .. n + 1
        PROVE  /\ FlagEnd(list[i]) <= FlagBytes
               /\ list[i].decode_state.elem_state_backed_up => RoomForCopy(list[i])
               /\ Start(list[i]) <= Start(m.state)
    <3>1. CASE i = n + 1
      BY <1>2, <1>5, <1>7, <1>8, <1>9, <3>1 DEF Good, FlagsSound
    <3>2. CASE i \in 1 .. n
      BY <1>5, <1>9, <3>2 DEF Good, FlagsSound
    <3> QED BY <1>1, <2>2, <3>1, <3>2
  <2>3. ASSUME NEW i \in 1 .. n + 1, NEW j \in 1 .. n + 1, i <= j
        PROVE  Start(list[i]) <= Start(list[j])
    <3>1. CASE j = n + 1
      BY <1>5, <1>7, <2>2, <3>1
    <3>2. CASE j \in 1 .. n
      <4>1. i \in 1 .. n
        BY <1>1, <2>3, <3>2
      <4> QED BY <1>5, <1>9, <2>3, <3>2, <4>1 DEF Good, FlagsSound
    <3> QED BY <1>1, <2>3, <3>1, <3>2
  <2> QED BY <1>5, <1>6, <1>7, <2>1, <2>2, <2>3 DEF FlagsSound
<1>10. FlagsSound(p)
  BY <1>9 DEF FlagsSound
<1>11. Len(p.backup_list) <= NumBackups
  BY <1>1, <1>5, <1>6, BackupAssumption
<1> QED BY <1>6, <1>7, <1>10, <1>11 DEF Good, p

\* A backup is taken as a whole or not at all: where it fails, the list is as
\* it was.
LEMMA NewBackupGood ==
    ASSUME NEW m, Good(m), NEW new_elem_count \in 0 .. SIZE_MAX, NEW flags \in BOOLEAN
    PROVE  GoodResult(zcbor_new_backup_w_elem_state(m, new_elem_count, flags))
<1> DEFINE with_flags == SmartSearch /\ flags
           p == Pushed(m, new_elem_count, with_flags)
           r == zcbor_new_backup_w_elem_state(m, new_elem_count, flags)
<1>1. /\ Len(m.backup_list) \in Nat /\ NumBackups \in Nat /\ with_flags \in BOOLEAN
  BY GoodType, BackupAssumption
<1>2. "NO_BACKUP_MEM" \in Errors
  BY DEF Errors
<1>3. /\ GoodResult(do_elem_state_backup(m, TRUE))
      /\ do_elem_state_backup(m, TRUE).ok <=> RoomForCopy(m.state)
  BY ElemStateBackupGood
<1> HIDE DEF with_flags, p
<1>4. CASE ~zcbor_check_error(m)
  BY <1>4, ResultGood DEF zcbor_new_backup_w_elem_state
<1>5. CASE zcbor_check_error(m) /\ Len(m.backup_list) >= NumBackups
  BY <1>2, <1>5, ErrGood DEF zcbor_new_backup_w_elem_state
<1>6. CASE zcbor_check_error(m) /\ ~(Len(m.backup_list) >= NumBackups)
  <2>1. CASE with_flags /\ ~RoomForCopy(m.state)
    BY <1>3, <1>6, <2>1 DEF zcbor_new_backup_w_elem_state, with_flags
  <2>2. CASE with_flags => RoomForCopy(m.state)
    <3>1. Good(p)
      BY <1>1, <1>6, <2>2, PushedGood DEF p
    <3>2. GoodResult(do_elem_state_backup(p, FALSE)) /\ GoodResult(Success(p))
      BY <3>1, ElemStateBackupGood, ResultGood
    <3>3. r = IF with_flags THEN do_elem_state_backup(p, FALSE) ELSE Success(p)
      BY <1>3, <1>6, <2>2 DEF zcbor_new_backup_w_elem_state, with_flags, p
    <3> QED BY <3>2, <3>3
  <2> QED BY <2>1, <2>2
<1> QED BY <1>4, <1>5, <1>6

\* The state of a backup, with its flags copied if the backup stays: this
\* cannot fail, the room was there when the backup was taken.
LEMMA RestoreFromType ==
    ASSUME NEW m, Good(m), NEW num \in 1 .. Len(m.backup_list), NEW consume \in BOOLEAN
    PROVE  LET r == RestoreFrom(m, m.backup_list[num], consume) IN
           /\ r.ok = TRUE
           /\ r.m \in Machine
           /\ r.m.backup_list = m.backup_list
           /\ consume => r.m = [m EXCEPT !.state = m.backup_list[num]]
           /\ SmartSearch => /\ Start(m.backup_list[num]) <= Start(r.m.state)
                             /\ FlagEnd(r.m.state) <= FlagBytes
<1> DEFINE backup == m.backup_list[num]
           restored == [m EXCEPT !.state = backup]
           copied == SmartSearch /\ ~consume /\ backup.decode_state.elem_state_backed_up
           r == RestoreFrom(m, backup, consume)
<1>1. backup \in Cursor /\ m \in Machine
  BY GoodType
<1>2. SmartSearch => /\ FlagEnd(backup) <= FlagBytes
                     /\ backup.decode_state.elem_state_backed_up => RoomForCopy(backup)
  BY DEF Good, FlagsSound
<1>3. Start(backup) <= Start(backup) /\ Start(backup) <= FlagEnd(backup)
  BY <1>1, FlagEndType, FlagAssumption
<1> HIDE DEF backup
<1>4. restored \in Machine /\ restored.state = backup
        /\ restored.backup_list = m.backup_list
  BY <1>1 DEF Machine
<1> HIDE DEF restored
<1>5. CASE copied
  <2>1. r = do_elem_state_backup(restored, FALSE)
    BY <1>5 DEF RestoreFrom, restored
  <2>2. RoomForCopy(restored.state)
    BY <1>2, <1>4, <1>5
  <2>3. FlagEnd(backup) + FlagLen(backup) <= FlagBytes
    BY <1>4, <2>2 DEF RoomForCopy
  <2> QED BY <1>3, <1>4, <1>5, <2>1, <2>2, <2>3, FlagsCopied DEF backup
<1>6. CASE ~copied
  <2>1. r = Success(restored)
    BY <1>6 DEF RestoreFrom, restored
  <2> HIDE DEF r
  <2>2. r.ok = TRUE /\ r.m = restored
    BY <2>1 DEF Success
  <2> QED BY <1>2, <1>3, <1>4, <2>2 DEF restored, r, backup
<1> QED BY <1>5, <1>6

LEMMA RestoreTopGood ==
    ASSUME NEW m, Good(m), m.backup_list # << >>, NEW consume \in BOOLEAN
    PROVE  LET n == Len(m.backup_list)
               r == RestoreFrom(m, m.backup_list[n], consume)
           IN  /\ GoodResult(r) /\ r.ok = TRUE
               /\ r.m.backup_list = m.backup_list
               /\ consume => r.m.state = m.backup_list[n]
<1> DEFINE n == Len(m.backup_list)
           backup == m.backup_list[n]
           r == RestoreFrom(m, backup, consume)
<1>1. m \in Machine /\ m.backup_list \in Seq(Cursor) /\ n \in Nat /\ n <= NumBackups
        /\ \A i \in 1 .. n : m.backup_list[i] \in Cursor
  BY GoodType, BackupAssumption
<1>2. n \in 1 .. n
  BY <1>1, EmptySeq
<1>3. /\ r.ok = TRUE /\ r.m \in Machine /\ r.m.backup_list = m.backup_list
      /\ consume => r.m = [m EXCEPT !.state = backup]
      /\ SmartSearch => Start(backup) <= Start(r.m.state) /\ FlagEnd(r.m.state) <= FlagBytes
  BY <1>2, RestoreFromType
<1>4. [m EXCEPT !.state = backup].state = backup
  BY <1>1 DEF Machine
<1> HIDE DEF r, n, backup
<1>5. Start(r.m.state) \in Int
  BY <1>3, FlagEndType, FlagAssumption DEF Machine
<1>6. ASSUME SmartSearch, NEW i \in 1 .. n
      PROVE  Start(m.backup_list[i]) <= Start(r.m.state)
  <2>1. Start(m.backup_list[i]) <= Start(backup)
    BY <1>1, <1>2, <1>6 DEF Good, FlagsSound, backup, n
  <2>2. Start(m.backup_list[i]) \in Int /\ Start(backup) \in Int
    <3>1. m.backup_list[i] \in Cursor /\ backup \in Cursor
      BY <1>1, <1>2 DEF backup
    <3>2. \A c \in Cursor : Start(c) \in Int
      BY FlagEndType, FlagAssumption
    <3> QED BY <3>1, <3>2
  <2> QED BY <1>3, <1>5, <1>6, <2>1, <2>2
<1>7. FlagsSound(r.m)
  BY <1>3, <1>6 DEF Good, FlagsSound, n
<1> QED BY <1>1, <1>3, <1>4, <1>7 DEF Good, GoodResult, r, n, backup

\* Giving up the top backup leaves the list shorter and the rest of it as it was.
LEMMA ShorterList ==
    ASSUME NEW m, Good(m), m.backup_list # << >>
    PROVE  LET n == Len(m.backup_list)
               list == SubSeq(m.backup_list, 1, n - 1)
           IN  /\ n \in 1 .. n /\ n \in Nat
               /\ list \in Seq(Cursor) /\ Len(list) = n - 1
               /\ \A i \in 1 .. n - 1 : list[i] = m.backup_list[i]
<1> DEFINE n == Len(m.backup_list)
<1>1. m.backup_list \in Seq(Cursor) /\ n \in Nat
  BY GoodType
<1>2. n # 0
  BY <1>1, EmptySeq
<1> QED BY <1>1, <1>2, SubSeqProperties

\* The flags may also move back, but no further than the backup given up.
LEMMA PoppedGood ==
    ASSUME NEW m, Good(m), m.backup_list # << >>, NEW mm \in Machine,
           mm.backup_list = SubSeq(m.backup_list, 1, Len(m.backup_list) - 1),
           SmartSearch => /\ Start(m.backup_list[Len(m.backup_list)]) <= Start(mm.state)
                          /\ FlagEnd(mm.state) <= FlagBytes
    PROVE  Good(mm)
<1> DEFINE n == Len(m.backup_list)
           list == mm.backup_list
<1>1. /\ n \in 1 .. n /\ n \in Nat /\ n <= NumBackups
      /\ Len(list) = n - 1
      /\ \A i \in 1 .. n - 1 : list[i] = m.backup_list[i]
  BY ShorterList, GoodType
<1>2. Start(mm.state) \in Int /\ \A i \in 1 .. n : Start(m.backup_list[i]) \in Int
  <2>1. mm.state \in Cursor /\ \A i \in 1 .. n : m.backup_list[i] \in Cursor
    BY GoodType DEF Machine
  <2>2. \A c \in Cursor : Start(c) \in Int
    BY FlagEndType, FlagAssumption
  <2> QED BY <2>1, <2>2
<1> HIDE DEF n, list
<1>3. ASSUME SmartSearch, NEW i \in 1 .. n - 1
      PROVE  /\ FlagEnd(list[i]) <= FlagBytes
             /\ list[i].decode_state.elem_state_backed_up => RoomForCopy(list[i])
             /\ Start(list[i]) <= Start(mm.state)
  <2>1. i \in 1 .. n /\ i <= n
    BY <1>1
  <2>2. Start(m.backup_list[i]) <= Start(m.backup_list[n])
    BY <1>1, <1>3, <2>1 DEF Good, FlagsSound, n
  <2>3. Start(list[i]) <= Start(mm.state)
    <3>1. Start(m.backup_list[n]) <= Start(mm.state)
      BY <1>3 DEF n
    <3>2. /\ list[i] = m.backup_list[i] /\ Start(mm.state) \in Int
          /\ Start(m.backup_list[i]) \in Int /\ Start(m.backup_list[n]) \in Int
      BY <1>1, <1>2, <2>1
    <3> QED BY ONLY <2>2, <3>1, <3>2
  <2>4. /\ FlagEnd(m.backup_list[i]) <= FlagBytes
        /\ m.backup_list[i].decode_state.elem_state_backed_up
             => RoomForCopy(m.backup_list[i])
    BY <1>3, <2>1 DEF Good, FlagsSound, n
  <2>5. list[i] = m.backup_list[i]
    BY <1>1, <1>3
  <2> QED BY <2>3, <2>4, <2>5
<1>4. ASSUME SmartSearch, NEW i \in 1 .. n - 1, NEW j \in 1 .. n - 1, i <= j
      PROVE  Start(list[i]) <= Start(list[j])
  <2>1. i \in 1 .. n /\ j \in 1 .. n
    BY <1>1
  <2> QED BY <1>1, <1>4, <2>1 DEF Good, FlagsSound, n
<1>5. FlagsSound(mm)
  BY <1>1, <1>3, <1>4 DEF FlagsSound, list
<1>6. Len(mm.backup_list) <= NumBackups
  BY <1>1, BackupAssumption DEF list
<1> QED BY <1>5, <1>6 DEF Good

LEMMA ConsumeTopGood ==
    ASSUME NEW m, Good(m), m.backup_list # << >>, NEW restore \in BOOLEAN
    PROVE  LET top == m.backup_list[Len(m.backup_list)] IN
           Good(ConsumeTop(m, top, restore))
<1> DEFINE n == Len(m.backup_list)
           top == m.backup_list[n]
           list == SubSeq(m.backup_list, 1, n - 1)
           flags == Start(m.state)
           target == Start(top)
           len == FlagLen(m.state)
           mem == Memmove(m.mem, target, flags, len)
           moved == [m EXCEPT !.mem = mem,
                              !.state.decode_state.map_search_elem_state = target]
           discard == SmartSearch /\ ~restore /\ top.decode_state.elem_state_backed_up
           mm == ConsumeTop(m, top, restore)
<1>1. /\ m \in Machine /\ m.state \in Cursor /\ n \in 1 .. n /\ top \in Cursor
      /\ m.mem \in [Address -> Byte]
  BY GoodType, ShorterList
<1>2. /\ flags \in 0 .. FlagBytes /\ target \in 0 .. FlagBytes /\ len \in Nat
      /\ FlagEnd(m.state) = flags + len
  BY <1>1, FlagEndType
<1>3. list \in Seq(Cursor)
  BY ShorterList
<1>4. SmartSearch => target <= flags /\ FlagEnd(m.state) <= FlagBytes
  BY <1>1 DEF Good, FlagsSound
<1>5. CASE ~discard
  <2>1. mm = [m EXCEPT !.backup_list = list]
    BY <1>5 DEF ConsumeTop
  <2> HIDE DEF list, mm, top, n
  <2>2. mm \in Machine /\ mm.state = m.state /\ mm.backup_list = list
    BY <1>1, <1>3, <2>1 DEF Machine
  <2> QED BY <1>4, <2>2, PoppedGood DEF mm, list, top, n
<1>6. CASE discard
  <2>1. mm = [moved EXCEPT !.backup_list = SubSeq(moved.backup_list, 1, Len(moved.backup_list) - 1)]
    BY <1>6 DEF ConsumeTop, discard_elem_state_backup, Start
  <2>2. flags + len <= FlagBytes /\ flags \in Nat /\ target \in Nat
    BY <1>2, <1>4, <1>6, FlagAssumption
  <2>3. mem \in [Address -> Byte]
    <3> HIDE DEF flags, target, len
    <3> QED BY <1>1, <1>2, <2>2, MemmoveType
  <2> HIDE DEF mem, target, flags
  <2>4. /\ moved \in Machine
        /\ moved.backup_list = m.backup_list
        /\ moved.state.decode_state.map_elem_count = m.state.decode_state.map_elem_count
        /\ Start(moved.state) = target
    BY <1>1, <1>2, <2>3 DEF Machine, Cursor, DecodeState, Start
  <2> HIDE DEF moved, mm, list
  <2>5. mm \in Machine /\ mm.state = moved.state /\ mm.backup_list = list
    BY <1>3, <2>1, <2>4 DEF Machine, list
  <2>6. FlagEnd(mm.state) = target + len
    BY <2>4, <2>5 DEF FlagEnd, FlagLen, Start
  <2>7. target <= Start(mm.state) /\ FlagEnd(mm.state) <= FlagBytes
    BY <1>2, <1>4, <1>6, <2>4, <2>5, <2>6, FlagAssumption
  <2>8. Good(mm)
    BY <2>5, <2>7, PoppedGood DEF list, target
  <2> QED BY <2>8 DEF mm
<1> QED BY <1>5, <1>6

\* An operation on the top backup, for the flags the library passes: back to
\* the backup, giving it up, or both, with or without the payload.
LEMMA ProcessTopGood ==
    ASSUME NEW m, Good(m), NEW flags, "KEEP_DECODE_STATE" \notin flags
    PROVE  /\ GoodResult(zcbor_process_backup(m, flags))
           /\ (m.backup_list # << >> /\ zcbor_check_error(m)
                 /\ ~m.backup_list[Len(m.backup_list)].payload_moved)
                => zcbor_process_backup(m, flags).ok
<1>1. {"NO_BACKUP_ACTIVE", "BAD_ARG", "PAYLOAD_OUTDATED"} \subseteq Errors
  BY DEF Errors
<1>2. CASE m.backup_list = << >>
  BY <1>1, <1>2, ErrGood DEF zcbor_process_backup
<1>3. CASE m.backup_list # << >>
  <2> DEFINE n == Len(m.backup_list)
             restore == "RESTORE" \in flags
             consume == "CONSUME" \in flags
             backup  == m.backup_list[n]
             r == IF restore THEN RestoreFrom(m, backup, consume) ELSE Success(m)
             c == IF consume THEN ConsumeTop(r.m, backup, restore) ELSE r.m
             p == IF "KEEP_PAYLOAD" \in flags
                  THEN [c EXCEPT !.state.payload = m.state.payload] ELSE c
             result == zcbor_process_backup(m, flags)
  <2>1. n \in Nat /\ n # 0 /\ m.state.payload \in 0 .. MaxPayload
    BY <1>3, ShorterList, GoodType DEF Cursor
  <2>2. /\ GoodResult(r) /\ r.ok = TRUE
        /\ r.m.backup_list = m.backup_list
    <3>1. consume \in BOOLEAN
      OBVIOUS
    <3> HIDE DEF consume
    <3>2. CASE restore
      <4>1. r = RestoreFrom(m, backup, consume)
        BY <3>2
      <4> HIDE DEF r
      <4> QED BY <1>3, <3>1, <4>1, RestoreTopGood
    <3>3. CASE ~restore
      <4>1. r = Success(m)
        BY <3>3
      <4>2. Success(m).m.backup_list = m.backup_list
        BY ResultGood
      <4> HIDE DEF r
      <4> QED BY <4>1, <4>2, ResultGood
    <3> QED BY <3>2, <3>3
  <2> HIDE DEF r
  <2>3. Good(c)
    <3>1. Good(r.m)
      BY <2>2 DEF GoodResult
    <3>2. restore \in BOOLEAN
      OBVIOUS
    <3> HIDE DEF restore
    <3>3. Good(ConsumeTop(r.m, backup, restore))
      BY <1>3, <2>2, <3>1, <3>2, ConsumeTopGood
    <3> QED BY <3>1, <3>3
  <2> HIDE DEF c
  <2>4. Good(c) /\ c \in Machine
    BY <2>3, GoodType
  <2>5. Good(p)
    <3>1. CASE "KEEP_PAYLOAD" \in flags
      <4>1. /\ p \in Machine /\ p.backup_list = c.backup_list
            /\ p.state.decode_state = c.state.decode_state
        BY <2>1, <2>4, <3>1 DEF Machine, Cursor
      <4> QED BY <2>4, <4>1, SameFlags DEF Start
    <3>2. CASE "KEEP_PAYLOAD" \notin flags
      BY <2>4, <3>2
    <3> QED BY <3>1, <3>2
  <2> HIDE DEF p
  <2>6. CASE ~zcbor_check_error(m)
    BY <1>3, <2>6, ResultGood DEF zcbor_process_backup, zcbor_process_backup_num
  <2>7. CASE zcbor_check_error(m)
    <3>1. ~(\/ n = 0 \/ n > n
            \/ consume /\ ("KEEP_DECODE_STATE" \in flags \/ n # n))
      BY <2>1
    <3>2. result = IF restore /\ "KEEP_PAYLOAD" \notin flags /\ backup.payload_moved
                   THEN Err(m, "PAYLOAD_OUTDATED") ELSE Success(p)
      BY <1>3, <2>2, <2>7, <3>1 DEF zcbor_process_backup, zcbor_process_backup_num, r, c, p
    <3>3. GoodResult(Success(p)) /\ Success(p).ok = TRUE
      BY <2>5, ResultGood
    <3>4. GoodResult(Err(m, "PAYLOAD_OUTDATED"))
      BY <1>1, ErrGood
    <3> HIDE DEF result, n, backup
    <3> QED BY <3>2, <3>3, <3>4 DEF result, n, backup
  <2> QED BY <2>6, <2>7
<1> QED BY <1>2, <1>3

\* Updates of the state that leave its flags where they are.
LEMMA StateUpdateGood ==
    ASSUME NEW m, Good(m), NEW c \in Cursor,
           c.decode_state.map_elem_count = m.state.decode_state.map_elem_count,
           Start(c) = Start(m.state)
    PROVE  /\ Good([m EXCEPT !.state = c])
           /\ [m EXCEPT !.state = c].state = c
           /\ [m EXCEPT !.state = c].backup_list = m.backup_list
<1>1. m \in Machine
  BY GoodType
<1>2. /\ [m EXCEPT !.state = c] \in Machine
      /\ [m EXCEPT !.state = c].state = c
      /\ [m EXCEPT !.state = c].backup_list = m.backup_list
  BY <1>1 DEF Machine
<1> QED BY <1>2, SameFlags

\* Back to an earlier backup's place in the payload, but not to its flags.
LEMMA PlaceRestored ==
    ASSUME NEW m, Good(m), NEW num \in Nat
    PROVE  GoodResult(zcbor_process_backup_num(m, {"RESTORE", "KEEP_DECODE_STATE"}, num))
<1> DEFINE flags == {"RESTORE", "KEEP_DECODE_STATE"}
           backup == m.backup_list[num]
           consume == "CONSUME" \in flags
           r == RestoreFrom(m, backup, consume)
           p == [r.m EXCEPT !.state.decode_state = m.state.decode_state]
           result == zcbor_process_backup_num(m, flags, num)
<1>1. {"BAD_ARG", "PAYLOAD_OUTDATED"} \subseteq Errors
  BY DEF Errors
<1>2. m.state.decode_state \in DecodeState /\ Len(m.backup_list) \in Nat
  BY GoodType
<1>3. /\ "RESTORE" \in flags /\ "CONSUME" \notin flags /\ "KEEP_PAYLOAD" \notin flags
      /\ "KEEP_DECODE_STATE" \in flags
  OBVIOUS
<1> HIDE DEF flags
<1>4. CASE ~zcbor_check_error(m)
  BY <1>4, ResultGood DEF zcbor_process_backup_num
<1>5. CASE zcbor_check_error(m) /\ (num = 0 \/ num > Len(m.backup_list))
  BY <1>1, <1>5, ErrGood DEF zcbor_process_backup_num
<1>6. CASE zcbor_check_error(m) /\ ~(num = 0 \/ num > Len(m.backup_list))
  <2>1. num \in 1 .. Len(m.backup_list)
    BY <1>2, <1>6
  <2>2. r.ok = TRUE /\ r.m \in Machine /\ r.m.backup_list = m.backup_list
    <3>1. consume \in BOOLEAN
      OBVIOUS
    <3> HIDE DEF consume
    <3> QED BY <2>1, <3>1, RestoreFromType
  <2>3. result = IF backup.payload_moved THEN Err(m, "PAYLOAD_OUTDATED") ELSE Success(p)
    BY <1>3, <1>6, <2>2 DEF zcbor_process_backup_num
  <2> HIDE DEF r, result
  <2>4. /\ p \in Machine /\ p.backup_list = m.backup_list
        /\ p.state.decode_state = m.state.decode_state
    BY <1>2, <2>2 DEF Machine, Cursor
  <2>5. Good(p)
    BY <2>4, SameFlags DEF Start
  <2> HIDE DEF p, backup
  <2>6. GoodResult(result)
    BY <1>1, <2>3, <2>5, ErrGood, ResultGood
  <2> QED BY <2>6 DEF result, flags
<1> QED BY <1>4, <1>5, <1>6 DEF flags

\* A map has at most twice as many items as its count, and as a size_t holds.
LEMMA MaxElemCountType ==
    ASSUME NEW s \in Cursor
    PROVE  zcbor_current_max_elem_count(s) \in 0 .. SIZE_MAX
<1>1. s.decode_state.map_elem_count \in 0 .. SIZE_MAX \div 2
  BY DEF Cursor, DecodeState
<1> QED BY <1>1, SizeAssumption DEF zcbor_current_max_elem_count, ZCBOR_LARGE_ELEM_COUNT

LEMMA MapRestartGood ==
    ASSUME NEW m, Good(m)
    PROVE  GoodResult(handle_map_end(m)) /\ GoodResult(map_restart(m))
<1>1. ASSUME NEW mm, Good(mm) PROVE GoodResult(map_restart(mm))
  <2> DEFINE num == mm.state.decode_state.map_start_backup_num
             r == zcbor_process_backup_num(mm, {"RESTORE", "KEEP_DECODE_STATE"}, num)
             max == zcbor_current_max_elem_count(r.m.state)
             c == [r.m.state EXCEPT !.elem_count = max]
  <2>1. num \in Nat
    BY <1>1, GoodType, BackupAssumption DEF DecodeState
  <2>2. GoodResult(r)
    BY <1>1, <2>1, PlaceRestored
  <2> HIDE DEF r
  <2>3. Good(r.m) /\ r.m.state \in Cursor
    BY <2>2, GoodType DEF GoodResult
  <2>4. max \in 0 .. SIZE_MAX
    BY <2>3, MaxElemCountType
  <2> HIDE DEF max
  <2>5. c \in Cursor /\ c.decode_state = r.m.state.decode_state
    BY <2>3, <2>4 DEF Cursor
  <2>6. [r.m EXCEPT !.state.elem_count = max] = [r.m EXCEPT !.state = c]
    OBVIOUS
  <2> HIDE DEF c
  <2>7. GoodResult(Success([r.m EXCEPT !.state.elem_count = max]))
    BY <2>3, <2>5, <2>6, StateUpdateGood, ResultGood DEF Start
  <2> QED BY <2>2, <2>7 DEF map_restart, AllElements, r, num, max
<1>2. GoodResult(handle_map_end(m))
  <2> DEFINE c == [m.state EXCEPT !.decode_state.counting_map_elems = FALSE]
  <2>1. m.state \in Cursor
    BY GoodType
  <2>2. /\ c \in Cursor /\ Start(c) = Start(m.state)
        /\ c.decode_state.map_elem_count = m.state.decode_state.map_elem_count
    BY <2>1 DEF Cursor, DecodeState, Start
  <2>3. Good([m EXCEPT !.state = c])
    BY <2>2, StateUpdateGood
  <2> QED BY <1>1, <2>3 DEF handle_map_end
<1> QED BY <1>1, <1>2

-----------------------------------------------------------------------------
(* The flags of a map that is entered, or grows.                           *)

\* Past the enclosing map's flags, none are in use.
LEMMA ExitMapGood ==
    ASSUME NEW m, Good(m)
    PROVE  GoodResult(exit_map(m))
<1> DEFINE end == FlagEnd(m.state)
           smart == [m EXCEPT !.state.decode_state.map_search_elem_state = end,
                              !.state.decode_state.map_elem_count = 0]
           plain == [m EXCEPT !.state.decode_state.map_elems_processed = 0,
                              !.state.decode_state.map_elem_count = 0]
<1>1. /\ m \in Machine /\ m.state \in Cursor
      /\ Start(m.state) <= end /\ end \in Nat
      /\ FlagEnd(m.state) <= FlagBytes \/ FlagEnd(m.state) > FlagBytes
  BY GoodType, FlagEndType, FlagAssumption
<1>2. "MAP_FLAGS_NOT_AVAILABLE" \in Errors
  BY DEF Errors
<1>3. 0 \in 0 .. SIZE_MAX \div 2 /\ 0 \in 0 .. SIZE_MAX
  BY SizeAssumption
<1>4. CASE SmartSearch /\ end > FlagBytes
  BY <1>2, <1>4, ErrGood DEF exit_map
<1>5. CASE SmartSearch /\ ~(end > FlagBytes)
  <2>1. end \in 0 .. FlagBytes /\ end <= FlagBytes
    BY <1>1, <1>5
  <2>2. exit_map(m) = Success(smart)
    BY <1>5 DEF exit_map
  <2> HIDE DEF end
  <2>3. /\ smart \in Machine /\ smart.backup_list = m.backup_list
        /\ smart.state.decode_state.map_elem_count = 0 /\ Start(smart.state) = end
    BY <1>1, <1>3, <2>1 DEF Machine, Cursor, DecodeState, Start
  <2> HIDE DEF smart
  <2>4. FlagEnd(smart.state) = end
    BY <2>1, <2>3, FlagsToBytesZero, FlagAssumption DEF FlagEnd, FlagLen, Start
  <2>5. Good(smart)
    BY <1>1, <2>1, <2>3, <2>4, FlagsMovedUp
  <2> QED BY <2>2, <2>5, ResultGood
<1>6. CASE ~SmartSearch
  <2>1. exit_map(m) = Success(plain)
    BY <1>6 DEF exit_map
  <2>2. plain \in Machine
    BY <1>1, <1>3 DEF Machine, Cursor, DecodeState
  <2>3. plain.backup_list = m.backup_list
    BY <1>1 DEF Machine
  <2> HIDE DEF plain
  <2>4. Good(plain)
    BY <1>6, <2>2, <2>3, FlagsMovedUp
  <2> QED BY <2>1, <2>4, ResultGood
<1> QED BY <1>4, <1>5, <1>6

\* The count that is left when the flags run out is the one the buffer holds,
\* and no more than was asked for.
LEMMA GrowMapGood ==
    ASSUME NEW m, Good(m), NEW elem_count \in 0 .. SIZE_MAX
    PROVE  GoodResult(GrowMap(m, elem_count))
<1> DEFINE old == m.state.decode_state.map_elem_count
           new == IF elem_count \div 2 > old THEN elem_count \div 2 ELSE old
           Sized(n) == [m EXCEPT !.state.decode_state.map_elem_count = n]
           flags == Start(m.state)
           left == BitsPerByte * (FlagBytes - flags)
           grown == Sized(new)
<1>1. /\ m \in Machine /\ m.state \in Cursor /\ flags \in 0 .. FlagBytes
      /\ m.mem \in [Address -> Byte]
      /\ old \in 0 .. SIZE_MAX \div 2
  BY GoodType, FlagEndType DEF DecodeState
<1>2. new \in 0 .. SIZE_MAX \div 2 /\ new \in Nat
  <2>1. elem_count \div 2 \in 0 .. SIZE_MAX \div 2
    BY SizeAssumption
  <2> QED BY <1>1, <2>1, SizeAssumption
<1> HIDE DEF new
<1>3. ASSUME NEW n \in 0 .. SIZE_MAX \div 2
      PROVE  /\ Sized(n) \in Machine
             /\ Sized(n).backup_list = m.backup_list
             /\ Sized(n).mem = m.mem
             /\ Sized(n).state.decode_state.map_elem_count = n
             /\ Start(Sized(n).state) = flags
  BY <1>1, <1>3 DEF Machine, Cursor, DecodeState, Start
<1> HIDE DEF Sized
<1>4. ASSUME NEW n \in 0 .. SIZE_MAX \div 2, SmartSearch => flags + FlagsToBytes(n) <= FlagBytes
      PROVE  Good(Sized(n))
  <2>1. Start(m.state) <= Start(Sized(n).state)
    BY <1>1, <1>3, FlagAssumption
  <2>2. FlagEnd(Sized(n).state) = flags + FlagsToBytes(n)
    BY <1>3 DEF FlagEnd, FlagLen, Start
  <2> QED BY <1>3, <1>4, <2>1, <2>2, FlagsMovedUp
<1>5. CASE ~SmartSearch
  <2>1. GrowMap(m, elem_count) = Success(grown)
    BY <1>5 DEF GrowMap, new, Sized
  <2>2. Good(grown)
    BY <1>2, <1>4, <1>5
  <2> HIDE DEF grown
  <2> QED BY <2>1, <2>2, ResultGood
<1>6. CASE SmartSearch
  <2> DEFINE oldlen == FlagsToBytes(old)
             newlen == FlagsToBytes(new)
             mem == [a \in DOMAIN grown.mem |-> IF a \in flags + oldlen .. flags + newlen - 1
                                                THEN Bit ELSE grown.mem[a]]
             full == [grown EXCEPT !.mem = mem]
             few == [grown EXCEPT !.state.decode_state.map_elem_count = left]
  <2>1. /\ oldlen \in Nat /\ newlen \in Nat
        /\ FlagEnd(m.state) = flags + oldlen
    <3>1. old \in Nat
      BY <1>1, SizeAssumption
    <3>2. oldlen \in Nat /\ newlen \in Nat
      BY <1>2, <3>1, FlagsToBytesType
    <3>3. FlagEnd(m.state) = flags + oldlen
      BY DEF FlagEnd, FlagLen, Start
    <3> QED BY <3>2, <3>3
  <2>2. /\ grown \in Machine /\ grown.mem = m.mem /\ Start(grown.state) = flags
        /\ grown.backup_list = m.backup_list
        /\ grown.state.decode_state.map_elem_count = new
        /\ FlagLen(grown.state) = newlen
    <3>1. /\ grown \in Machine /\ grown.mem = m.mem /\ Start(grown.state) = flags
          /\ grown.backup_list = m.backup_list
          /\ grown.state.decode_state.map_elem_count = new
      BY <1>2, <1>3
    <3> HIDE DEF grown
    <3>2. FlagLen(grown.state) = newlen
      BY <3>1 DEF FlagLen
    <3> QED BY <3>1, <3>2
  <2>3. GrowMap(m, elem_count) =
          IF newlen = oldlen THEN Success(grown)
          ELSE IF flags + newlen > FlagBytes THEN Err(few, "MAP_FLAGS_NOT_AVAILABLE")
          ELSE Success(full)
    <3>1. GrowMap(m, elem_count) = allocate_map_flags(grown, old)
      BY <1>6 DEF GrowMap, new, Sized
    <3> HIDE DEF grown, new, flags
    <3>2. grown.state.decode_state.map_search_elem_state = flags
      BY <2>2 DEF Start
    <3> QED BY <2>2, <3>1, <3>2 DEF allocate_map_flags
  <2>4. CASE newlen = oldlen
    <3>1. flags + newlen <= FlagBytes
      BY <1>6, <2>1, <2>4 DEF Good, FlagsSound
    <3>2. Good(grown)
      BY <1>2, <1>4, <3>1
    <3> HIDE DEF grown, newlen, oldlen, full, few
    <3> QED BY <2>3, <2>4, <3>2, ResultGood
  <2>5. CASE newlen # oldlen /\ flags + newlen > FlagBytes
    <3>1. /\ FlagBytes - flags \in Nat /\ newlen > FlagBytes - flags
          /\ flags + (FlagBytes - flags) = FlagBytes
      BY <1>1, <2>1, <2>5, FlagAssumption
    <3>2. /\ left \in Int /\ 0 <= left /\ left <= new
          /\ FlagsToBytes(left) = FlagBytes - flags
      <4>1. left <= new
        BY <1>2, <3>1, FlagsToBytesAbove
      <4>2. left \in Nat
        BY <3>1, FlagAssumption
      <4>3. FlagsToBytes(left) = FlagBytes - flags
        BY <3>1, FlagsToBytesExact
      <4> QED BY <4>1, <4>2, <4>3
    <3> HIDE DEF left, flags
    <3>3. left \in 0 .. SIZE_MAX \div 2
      BY <1>2, <3>2, SizeAssumption
    <3>4. Good(Sized(left))
      BY <1>4, <3>1, <3>2, <3>3, FlagAssumption
    <3>5. few = Sized(left)
      BY <1>1 DEF Sized, Machine, Cursor, DecodeState
    <3>6. "MAP_FLAGS_NOT_AVAILABLE" \in Errors
      BY DEF Errors
    <3> HIDE DEF few, newlen, oldlen
    <3> QED BY <2>3, <2>5, <3>4, <3>5, <3>6, ErrGood
  <2>6. CASE newlen # oldlen /\ ~(flags + newlen > FlagBytes)
    <3>1. flags + newlen <= FlagBytes
      BY <1>1, <2>1, <2>6, FlagAssumption
    <3>2. Good(grown)
      BY <1>2, <1>4, <3>1
    <3>3. mem \in [Address -> Byte]
      BY <1>1, <2>2
    <3> HIDE DEF mem, grown
    <3>4. full \in Machine /\ full.state = grown.state /\ full.backup_list = grown.backup_list
      BY <2>2, <3>3 DEF Machine
    <3> HIDE DEF full
    <3>5. Good(full)
      BY <3>2, <3>4, SameFlags
    <3> HIDE DEF few, newlen, oldlen
    <3> QED BY <2>3, <2>6, <3>5, ResultGood
  <2> QED BY <2>4, <2>5, <2>6
<1> QED BY <1>5, <1>6

-----------------------------------------------------------------------------
(* Lists, maps and strings.                                                *)

LEMMA ListMapStartGood ==
    ASSUME NEW m, Good(m), NEW h \in HeaderSet, NEW type
    PROVE  GoodResult(list_map_start_decode(m, h, type))
<1> DEFINE indef == h.additional = INDEFINITE
           t == type_check(m, h, type)
           v == value_extract(m, h, SIZEOF_SIZE_T, TRUE)
           count == IF indef THEN ZCBOR_LARGE_ELEM_COUNT ELSE h.value
           b == zcbor_new_backup(v.m, count)
           c == [b.m.state EXCEPT
                   !.decode_state.map_start_backup_num = Len(b.m.backup_list),
                   !.decode_state.indefinite_length_array = indef]
           entered == [b.m EXCEPT !.state = c]
<1>1. GoodResult(t)
  BY TypeCheckGood
<1>2. GoodResult(v) /\ Good(v.m)
  BY ValueExtractGood DEF SIZEOF_SIZE_T, GoodResult
<1> HIDE DEF v
<1>3. count \in 0 .. SIZE_MAX
  BY SizeAssumption DEF HeaderSet, ZCBOR_LARGE_ELEM_COUNT
<1> HIDE DEF count
<1>4. GoodResult(b) /\ Good(b.m)
  BY <1>2, <1>3, NewBackupGood DEF zcbor_new_backup, GoodResult
<1> HIDE DEF b
<1>5. GoodResult(FAIL_RESTORE(b.m))
  <2>1. "BAD_ARG" \in Errors
    BY DEF Errors
  <2> QED BY <1>4, <2>1, RestoreGood
<1>6. /\ b.m.state \in Cursor /\ Len(b.m.backup_list) \in 0 .. NumBackups
      /\ indef \in BOOLEAN
  BY <1>4, GoodType
<1>7. /\ c \in Cursor /\ Start(c) = Start(b.m.state)
      /\ c.decode_state.map_elem_count = b.m.state.decode_state.map_elem_count
  BY <1>6 DEF Cursor, DecodeState, Start
<1>8. entered = [b.m EXCEPT
               !.state.decode_state.map_start_backup_num = Len(b.m.backup_list),
               !.state.decode_state.indefinite_length_array = indef]
  BY <1>4, <1>6, GoodType DEF Machine, Cursor, DecodeState
<1> HIDE DEF c
<1>9. Good(entered)
  BY <1>4, <1>7, StateUpdateGood
<1> HIDE DEF entered
<1>10. GoodResult(exit_map(entered))
  BY <1>9, ExitMapGood
<1>11. list_map_start_decode(m, h, type) =
         IF ~t.ok THEN t ELSE IF ~v.ok THEN v
         ELSE IF ~b.ok THEN FAIL_RESTORE(b.m) ELSE exit_map(entered)
  BY <1>8 DEF list_map_start_decode, v, b, count
<1> HIDE DEF t, indef
<1> QED BY <1>1, <1>2, <1>5, <1>10, <1>11

LEMMA MapStartGood ==
    ASSUME NEW m, Good(m), NEW h \in HeaderSet
    PROVE  GoodResult(zcbor_map_start_decode(m, h))
<1> DEFINE r == list_map_start_decode(m, h, MAP)
           twice == [r.m EXCEPT !.state.elem_count = 2 * @]
           c == [r.m.state EXCEPT !.elem_count = 2 * @]
<1>1. GoodResult(r) /\ Good(r.m)
  BY ListMapStartGood DEF GoodResult
<1> HIDE DEF r
<1>2. r.m.state \in Cursor /\ r.m.state.elem_count \in 0 .. SIZE_MAX
  BY <1>1, GoodType DEF Cursor
<1>3. "INT_SIZE" \in Errors
  BY DEF Errors
<1>4. GoodResult(ERR_RESTORE(r.m, "INT_SIZE"))
  BY <1>1, <1>3, RestoreGood
<1>5. CASE ~r.ok \/ r.m.state.decode_state.indefinite_length_array
  BY <1>1, <1>5 DEF zcbor_map_start_decode, PairsCounted, r
<1>6. CASE r.ok /\ ~r.m.state.decode_state.indefinite_length_array
             /\ r.m.state.elem_count >= SIZE_MAX \div 2
  BY <1>4, <1>6 DEF zcbor_map_start_decode, PairsCounted, r
<1>7. CASE r.ok /\ ~r.m.state.decode_state.indefinite_length_array
             /\ ~(r.m.state.elem_count >= SIZE_MAX \div 2)
  <2>1. 2 * r.m.state.elem_count \in 0 .. SIZE_MAX
    BY <1>2, <1>7, SizeAssumption
  <2>2. c \in Cursor /\ c.decode_state = r.m.state.decode_state
    BY <1>2, <2>1 DEF Cursor
  <2>3. Good(twice)
    BY <1>1, <2>2, StateUpdateGood DEF Start
  <2>4. zcbor_map_start_decode(m, h) = Success(twice)
    BY <1>7 DEF zcbor_map_start_decode, PairsCounted, r
  <2> HIDE DEF twice
  <2> QED BY <2>3, <2>4, ResultGood
<1> QED BY <1>5, <1>6, <1>7

LEMMA UnorderedMapStartGood ==
    ASSUME NEW m, Good(m), NEW h \in HeaderSet
    PROVE  GoodResult(zcbor_unordered_map_start_decode(m, h))
<1> DEFINE r == zcbor_map_start_decode(m, h)
           counting == r.m.state.decode_state.indefinite_length_array
           c == [r.m.state EXCEPT !.decode_state.map_elem_count = 0,
                                  !.decode_state.counting_map_elems = counting]
           n == [r.m EXCEPT !.state.decode_state.map_elem_count = 0,
                            !.state.decode_state.counting_map_elems = counting]
<1>1. GoodResult(r) /\ Good(r.m)
  BY MapStartGood DEF GoodResult
<1> HIDE DEF r
<1>2. r.m \in Machine /\ r.m.state \in Cursor /\ counting \in BOOLEAN
  BY <1>1, GoodType DEF DecodeState
<1> HIDE DEF counting
<1>3. 0 \in 0 .. SIZE_MAX \div 2
  BY SizeAssumption
<1>4. /\ n \in Machine /\ n.backup_list = r.m.backup_list
      /\ Start(n.state) = Start(r.m.state)
      /\ n.state.decode_state.map_elem_count = 0
  BY <1>2, <1>3 DEF Machine, Cursor, DecodeState, Start
<1> HIDE DEF n
<1>5. Good(n)
  <2>1. Start(r.m.state) <= Start(n.state)
    BY <1>2, <1>4, FlagEndType, FlagAssumption
  <2>2. FlagEnd(n.state) = Start(n.state) + 0
    BY <1>4, FlagsToBytesZero DEF FlagEnd, FlagLen, Start
  <2>3. FlagEnd(n.state) <= FlagBytes
    BY <1>2, <1>4, <2>2, FlagEndType, FlagAssumption
  <2> QED BY <1>1, <1>4, <2>1, <2>3, FlagsMovedUp
<1>6. n.state.elem_count \in 0 .. SIZE_MAX
  BY <1>4 DEF Machine, Cursor
<1>7. GoodResult(Success(n)) /\ GoodResult(GrowMap(n, n.state.elem_count))
  BY <1>5, <1>6, ResultGood, GrowMapGood
<1>8. zcbor_unordered_map_start_decode(m, h) =
        IF ~r.ok THEN r ELSE IF counting THEN Success(n)
        ELSE GrowMap(n, n.state.elem_count)
  BY DEF zcbor_unordered_map_start_decode, SearchStarted, r, n, counting
<1> QED BY <1>1, <1>7, <1>8

LEMMA ArrayEndGood ==
    ASSUME NEW m, Good(m), NEW at_break \in BOOLEAN
    PROVE  GoodResult(array_end_expect(m, at_break))
<1> DEFINE i == initial_checks(m)
           c == [m.state EXCEPT !.payload = @ + 1]
           after == [m EXCEPT !.state.payload = @ + 1]
<1>1. m.state \in Cursor /\ m.state.payload \in Int
        /\ m.state.payload \in 0 .. MaxPayload /\ m.state.payload_end \in 0 .. PayloadLen
  BY GoodType DEF Cursor
<1>2. GoodResult(i) /\ (i.ok => m.state.payload < m.state.payload_end)
  BY InitialChecksGood
<1> HIDE DEF i
<1>3. "WRONG_TYPE" \in Errors
  BY DEF Errors
<1>4. CASE ~i.ok
  BY <1>2, <1>4 DEF array_end_expect, i
<1>5. CASE i.ok /\ ~at_break
  BY <1>3, <1>5, ErrGood DEF array_end_expect, i
<1>6. CASE i.ok /\ at_break
  <2>1. m.state.payload + 1 \in 0 .. MaxPayload
    BY <1>1, <1>2, <1>6, PayloadAssumption DEF MaxPayload
  <2>2. c \in Cursor /\ c.decode_state = m.state.decode_state
    BY <1>1, <2>1 DEF Cursor
  <2>3. Good(after)
    BY <2>2, StateUpdateGood DEF Start
  <2>4. array_end_expect(m, at_break) = Success(after)
    BY <1>6 DEF array_end_expect, i
  <2> HIDE DEF after
  <2> QED BY <2>3, <2>4, ResultGood
<1> QED BY <1>4, <1>5, <1>6

LEMMA ListMapEndGood ==
    ASSUME NEW m, Good(m), NEW at_break \in BOOLEAN
    PROVE  GoodResult(list_map_end_decode(m, at_break))
<1> DEFINE r == zcbor_process_backup(m, {"RESTORE", "CONSUME", "KEEP_PAYLOAD"})
<1>1. GoodResult(r) /\ Good(r.m)
  BY ProcessTopGood DEF GoodResult
<1>2. "HIGH_ELEM_COUNT" \in Errors
  BY DEF Errors
<1>3. GoodResult(array_end_expect(r.m, at_break)) /\ GoodResult(Err(r.m, "HIGH_ELEM_COUNT"))
  BY <1>1, <1>2, ArrayEndGood, ErrGood
<1> HIDE DEF r
<1> QED BY <1>1, <1>3 DEF list_map_end_decode, ArrayEnded, r

\* Other flags, in place, change nothing else.
LEMMA OtherMemGood ==
    ASSUME NEW m, Good(m), NEW mem \in [Address -> Byte]
    PROVE  Good([m EXCEPT !.mem = mem]) /\ [m EXCEPT !.mem = mem].state = m.state
<1> DEFINE mm == [m EXCEPT !.mem = mem]
<1>1. m \in Machine
  BY GoodType
<1>2. mm \in Machine /\ mm.state = m.state /\ mm.backup_list = m.backup_list
  BY <1>1 DEF Machine
<1> QED BY <1>2, SameFlags

\* Some flags of one byte are cleared, if it is a byte of the buffer at all.
LEMMA FlagsCleared ==
    ASSUME NEW mem \in [Address -> Byte], NEW a, NEW bits
    PROVE  /\ [mem EXCEPT ![a] = @ \cap bits] \in [Address -> Byte]
           /\ [mem EXCEPT ![a] = @ \ bits] \in [Address -> Byte]
OBVIOUS

\* Where a skip goes to, and where the rest of a map ends.
Skips == [at : 0 .. MaxPayload, error : Errors, rewinds : BOOLEAN]

LEMMA SkipsType ==
    ASSUME NEW m, Good(m)
    PROVE  SkipResults(m.state) \subseteq Skips
<1>1. m.state.payload \in 0 .. MaxPayload /\ m.state.payload_end \in 0 .. PayloadLen
  BY GoodType DEF Cursor
<1>2. \A a \in m.state.payload + 1 .. 2 * m.state.payload_end - m.state.payload :
         a \in 0 .. MaxPayload
  BY <1>1, PayloadAssumption DEF MaxPayload
<1>3. "SUCCESS" \in Errors /\ "NO_PAYLOAD" \in Errors /\ 0 \in 0 .. MaxPayload
  BY PayloadAssumption DEF Errors, MaxPayload
<1>4. \A a \in 0 .. MaxPayload : Skipped(a) \in Skips
  BY <1>3 DEF Skipped, Skips
<1>5. \A back \in BOOLEAN : [CannotSkip("NO_PAYLOAD") EXCEPT !.rewinds = back] \in Skips
  BY <1>3 DEF CannotSkip, Skips
<1> QED BY <1>2, <1>4, <1>5 DEF SkipResults

LEMMA AnySkipGood ==
    ASSUME NEW m, Good(m), NEW taken \in Skips
    PROVE  GoodResult(any_skip(m, taken))
<1> DEFINE c == [m.state EXCEPT !.payload = taken.at, !.elem_count = @ - 1]
           there == [m EXCEPT !.state.payload = taken.at, !.state.elem_count = @ - 1]
<1>1. /\ "LOW_ELEM_COUNT" \in Errors
      /\ taken.error \in Errors /\ taken.at \in 0 .. MaxPayload
  BY DEF Errors, Skips
<1>2. ASSUME m.state.elem_count # 0 PROVE Good(there)
  <2>1. /\ m \in Machine /\ m.state \in Cursor /\ m.state.elem_count - 1 \in 0 .. SIZE_MAX
    BY <1>2, GoodType, SizeAssumption DEF Cursor
  <2>2. c \in Cursor /\ c.decode_state = m.state.decode_state
    BY <1>1, <2>1 DEF Cursor
  <2>3. there = [m EXCEPT !.state = c]
    BY <2>1 DEF Machine, Cursor
  <2> HIDE DEF c, there
  <2> QED BY <2>2, <2>3, StateUpdateGood DEF Start
<1> HIDE DEF there
<1>3. /\ GoodResult(initial_checks(m)) /\ GoodResult(Err(m, "LOW_ELEM_COUNT"))
      /\ GoodResult(ERR_RESTORE(m, taken.error)) /\ GoodResult(Err(m, taken.error))
  BY <1>1, InitialChecksGood, ErrGood, RestoreGood
<1>4. m.state.elem_count # 0 => GoodResult(CopyTaken(m, taken))
  BY <1>2, <1>3, ResultGood DEF CopyTaken, there
<1> QED BY <1>3, <1>4 DEF any_skip

LEMMA SkipToEndGood ==
    ASSUME NEW m, Good(m), NEW rest \in Skips
    PROVE  Good(SkipToEnd(m, rest))
<1> DEFINE e == IF rest.error = "SUCCESS" THEN m ELSE zcbor_error(m, rest.error)
           c == [e.state EXCEPT !.payload = rest.at,
                                !.elem_count = IF m.state.decode_state.indefinite_length_array
                                               THEN @ ELSE 0]
<1>1. Good(e)
  BY ErrorGood DEF Skips
<1> HIDE DEF e
<1>2. e \in Machine /\ e.state \in Cursor /\ 0 \in 0 .. SIZE_MAX /\ rest.at \in 0 .. MaxPayload
  BY <1>1, GoodType, SizeAssumption DEF Skips
<1>3. c \in Cursor /\ c.decode_state = e.state.decode_state
  BY <1>2 DEF Cursor
<1>4. [e EXCEPT !.state = c]
        = [e EXCEPT !.state.payload = rest.at,
                    !.state.elem_count = IF m.state.decode_state.indefinite_length_array
                                         THEN @ ELSE 0]
  BY <1>2 DEF Machine, Cursor
<1>5. Good([e EXCEPT !.state = c])
  <2> HIDE DEF c
  <2> QED BY <1>1, <1>3, StateUpdateGood DEF Start
<1> QED BY <1>4, <1>5 DEF SkipToEnd, e

LEMMA RestsType ==
    ASSUME NEW m, Good(m), NEW rest \in Rests(m) \cup {Skipped(m.state.payload)}
    PROVE  rest \in Skips
<1>1. /\ m.state.payload \in 0 .. MaxPayload /\ m.state.payload_bak \in 0 .. PayloadLen
      /\ m.state.payload_end \in 0 .. PayloadLen /\ m.state.elem_count \in 0 .. SIZE_MAX
  BY GoodType DEF Cursor
<1>2. ASSUME NEW a \in 0 .. MaxPayload, NEW n \in Nat \ {0}
      PROVE  EndsFrom(m.state, a, n) \subseteq 0 .. MaxPayload
  BY <1>1, <1>2, PayloadAssumption, SMTT(30) DEF EndsFrom, MaxPayload
<1>3. "SUCCESS" \in Errors /\ "NO_PAYLOAD" \in Errors
  BY DEF Errors
<1>4. \A a \in 0 .. MaxPayload :
         Skipped(a) \in Skips /\ [Skipped(a) EXCEPT !.error = "NO_PAYLOAD"] \in Skips
  BY <1>3 DEF Skipped, Skips
<1>5. m.state.elem_count \in Nat /\ 1 \in Nat \ {0} /\ m.state.payload_bak \in 0 .. MaxPayload
  BY <1>1, SizeAssumption, PayloadsWithin
<1>6. /\ m.state.elem_count # 0 =>
            EndsFrom(m.state, m.state.payload, m.state.elem_count) \subseteq 0 .. MaxPayload
      /\ EndsFrom(m.state, m.state.payload_bak, 1) \subseteq 0 .. MaxPayload
  BY <1>1, <1>2, <1>5
<1>7. CASE rest = Skipped(m.state.payload)
  BY <1>1, <1>4, <1>7
<1>8. CASE rest \in Rests(m)
  BY <1>4, <1>6, <1>8 DEF Rests
<1> QED BY <1>7, <1>8

\* The checks at the end of an unordered map move no cursor.
LEMMA EndChecksGood ==
    ASSUME NEW m, Good(m), NEW at_break \in BOOLEAN
    PROVE  /\ GoodResult(EndChecks(m, at_break))
           /\ EndChecks(m, at_break).m.state = m.state
<1> DEFINE count == m.state.decode_state.map_elem_count
           c == IF SmartSearch /\ count > 0 THEN ClearUnused(m) ELSE m
           e == EndChecks(m, at_break)
<1>1. Good(c) /\ c.state = m.state
  <2> DEFINE mem == [m.mem EXCEPT ![FlagByteOf(m.state, count - 1)]
                                    = @ \cap 0 .. (count - 1) % BitsPerByte]
  <2>1. mem \in [Address -> Byte]
    BY GoodType, FlagsCleared
  <2>2. ClearUnused(m) = [m EXCEPT !.mem = mem]
    BY DEF ClearUnused
  <2> HIDE DEF mem
  <2>3. Good(ClearUnused(m)) /\ ClearUnused(m).state = m.state
    BY <2>1, <2>2, OtherMemGood
  <2> QED BY <2>3
<1> HIDE DEF c
<1>2. "ELEMS_NOT_PROCESSED" \in Errors
  BY DEF Errors
<1>3. /\ GoodResult(Err(m, "ELEMS_NOT_PROCESSED"))
      /\ GoodResult(Err(c, "ELEMS_NOT_PROCESSED"))
      /\ GoodResult(Success(c))
  BY <1>1, <1>2, ErrGood, ResultGood
<1>4. \/ e = Err(m, "ELEMS_NOT_PROCESSED")
      \/ e = Err(c, "ELEMS_NOT_PROCESSED")
      \/ e = Success(c)
  BY DEF EndChecks, c, count
<1>5. /\ Err(m, "ELEMS_NOT_PROCESSED").m.state = m.state
      /\ Err(c, "ELEMS_NOT_PROCESSED").m.state = c.state
      /\ Success(c).m.state = c.state
  <2>1. \A n : Good(n) => Err(n, "ELEMS_NOT_PROCESSED").m.state = n.state
    <3> SUFFICES ASSUME NEW n, Good(n)
                 PROVE  Err(n, "ELEMS_NOT_PROCESSED").m.state = n.state
      OBVIOUS
    <3>1. n \in Machine
      BY GoodType
    <3> QED BY <3>1 DEF Machine, Err, Failure, zcbor_error
  <2> QED BY <1>1, <2>1 DEF Success
<1> HIDE DEF e
<1> QED BY <1>1, <1>3, <1>4, <1>5 DEF e

LEMMA UnorderedMapEndGood ==
    ASSUME NEW m, Good(m), NEW at_break \in BOOLEAN, NEW rest \in Skips
    PROVE  GoodResult(zcbor_unordered_map_end_decode(m, at_break, rest))
<1> DEFINE c == EndChecks(m, at_break)
           r == list_map_end_decode(SkipToEnd(c.m, rest), TRUE)
<1>1. GoodResult(c) /\ Good(c.m)
  BY EndChecksGood DEF GoodResult
<1> HIDE DEF c
<1>2. GoodResult(r)
  BY <1>1, SkipToEndGood, ListMapEndGood
<1> HIDE DEF r
<1> QED BY <1>1, <1>2 DEF zcbor_unordered_map_end_decode, c, r

\* A string that was started ends within the section it is in.
LEMMA StrStartGood ==
    ASSUME NEW m, Good(m), NEW h \in HeaderSet, NEW type
    PROVE  LET r == str_start_decode_with_overflow_check(m, h, type) IN
           /\ GoodResult(r)
           /\ r.ok => r.m.state.payload + h.value \in 0 .. PayloadLen
<1> DEFINE t == type_check(m, h, type)
           v == value_extract(m, h, SIZEOF_SIZE_T, FALSE)
           r == str_start_decode_with_overflow_check(m, h, type)
<1>1. GoodResult(t)
  BY TypeCheckGood
<1>2. GoodResult(v) /\ Good(v.m)
  BY ValueExtractGood DEF SIZEOF_SIZE_T, GoodResult
<1> HIDE DEF t, v
<1>3. "NO_PAYLOAD" \in Errors
  BY DEF Errors
<1>4. /\ GoodResult(ERR_RESTORE(v.m, "NO_PAYLOAD"))
      /\ ~ERR_RESTORE(v.m, "NO_PAYLOAD").ok
  BY <1>2, <1>3, RestoreGood, RewoundGood, ErrGood DEF ERR_RESTORE
<1>5. r = IF ~t.ok THEN t ELSE IF ~v.ok THEN v
          ELSE IF h.value > v.m.state.payload_end - v.m.state.payload
          THEN ERR_RESTORE(v.m, "NO_PAYLOAD") ELSE v
  BY DEF str_start_decode_with_overflow_check, t, v
<1>6. GoodResult(r)
  BY <1>1, <1>2, <1>4, <1>5
<1>7. ASSUME r.ok PROVE r.m.state.payload + h.value \in 0 .. PayloadLen
  <2>1. r = v /\ ~(h.value > v.m.state.payload_end - v.m.state.payload)
    BY <1>4, <1>5, <1>7
  <2>2. /\ v.m.state.payload \in Nat
        /\ v.m.state.payload_end \in 0 .. PayloadLen
        /\ h.value \in Nat
    BY <1>2, GoodType, SizeAssumption DEF Cursor, HeaderSet
  <2> HIDE DEF r
  <2> QED BY <2>1, <2>2, PayloadAssumption
<1> QED BY <1>6, <1>7

LEMMA BstrStartGood ==
    ASSUME NEW m, Good(m), NEW h \in HeaderSet
    PROVE  GoodResult(zcbor_bstr_start_decode(m, h))
<1> DEFINE s == str_start_decode_with_overflow_check(m, h, BSTR)
           b == zcbor_new_backup(s.m, ZCBOR_MAX_ELEM_COUNT)
           e == exit_map(b.m)
           end == s.m.state.payload + h.value
           c == [e.m.state EXCEPT !.payload_end = end, !.inside_cbor_bstr = TRUE]
           inside == [e.m EXCEPT !.state.payload_end = end, !.state.inside_cbor_bstr = TRUE]
<1>1. GoodResult(s) /\ Good(s.m) /\ (s.ok => end \in 0 .. PayloadLen)
  BY StrStartGood DEF GoodResult
<1> HIDE DEF s, end
<1>2. GoodResult(b) /\ Good(b.m)
  <2>1. ZCBOR_MAX_ELEM_COUNT \in 0 .. SIZE_MAX
    BY SizeAssumption DEF ZCBOR_MAX_ELEM_COUNT
  <2> QED BY <1>1, <2>1, NewBackupGood DEF zcbor_new_backup, GoodResult
<1> HIDE DEF b
<1>3. GoodResult(e) /\ Good(e.m)
  BY <1>2, ExitMapGood DEF GoodResult
<1> HIDE DEF e
<1>4. GoodResult(FAIL_RESTORE(b.m))
  <2>1. "BAD_ARG" \in Errors
    BY DEF Errors
  <2> QED BY <1>2, <2>1, RestoreGood
<1>5. ASSUME s.ok PROVE GoodResult(Success(inside))
  <2>1. e.m \in Machine /\ e.m.state \in Cursor
    BY <1>3, GoodType
  <2>2. c \in Cursor /\ c.decode_state = e.m.state.decode_state
    BY <1>1, <1>5, <2>1 DEF Cursor
  <2>3. inside = [e.m EXCEPT !.state = c]
    BY <2>1 DEF Machine, Cursor
  <2> HIDE DEF inside, c
  <2> QED BY <1>3, <2>2, <2>3, StateUpdateGood, ResultGood DEF Start
<1>6. zcbor_bstr_start_decode(m, h) =
        IF ~s.ok THEN s ELSE IF ~b.ok THEN FAIL_RESTORE(b.m)
        ELSE IF ~e.ok THEN e ELSE Success(inside)
  BY DEF zcbor_bstr_start_decode, StringEntered, s, b, e, end
<1> HIDE DEF inside
<1> QED BY <1>1, <1>3, <1>4, <1>5, <1>6

LEMMA BstrEndGood ==
    ASSUME NEW m, Good(m)
    PROVE  GoodResult(zcbor_bstr_end_decode(m))
<1>1. "PAYLOAD_NOT_CONSUMED" \in Errors
  BY DEF Errors
<1> QED BY <1>1, ErrGood, ProcessTopGood DEF zcbor_bstr_end_decode

-----------------------------------------------------------------------------
(* Single elements, a new start, another piece of payload.                 *)

LEMMA ShouldTryKeyGood ==
    ASSUME NEW m, Good(m)
    PROVE  GoodResult(should_try_key(m))
<1>1. "MAP_FLAGS_NOT_AVAILABLE" \in Errors
  BY DEF Errors
<1>2. GoodResult(Success(m)) /\ GoodResult(Failure(m))
        /\ GoodResult(Err(m, "MAP_FLAGS_NOT_AVAILABLE"))
  BY <1>1, ResultGood, ErrGood
<1> QED BY <1>2 DEF should_try_key

\* A map counts no more processed elements than it has, so the count stays one.
LEMMA ElemProcessedGood ==
    ASSUME NEW m, Good(m)
    PROVE  GoodResult(zcbor_elem_processed(m))
<1> DEFINE s == m.state
           index == get_current_index(s, 1)
           mem == [m.mem EXCEPT ![FlagByteOf(s, index)] = @ \ {index % BitsPerByte}]
           cleared == [m EXCEPT !.mem = mem]
           counted == [m EXCEPT !.state.decode_state.map_elems_processed = @ + 1]
           r == zcbor_elem_processed(m)
<1>1. {"MAP_MISALIGNED", "MAP_FLAGS_NOT_AVAILABLE"} \subseteq Errors
  BY DEF Errors
<1>2. /\ GoodResult(Success(m))
      /\ GoodResult(Err(m, "MAP_MISALIGNED"))
      /\ GoodResult(Err(m, "MAP_FLAGS_NOT_AVAILABLE"))
  BY <1>1, ResultGood, ErrGood
<1>3. CASE SmartSearch
  <2>1. mem \in [Address -> Byte]
    BY GoodType, FlagsCleared
  <2>2. r \in {Success(cleared), Err(m, "MAP_MISALIGNED"), Err(m, "MAP_FLAGS_NOT_AVAILABLE")}
    BY <1>3 DEF zcbor_elem_processed
  <2> HIDE DEF mem
  <2>3. Good(cleared)
    BY <2>1, OtherMemGood
  <2> HIDE DEF cleared
  <2>4. GoodResult(Success(cleared))
    BY <2>3, ResultGood
  <2> HIDE DEF r
  <2> QED BY <1>2, <2>2, <2>4 DEF r
<1>4. CASE ~SmartSearch
  <2>1. CASE ~should_try_key(m).ok
    <3>1. r \in {Success(m), Err(m, "MAP_MISALIGNED")}
      BY <1>4, <2>1 DEF zcbor_elem_processed
    <3> HIDE DEF r
    <3> QED BY <1>2, <3>1 DEF r
  <2>2. CASE should_try_key(m).ok
    <3>1. m.state.decode_state.map_elems_processed < m.state.decode_state.map_elem_count
      <4>1. Success(m).ok = TRUE /\ Failure(m).ok = FALSE
        BY ResultGood
      <4> QED BY <1>4, <2>2, <4>1 DEF should_try_key
    <3>2. /\ m \in Machine /\ m.state \in Cursor
          /\ m.state.decode_state.map_elems_processed \in 0 .. SIZE_MAX
          /\ m.state.decode_state.map_elem_count \in 0 .. SIZE_MAX \div 2
      BY GoodType DEF DecodeState
    <3>3. m.state.decode_state.map_elems_processed + 1 \in 0 .. SIZE_MAX
      BY <3>1, <3>2, SizeAssumption
    <3>4. counted \in Machine
      BY <3>2, <3>3 DEF Machine, Cursor, DecodeState
    <3>5. counted.backup_list = m.backup_list
      BY <3>2 DEF Machine
    <3>6. r \in {Success(counted), Err(m, "MAP_MISALIGNED")}
      BY <1>4, <2>2 DEF zcbor_elem_processed
    <3> HIDE DEF counted
    <3>7. Good(counted)
      BY <1>4, <3>4, <3>5, FlagsMovedUp
    <3>8. GoodResult(Success(counted))
      BY <3>7, ResultGood
    <3> HIDE DEF r
    <3> QED BY <1>2, <3>6, <3>8 DEF r
  <2> QED BY <2>1, <2>2
<1> QED BY <1>3, <1>4

LEMMA NewStateGood ==
    ASSUME NEW m, Good(m)
    PROVE  Good(zcbor_new_state(m, PayloadLen, RootElems))
<1> DEFINE d == NewDecodeState(m.state.decode_state)
           c == [m.state EXCEPT
                   !.payload = 0, !.payload_end = PayloadLen, !.elem_count = RootElems,
                   !.payload_moved = FALSE, !.inside_cbor_bstr = FALSE, !.decode_state = d]
           mm == zcbor_new_state(m, PayloadLen, RootElems)
<1>1. m \in Machine /\ m.state \in Cursor /\ m.state.decode_state \in DecodeState
  BY GoodType
<1>2. /\ 0 \in 0 .. SIZE_MAX \div 2 /\ 0 \in 0 .. SIZE_MAX /\ 0 \in 0 .. FlagBytes
      /\ 0 \in 0 .. PayloadLen /\ PayloadLen \in 0 .. PayloadLen
      /\ RootElems \in 0 .. SIZE_MAX
  BY SizeAssumption, FlagAssumption, PayloadAssumption, RootAssumption
<1>3. d \in DecodeState
  BY <1>1, <1>2 DEF NewDecodeState, DecodeState
<1>4. SmartSearch => d.map_search_elem_state = 0 /\ d.map_elem_count = 0
  BY <1>1 DEF NewDecodeState, DecodeState
<1>5. mm = [m EXCEPT !.backup_list = << >>, !.error = "SUCCESS",
                     !.stop_on_error = FALSE, !.state = c]
  BY DEF zcbor_new_state
<1> HIDE DEF d, mm
<1>6. c \in Cursor /\ c.decode_state = d
  BY <1>1, <1>2, <1>3, PayloadsWithin DEF Cursor
<1> HIDE DEF c
<1>7. << >> \in Seq(Cursor) /\ Len(<< >>) = 0 /\ "SUCCESS" \in Errors
  BY EmptySeq DEF Errors
<1>8. mm \in Machine /\ mm.backup_list = << >> /\ mm.state = c
  BY <1>1, <1>5, <1>6, <1>7 DEF Machine
<1>9. SmartSearch => FlagEnd(mm.state) <= FlagBytes
  BY <1>4, <1>6, <1>8, FlagsToBytesZero, FlagAssumption DEF FlagEnd, FlagLen
<1>10. Good(mm)
  BY <1>7, <1>8, <1>9, BackupAssumption DEF Good, FlagsSound
<1> QED BY <1>10 DEF mm

LEMMA UpdateStateGood ==
    ASSUME NEW m, Good(m)
    PROVE  Good(zcbor_update_state(m, PayloadLen))
<1> DEFINE Moved(c) == [InSection(c, PayloadLen) EXCEPT !.payload_moved = TRUE]
           list == [i \in DOMAIN m.backup_list |-> Moved(m.backup_list[i])]
           mm == zcbor_update_state(m, PayloadLen)
           n == Len(m.backup_list)
<1>1. /\ m \in Machine /\ m.state \in Cursor /\ m.backup_list \in Seq(Cursor)
      /\ n \in Nat /\ DOMAIN m.backup_list = 1 .. n
      /\ \A i \in 1 .. n : m.backup_list[i] \in Cursor
  BY GoodType, LenProperties
<1>2. 0 \in 0 .. PayloadLen /\ PayloadLen \in 0 .. PayloadLen
  BY PayloadAssumption
<1>3. ASSUME NEW c \in Cursor
      PROVE  /\ InSection(c, PayloadLen) \in Cursor /\ Moved(c) \in Cursor
             /\ InSection(c, PayloadLen).decode_state = c.decode_state
             /\ Moved(c).decode_state = c.decode_state
  BY <1>2, PayloadsWithin DEF InSection, Cursor
<1> HIDE DEF Moved
<1>4. /\ list \in Seq(Cursor) /\ Len(list) = n
      /\ \A i \in 1 .. n : list[i] = Moved(m.backup_list[i])
  <2>1. list \in [1 .. n -> Cursor]
    BY <1>1, <1>3
  <2>2. list \in Seq(Cursor)
    BY <1>1, <2>1
  <2>3. DOMAIN list = 1 .. n
    BY <2>1
  <2> HIDE DEF n
  <2>4. Len(list) = n
    <3>1. Len(list) \in Nat /\ 1 .. n = 1 .. Len(list)
      BY <2>2, <2>3, LenProperties
    <3> HIDE DEF list
    <3> QED BY <1>1, <3>1
  <2> QED BY <1>1, <2>2, <2>4
<1>5. mm = [m EXCEPT !.state = InSection(m.state, PayloadLen), !.backup_list = list]
  BY DEF zcbor_update_state, Moved
<1> HIDE DEF list, mm
<1>6. /\ mm \in Machine /\ mm.backup_list = list
      /\ mm.state = InSection(m.state, PayloadLen)
  BY <1>1, <1>3, <1>4, <1>5 DEF Machine
<1>7. /\ FlagEnd(mm.state) = FlagEnd(m.state) /\ Start(mm.state) = Start(m.state)
      /\ \A i \in 1 .. n :
           /\ FlagEnd(list[i]) = FlagEnd(m.backup_list[i])
           /\ Start(list[i]) = Start(m.backup_list[i])
           /\ RoomForCopy(list[i]) <=> RoomForCopy(m.backup_list[i])
           /\ list[i].decode_state = m.backup_list[i].decode_state
  <2>1. ASSUME NEW c, NEW cc, cc.decode_state = c.decode_state
        PROVE  /\ FlagEnd(cc) = FlagEnd(c) /\ Start(cc) = Start(c)
               /\ RoomForCopy(cc) <=> RoomForCopy(c)
    BY <2>1 DEF FlagEnd, FlagLen, Start, RoomForCopy
  <2>2. mm.state.decode_state = m.state.decode_state
    BY <1>1, <1>3, <1>6
  <2>3. \A i \in 1 .. n : list[i].decode_state = m.backup_list[i].decode_state
    BY <1>1, <1>3, <1>4
  <2> QED BY <2>1, <2>2, <2>3
<1>8. FlagsSound(mm)
  BY <1>4, <1>6, <1>7 DEF Good, FlagsSound
<1>9. Good(mm)
  BY <1>4, <1>6, <1>8 DEF Good
<1> QED BY <1>9 DEF mm

-----------------------------------------------------------------------------
(* The invariant, and how a call's result reaches the decoder.             *)

IInv ==
    /\ Good(zs)
    /\ calls \in Seq(Calls)
    /\ failing \in BOOLEAN
    /\ search \in Seq([payload : 0 .. MaxPayload, elem_count : 0 .. SIZE_MAX])

LEMMA InitInvariant == Init => IInv
<1> SUFFICES ASSUME Init PROVE IInv
  OBVIOUS
<1> DEFINE d == InitialCursor.decode_state
<1>1. /\ 0 \in 0 .. SIZE_MAX \div 2 /\ 0 \in 0 .. SIZE_MAX /\ 0 \in 0 .. FlagBytes
      /\ 0 \in 0 .. PayloadLen /\ PayloadLen \in 0 .. PayloadLen
      /\ RootElems \in 0 .. SIZE_MAX /\ 0 \in 0 .. NumBackups
  BY SizeAssumption, FlagAssumption, PayloadAssumption, RootAssumption, BackupAssumption
<1>2. InitialCursor \in Cursor
  BY <1>1, PayloadsWithin DEF InitialCursor, Cursor, DecodeState
<1>3. d.map_search_elem_state = 0 /\ d.map_elem_count = 0
  BY DEF InitialCursor
<1>4. << >> \in Seq(Cursor) /\ Len(<< >>) = 0 /\ "SUCCESS" \in Errors
  BY EmptySeq DEF Errors
<1>5. PICK b \in StaleBytes, stop \in StopModes :
         zs = [state |-> InitialCursor, backup_list |-> << >>,
               mem |-> [a \in Address |-> b], error |-> "SUCCESS", stop_on_error |-> stop]
  BY DEF Init
<1>6. [a \in Address |-> b] \in [Address -> Byte]
  BY StaleAssumption
<1> stop \in BOOLEAN
  BY StopAssumption
<1>7. zs.state = InitialCursor /\ zs.backup_list = << >>
  BY <1>5
<1>8. zs \in Machine
  BY <1>2, <1>4, <1>5, <1>6 DEF Machine
<1>9. FlagEnd(zs.state) = 0
  BY <1>3, <1>7, FlagsToBytesZero DEF FlagEnd, FlagLen
<1>10. Good(zs)
  BY <1>4, <1>7, <1>8, <1>9, BackupAssumption, FlagAssumption DEF Good, FlagsSound
<1>11. /\ << >> \in Seq(Calls)
       /\ << >> \in Seq([payload : 0 .. MaxPayload, elem_count : 0 .. SIZE_MAX])
  BY EmptySeq
<1> QED BY <1>10, <1>11 DEF Init, IInv

LEMMA ReturnKeeps ==
    ASSUME IInv, NEW r, GoodResult(r), Return(r), UNCHANGED calls
    PROVE  IInv'
BY DEF IInv, Return, GoodResult, Good, FlagsSound, Machine

LEMMA EnterKeeps ==
    ASSUME IInv, NEW call \in Calls, NEW r, GoodResult(r), Enter(call, r)
    PROVE  IInv'
<1>1. Append(calls, call) \in Seq(Calls)
  BY AppendProperties DEF IInv
<1>2. calls' \in Seq(Calls)
  BY <1>1 DEF IInv, Enter
<1> QED BY <1>2 DEF IInv, Enter, Return, GoodResult, Good, FlagsSound, Machine

LEMMA LeaveKeeps ==
    ASSUME IInv, NEW call, NEW r, GoodResult(r), Leave(call, r), failing' \in BOOLEAN
    PROVE  IInv'
<1>1. Len(calls) \in Nat /\ \A i \in 1 .. Len(calls) : calls[i] \in Calls
  BY LenProperties, ElementOfSeq DEF IInv
<1>2. SubSeq(calls, 1, Len(calls) - 1) \in Seq(Calls)
  BY <1>1, SubSeqProperties
<1> QED BY <1>2 DEF IInv, Leave, GoodResult, Good, FlagsSound, Machine

LEMMA SearchReturnsKeeps ==
    ASSUME IInv, NEW r, GoodResult(r), SearchReturns(r), UNCHANGED calls
    PROVE  IInv'
<1>1. << >> \in Seq([payload : 0 .. MaxPayload, elem_count : 0 .. SIZE_MAX])
  BY EmptySeq
<1> QED BY <1>1 DEF IInv, SearchReturns, GoodResult, Good, FlagsSound, Machine

\* An undone search leaves the cursor where it began.
LEMMA BackToStartGood ==
    ASSUME IInv, search # << >>, NEW m, Good(m)
    PROVE  GoodResult(BackToStart(m))
<1> DEFINE c == [m.state EXCEPT !.payload = search[1].payload,
                                !.elem_count = search[1].elem_count]
           back == [m EXCEPT !.state.payload = search[1].payload,
                             !.state.elem_count = search[1].elem_count]
<1>1. search[1] \in [payload : 0 .. MaxPayload, elem_count : 0 .. SIZE_MAX]
  <2>1. Len(search) \in Nat \ {0}
    BY EmptySeq DEF IInv
  <2>2. 1 \in 1 .. Len(search)
    BY <2>1
  <2> QED BY <2>2, ElementOfSeq DEF IInv
<1>2. m \in Machine /\ m.state \in Cursor
  BY GoodType
<1>3. c \in Cursor /\ c.decode_state = m.state.decode_state
  BY <1>1, <1>2 DEF Cursor
<1>4. back = [m EXCEPT !.state = c]
  BY <1>2 DEF Machine, Cursor
<1> HIDE DEF c, back
<1>5. Good(back)
  BY <1>3, <1>4, StateUpdateGood DEF Start
<1> QED BY <1>5, ResultGood DEF BackToStart, back

LEMMA SearchGoesOnKeeps ==
    ASSUME IInv, search # << >>, NEW m, Good(m), SearchGoesOn(m), UNCHANGED calls
    PROVE  IInv'
<1>1. CASE m.state.elem_count = search[1].elem_count
  <2> DEFINE r == BackToStart(zcbor_error(m, "ELEM_NOT_FOUND"))
  <2>1. "ELEM_NOT_FOUND" \in Errors
    BY DEF Errors
  <2>2. GoodResult(r)
    BY <2>1, ErrorGood, BackToStartGood
  <2>3. SearchReturns(r)
    BY <1>1 DEF SearchGoesOn
  <2> HIDE DEF r
  <2> QED BY <2>2, <2>3, SearchReturnsKeeps
<1>2. CASE m.state.elem_count # search[1].elem_count
  BY <1>2 DEF SearchGoesOn, IInv, Good, FlagsSound, Machine
<1> QED BY <1>1, <1>2

-----------------------------------------------------------------------------
(* Every step keeps the invariant.                                         *)

LEMMA HeadersType == ASSUME NEW h \in Headers PROVE h \in HeaderSet
BY HeaderAssumption DEF HeaderSet

LEMMA ValueSteps == ASSUME IInv PROVE Decode \/ AnySkip \/ MovePayload => IInv'
<1>1. Good(zs)
  BY DEF IInv
<1>2. ASSUME Decode PROVE IInv'
  <2>1. PICK h \in Headers :
          /\ Return(IF type_check(zs, h, PINT).ok THEN value_extract(zs, h, 8, FALSE)
                                                  ELSE type_check(zs, h, PINT))
          /\ UNCHANGED calls
    BY <1>2 DEF Decode
  <2>2. GoodResult(type_check(zs, h, PINT)) /\ GoodResult(value_extract(zs, h, 8, FALSE))
    BY <1>1, HeadersType, TypeCheckGood, ValueExtractGood
  <2> QED BY <2>1, <2>2, ReturnKeeps
<1>3. ASSUME MovePayload PROVE IInv'
  <2>1. GoodResult(Success(zcbor_update_state(zs, PayloadLen)))
    BY <1>1, UpdateStateGood, ResultGood
  <2> QED BY <1>3, <2>1, ReturnKeeps DEF MovePayload
<1>4. ASSUME AnySkip PROVE IInv'
  BY <1>1, <1>4, SkipsType, AnySkipGood, ReturnKeeps DEF AnySkip
<1> QED BY <1>2, <1>3, <1>4

LEMMA StartSteps ==
    ASSUME IInv
    PROVE  ListStart \/ MapStart \/ UnorderedMapStart \/ BstrStart \/ UnionStart
             \/ IterationStart => IInv'
<1>1. Good(zs)
  BY DEF IInv
<1>2. {"union", "multi", "list", "umap", "bstr"} \subseteq Calls
  BY DEF Calls
<1>3. ASSUME NEW h \in Headers
      PROVE  /\ GoodResult(zcbor_list_start_decode(zs, h))
             /\ GoodResult(zcbor_map_start_decode(zs, h))
             /\ GoodResult(zcbor_unordered_map_start_decode(zs, h))
             /\ GoodResult(zcbor_bstr_start_decode(zs, h))
  BY <1>1, HeadersType, ListMapStartGood, MapStartGood, UnorderedMapStartGood, BstrStartGood
     DEF zcbor_list_start_decode
<1>4. /\ GoodResult(zcbor_union_start_code(zs))
      /\ GoodResult(zcbor_new_backup_w_elem_state(zs, zs.state.elem_count, TRUE))
  <2>1. zs.state.elem_count \in 0 .. SIZE_MAX
    BY <1>1, GoodType DEF Cursor
  <2> QED BY <1>1, <2>1, NewBackupGood DEF zcbor_union_start_code
<1>5. ListStart => IInv'
  BY <1>2, <1>3, EnterKeeps DEF ListStart
<1>6. MapStart => IInv'
  BY <1>2, <1>3, EnterKeeps DEF MapStart
<1>7. UnorderedMapStart => IInv'
  BY <1>2, <1>3, EnterKeeps DEF UnorderedMapStart
<1>8. BstrStart => IInv'
  BY <1>2, <1>3, EnterKeeps DEF BstrStart
<1>9. UnionStart => IInv'
  BY <1>2, <1>4, EnterKeeps DEF UnionStart
<1>10. IterationStart => IInv'
  BY <1>2, <1>4, EnterKeeps DEF IterationStart
<1> QED BY <1>5, <1>6, <1>7, <1>8, <1>9, <1>10

LEMMA EndSteps ==
    ASSUME IInv
    PROVE  ListEnd \/ UnorderedMapEnd \/ ListForceEnd \/ BstrEnd => IInv'
<1>1. Good(zs) /\ failing \in BOOLEAN
  BY DEF IInv
<1>2. ASSUME ListEnd PROVE IInv'
  <2>1. PICK at_break \in BOOLEAN :
          LET r == list_map_end_decode(zs, at_break) IN
          Leave("list", r) /\ failing' = ~r.ok
    BY <1>2 DEF ListEnd
  <2>2. GoodResult(list_map_end_decode(zs, at_break))
    BY <1>1, ListMapEndGood
  <2>3. failing' \in BOOLEAN
    BY <2>1
  <2> QED BY <2>1, <2>2, <2>3, LeaveKeeps
<1>3. ASSUME UnorderedMapEnd PROVE IInv'
  <2>1. PICK at_break \in BOOLEAN :
          LET c == EndChecks(zs, at_break)
              loops == c.ok /\ ~zcbor_array_at_end(zs.state, at_break)
          IN  \E rest \in IF loops THEN Rests(c.m) ELSE {Skipped(zs.state.payload)} :
                LET r == zcbor_unordered_map_end_decode(zs, at_break, rest) IN
                Leave("umap", r) /\ failing' = ~r.ok
    BY <1>3 DEF UnorderedMapEnd
  <2> DEFINE c == EndChecks(zs, at_break)
  <2>2. Good(c.m) /\ c.m.state = zs.state
    BY <1>1, EndChecksGood DEF GoodResult
  <2>3. PICK rest \in Rests(c.m) \cup {Skipped(c.m.state.payload)} :
          LET r == zcbor_unordered_map_end_decode(zs, at_break, rest) IN
          Leave("umap", r) /\ failing' = ~r.ok
    <3> HIDE DEF c
    <3> QED BY <2>1, <2>2 DEF c
  <2> HIDE DEF c
  <2>4. rest \in Skips
    BY <2>2, RestsType
  <2>5. GoodResult(zcbor_unordered_map_end_decode(zs, at_break, rest))
    BY <1>1, <2>4, UnorderedMapEndGood
  <2>6. failing' \in BOOLEAN
    BY <2>3
  <2> QED BY <2>3, <2>5, <2>6, LeaveKeeps
<1>4. ASSUME ListForceEnd PROVE IInv'
  <2>1. GoodResult(zcbor_list_map_end_force_decode(zs))
    BY <1>1, ProcessTopGood DEF zcbor_list_map_end_force_decode
  <2> QED BY <1>1, <1>4, <2>1, LeaveKeeps DEF ListForceEnd
<1>5. ASSUME BstrEnd PROVE IInv'
  <2>1. GoodResult(zcbor_bstr_end_decode(zs))
    BY <1>1, BstrEndGood
  <2> QED BY <1>1, <1>5, <2>1, LeaveKeeps DEF BstrEnd
<1> QED BY <1>2, <1>3, <1>4, <1>5

LEMMA UnionSteps ==
    ASSUME IInv
    PROVE  UnionElem \/ UnionEnd \/ IterationOk \/ IterationFails => IInv'
<1>1. Good(zs) /\ failing \in BOOLEAN
  BY DEF IInv
<1>2. /\ GoodResult(zcbor_union_elem_code(zs))
      /\ GoodResult(zcbor_union_end_code(zs))
      /\ GoodResult(zcbor_process_backup(zs, {"CONSUME"}))
      /\ GoodResult(zcbor_process_backup(zs, {"CONSUME", "RESTORE"}))
  BY <1>1, ProcessTopGood DEF zcbor_union_elem_code, zcbor_union_end_code
<1>3. UnionElem => IInv'
  BY <1>2, ReturnKeeps DEF UnionElem
<1>4. UnionEnd => IInv'
  BY <1>1, <1>2, LeaveKeeps DEF UnionEnd
<1>5. ASSUME IterationOk PROVE IInv'
  <2>1. failing' \in BOOLEAN
    BY <1>5 DEF IterationOk
  <2> QED BY <1>2, <1>5, <2>1, LeaveKeeps DEF IterationOk
<1>6. ASSUME IterationFails PROVE IInv'
  <2>1. failing' \in BOOLEAN
    BY <1>6 DEF IterationFails
  <2> QED BY <1>2, <1>6, <2>1, LeaveKeeps DEF IterationFails
<1> QED BY <1>3, <1>4, <1>5, <1>6

LEMMA SearchFlagsGood == ASSUME IInv PROVE GoodResult(SearchFlags)
<1>1. Good(zs) /\ zs.state.elem_count \in Int
  BY GoodType DEF IInv, Cursor
<1>2. SizeT(ZCBOR_LARGE_ELEM_COUNT - zs.state.elem_count + 2) \in 0 .. SIZE_MAX
  <2>1. ZCBOR_LARGE_ELEM_COUNT - zs.state.elem_count + 2 \in Int
    BY <1>1, SizeAssumption DEF ZCBOR_LARGE_ELEM_COUNT
  <2> QED BY <2>1, SizeTType
<1> QED BY <1>1, <1>2, GrowMapGood, ResultGood DEF SearchFlags

\* The key that was found has been read.
LEMMA KeyReadGood ==
    ASSUME NEW m, Good(m), m.state.elem_count > 0, m.state.payload < m.state.payload_end
    PROVE  Good([m EXCEPT !.state.payload_bak = m.state.payload,
                          !.state.payload = @ + 1, !.state.elem_count = @ - 1])
<1> DEFINE c == [m.state EXCEPT !.payload_bak = m.state.payload,
                                !.payload = @ + 1, !.elem_count = @ - 1]
<1>1. /\ m \in Machine /\ m.state \in Cursor
      /\ m.state.payload \in 0 .. MaxPayload /\ m.state.payload_end \in 0 .. PayloadLen
      /\ m.state.elem_count \in 0 .. SIZE_MAX
  BY GoodType DEF Cursor
<1>2. /\ m.state.payload \in 0 .. PayloadLen /\ m.state.payload + 1 \in 0 .. MaxPayload
      /\ m.state.elem_count - 1 \in 0 .. SIZE_MAX
  BY <1>1, PayloadAssumption, SizeAssumption DEF MaxPayload
<1>3. c \in Cursor /\ c.decode_state = m.state.decode_state
  BY <1>1, <1>2 DEF Cursor
<1>4. [m EXCEPT !.state = c]
        = [m EXCEPT !.state.payload_bak = m.state.payload,
                    !.state.payload = @ + 1, !.state.elem_count = @ - 1]
  BY <1>1 DEF Machine, Cursor
<1> HIDE DEF c
<1> QED BY <1>3, <1>4, StateUpdateGood DEF Start

LEMMA KeysRefusedGood ==
    ASSUME NEW m, Good(m), NEW mm \in KeysRefused(m)
    PROVE  Good(mm)
<1> DEFINE e == zcbor_error(m, "WRONG_VALUE")
           c == [e.state EXCEPT !.payload_bak = m.state.payload]
           back == [e EXCEPT !.state.payload_bak = m.state.payload]
<1>1. "WRONG_TYPE" \in Errors /\ "WRONG_VALUE" \in Errors
  BY DEF Errors
<1>2. CASE ~initial_checks(m).ok
  BY <1>2, InitialChecksGood DEF KeysRefused, GoodResult
<1>3. CASE initial_checks(m).ok
  <2>1. /\ Good(e) /\ Good(zcbor_error(m, "WRONG_TYPE"))
        /\ m.state.payload < m.state.payload_end
    BY <1>1, <1>3, ErrorGood, InitialChecksGood
  <2> HIDE DEF e
  <2>2. /\ e \in Machine /\ e.state \in Cursor /\ m.state.payload \in 0 .. PayloadLen
    <3>1. m.state.payload \in 0 .. MaxPayload /\ m.state.payload_end \in 0 .. PayloadLen
      BY GoodType DEF Cursor
    <3> QED BY <2>1, <3>1, GoodType, PayloadAssumption DEF MaxPayload
  <2>3. c \in Cursor /\ c.decode_state = e.state.decode_state
    BY <2>2 DEF Cursor
  <2>4. [e EXCEPT !.state = c] = back
    BY <2>2 DEF Machine, Cursor
  <2>5. Good(back)
    <3> HIDE DEF c, back
    <3> QED BY <2>1, <2>3, <2>4, StateUpdateGood DEF Start
  <2> HIDE DEF back
  <2>6. mm \in {zcbor_error(m, "WRONG_TYPE"), back}
    BY <1>3 DEF KeysRefused, back, e
  <2> QED BY <2>1, <2>5, <2>6
<1> QED BY <1>2, <1>3

LEMMA SearchSteps ==
    ASSUME IInv
    PROVE  SearchStart \/ SearchRestarts \/ SearchFinds \/ SearchSkips \/ ElemProcessed
             => IInv'
<1> DEFINE g == SearchFlags
           t == should_try_key(g.m)
<1>1. /\ Good(zs)
      /\ zs.state.payload \in 0 .. MaxPayload /\ zs.state.elem_count \in 0 .. SIZE_MAX
  BY GoodType DEF IInv, Cursor
<1>2. GoodResult(g) /\ Good(g.m) /\ Good(t.m)
  BY SearchFlagsGood, ShouldTryKeyGood DEF GoodResult
<1>3. {"MAP_MISALIGNED", "NO_PAYLOAD"} \subseteq Errors
  BY DEF Errors
<1>4. ASSUME SearchStart PROVE IInv'
  <2>1. GoodResult(Err(zs, "MAP_MISALIGNED"))
    BY <1>1, <1>3, ErrGood
  <2>2. CASE zs.state.elem_count % 2 = 1
    BY <1>4, <2>1, <2>2, ReturnKeeps DEF SearchStart
  <2>3. CASE zs.state.elem_count % 2 # 1
    <3> DEFINE began == [payload |-> zs.state.payload, elem_count |-> zs.state.elem_count]
               places == [payload : 0 .. MaxPayload, elem_count : 0 .. SIZE_MAX]
    <3>1. began \in places
      BY <1>1
    <3>2. << began >> \in Seq(places)
      <4> HIDE DEF began, places
      <4> QED BY <3>1
    <3>3. search' = << began >> /\ UNCHANGED << zs, failing, calls >>
      BY <1>4, <2>3 DEF SearchStart
    <3> QED BY <3>2, <3>3 DEF IInv, Good, FlagsSound, Machine
  <2> QED BY <2>2, <2>3
<1>5. ASSUME SearchRestarts PROVE IInv'
  <2> DEFINE r == handle_map_end(zs)
  <2>1. GoodResult(r) /\ Good(r.m)
    BY <1>1, MapRestartGood DEF GoodResult
  <2>2. search # << >> /\ UNCHANGED calls
    BY <1>5 DEF SearchRestarts
  <2>3. CASE r.ok
    <3>1. SearchGoesOn(r.m)
      BY <1>5, <2>3 DEF SearchRestarts
    <3> QED BY <2>1, <2>2, <3>1, SearchGoesOnKeeps
  <2>4. CASE ~r.ok
    <3>1. SearchReturns(BackToStart(r.m))
      BY <1>5, <2>4 DEF SearchRestarts
    <3> QED BY <2>1, <2>2, <3>1, BackToStartGood, SearchReturnsKeeps
  <2> QED BY <2>3, <2>4
<1>6. ASSUME SearchFinds PROVE IInv'
  <2> DEFINE key == [g.m EXCEPT !.state.payload_bak = g.m.state.payload,
                                !.state.payload = @ + 1, !.state.elem_count = @ - 1]
  <2>1. /\ g.m.state.elem_count > 0 /\ g.m.state.payload < g.m.state.payload_end
        /\ SearchReturns(IF ManuallyProcess THEN Success(key) ELSE zcbor_elem_processed(key))
        /\ UNCHANGED calls
    BY <1>6 DEF SearchFinds
  <2> HIDE DEF g
  <2>3. Good(key)
    BY <1>2, <2>1, KeyReadGood
  <2> HIDE DEF key
  <2>4. GoodResult(Success(key)) /\ GoodResult(zcbor_elem_processed(key))
    BY <2>3, ResultGood, ElemProcessedGood
  <2> QED BY <2>1, <2>4, SearchReturnsKeeps
<1>7. ASSUME SearchSkips PROVE IInv'
  <2>1. search # << >> /\ UNCHANGED calls
    BY <1>7 DEF SearchSkips
  <2>2. CASE ~g.ok
    BY <1>2, <1>7, <2>1, <2>2, SearchReturnsKeeps DEF SearchSkips
  <2>3. CASE g.ok
    <3>1. PICK m \in IF t.ok THEN KeysRefused(t.m) ELSE {t.m} :
            \E key \in {any_skip(m, taken) : taken \in SkipResults(m.state)} :
            \E value \in {any_skip(key.m, taken) : taken \in SkipResults(key.m.state)} :
               IF key.ok /\ value.ok THEN SearchGoesOn(value.m)
               ELSE SearchReturns(BackToStart(IF key.ok THEN value.m ELSE key.m))
      BY <1>7, <2>3 DEF SearchSkips
    <3> HIDE DEF g, t
    <3>2. Good(m)
      BY <1>2, <3>1, KeysRefusedGood
    <3>3. PICK key \in {any_skip(m, taken) : taken \in SkipResults(m.state)} :
            \E value \in {any_skip(key.m, taken) : taken \in SkipResults(key.m.state)} :
               IF key.ok /\ value.ok THEN SearchGoesOn(value.m)
               ELSE SearchReturns(BackToStart(IF key.ok THEN value.m ELSE key.m))
      BY <3>1
    <3>4. Good(key.m)
      BY <3>2, SkipsType, AnySkipGood DEF GoodResult
    <3>5. PICK value \in {any_skip(key.m, taken) : taken \in SkipResults(key.m.state)} :
            IF key.ok /\ value.ok THEN SearchGoesOn(value.m)
            ELSE SearchReturns(BackToStart(IF key.ok THEN value.m ELSE key.m))
      BY <3>3
    <3>6. Good(value.m)
      BY <3>4, SkipsType, AnySkipGood DEF GoodResult
    <3>7. GoodResult(BackToStart(key.m)) /\ GoodResult(BackToStart(value.m))
      BY <2>1, <3>4, <3>6, BackToStartGood
    <3> QED BY <2>1, <3>5, <3>6, <3>7, SearchGoesOnKeeps, SearchReturnsKeeps
  <2> QED BY <2>2, <2>3
<1>8. ASSUME ElemProcessed PROVE IInv'
  <2>1. GoodResult(zcbor_elem_processed(zs))
    BY <1>1, ElemProcessedGood
  <2> QED BY <1>8, <2>1, ReturnKeeps DEF ElemProcessed
<1> QED BY <1>4, <1>5, <1>6, <1>7, <1>8

LEMMA NewStateStep == ASSUME IInv PROVE NewState => IInv'
<1> SUFFICES ASSUME NewState PROVE IInv'
  OBVIOUS
<1>1. PICK stop \in StopModes :
        zs' = [zcbor_new_state(zs, PayloadLen, RootElems) EXCEPT !.stop_on_error = stop]
  BY DEF NewState
<1> DEFINE n == zcbor_new_state(zs, PayloadLen, RootElems)
           m == [n EXCEPT !.stop_on_error = stop]
           r == Success(m)
<1>2. Good(n)
  BY NewStateGood DEF IInv
<1> HIDE DEF n
<1>3. /\ m \in Machine /\ m.backup_list = n.backup_list /\ m.state = n.state
  BY <1>2, StopAssumption DEF Good, Machine
<1>4. Good(m)
  BY <1>2, <1>3, SameFlags
<1> HIDE DEF m
<1>5. GoodResult(r) /\ r.ok = TRUE /\ r.m = m
  BY <1>4, ResultGood
<1>6. Return(r) /\ UNCHANGED calls
  BY <1>1, <1>5 DEF NewState, Return, m, n
<1> HIDE DEF r
<1> QED BY <1>5, <1>6, ReturnKeeps

LEMMA StepInvariant == IInv /\ [Next]_vars => IInv'
<1> SUFFICES ASSUME IInv, [Next]_vars PROVE IInv'
  OBVIOUS
<1>1. CASE Next
  BY <1>1, ValueSteps, StartSteps, EndSteps, UnionSteps, SearchSteps, NewStateStep DEF Next
<1>2. CASE UNCHANGED vars
  BY <1>2 DEF vars, IInv, Good, FlagsSound, Machine
<1> QED BY <1>1, <1>2

THEOREM Invariance == Spec => []IInv
BY InitInvariant, StepInvariant, PTL DEF Spec

-----------------------------------------------------------------------------
(* Theorems.                                                               *)

\* Whatever the payload and the sizes, every field keeps to its type: sections
\* in the payload, cursors less than its length behind it, counts without
\* wrapping, backups within their number.
THEOREM TypeCorrect == Spec => []TypeOK
<1>1. IInv => TypeOK
  BY DEF IInv, TypeOK, Good
<1> QED BY <1>1, Invariance, PTL

\* No cursor, however deep or orphaned, has flags past the end of the flag
\* buffer (the reads and writes of the map functions stay inside of it).
THEOREM FlagsStayInBounds == Spec => []FlagsInBounds
<1>1. IInv => FlagsInBounds
  <2> SUFFICES ASSUME IInv, SmartSearch, NEW i \in DOMAIN Stack
               PROVE  FlagEnd(Stack[i]) <= FlagBytes
    BY DEF FlagsInBounds
  <2> DEFINE n == Len(zs.backup_list)
  <2>1. zs.state \in Cursor /\ zs.backup_list \in Seq(Cursor) /\ n \in Nat
    BY GoodType DEF IInv
  <2>2. /\ Stack \in Seq(Cursor) /\ Len(Stack) = n + 1
        /\ \A j \in 1 .. n : Stack[j] = zs.backup_list[j]
        /\ Stack[n + 1] = zs.state
    BY <2>1, AppendProperties DEF Stack
  <2>3. i \in 1 .. n + 1
    BY <2>2, LenProperties
  <2> HIDE DEF n
  <2>4. i = n + 1 \/ i \in 1 .. n
    BY <2>1, <2>3
  <2> QED BY <2>2, <2>4 DEF IInv, Good, FlagsSound, n
<1> QED BY <1>1, Invariance, PTL

\* The next alternative of a union can be tried whenever no call has left its
\* backup behind: the room for the copy of the flags was there when the union
\* started and nothing takes it away.
THEOREM RetryStaysPossible == Spec => []RetryIsPossible
<1>1. IInv => RetryIsPossible
  <2> SUFFICES ASSUME IInv, In("union"), ~Orphaned, zcbor_check_error(zs),
                      ~zs.backup_list[Len(calls)].payload_moved
               PROVE  zcbor_union_elem_code(zs).ok
    BY DEF RetryIsPossible
  <2>1. Len(calls) \in Nat \ {0}
    BY EmptySeq DEF In, IInv
  <2>2. Len(zs.backup_list) = Len(calls)
    BY DEF Orphaned
  <2>3. zs.backup_list # << >>
    BY <2>1, <2>2, EmptySeq
  <2> QED BY <2>2, <2>3, ProcessTopGood DEF IInv, zcbor_union_elem_code
<1> QED BY <1>1, Invariance, PTL

\* Where a union cannot start, no backup is left on the list: the room for the
\* flags is checked, by a dry run, before the backup is taken.
THEOREM MarkStaysAtomic == Spec => []MarkIsAtomic
<1>1. IInv => MarkIsAtomic
  <2> SUFFICES ASSUME IInv, ~zcbor_union_start_code(zs).ok
               PROVE  zcbor_union_start_code(zs).m
                        = [zs EXCEPT !.error = zcbor_union_start_code(zs).m.error]
    BY DEF MarkIsAtomic
  <2> DEFINE p == Pushed(zs, zs.state.elem_count, SmartSearch)
             dry == do_elem_state_backup(zs, TRUE)
             r == zcbor_union_start_code(zs)
             Untouched(x) == x.m = [zs EXCEPT !.error = x.m.error]
  <2>1. /\ Good(zs) /\ zs \in Machine /\ zs.state.elem_count \in 0 .. SIZE_MAX
        /\ Len(zs.backup_list) \in Nat /\ NumBackups \in Nat
    BY GoodType, BackupAssumption DEF IInv, Cursor
  <2>2. /\ Untouched(Failure(zs))
        /\ \A err \in Errors : Untouched(Err(zs, err))
    BY <2>1 DEF Failure, Err, zcbor_error, Machine
  <2>3. {"NO_BACKUP_MEM", "MAP_FLAGS_NOT_AVAILABLE"} \subseteq Errors
    BY DEF Errors
  <2>4. SmartSearch \in BOOLEAN
    BY ModeAssumption
  <2>5. CASE ~zcbor_check_error(zs) \/ Len(zs.backup_list) >= NumBackups
               \/ (SmartSearch /\ ~RoomForCopy(zs.state))
    <3>1. r \in {Failure(zs)} \cup {Err(zs, err) : err \in Errors}
      BY <2>3, <2>5, ElemStateBackupGood DEF zcbor_union_start_code,
         zcbor_new_backup_w_elem_state, do_elem_state_backup, IInv
    <3> HIDE DEF r
    <3>2. Untouched(r)
      BY <2>2, <3>1
    <3> QED BY <3>2 DEF r
  <2>6. CASE ~(~zcbor_check_error(zs) \/ Len(zs.backup_list) >= NumBackups
                \/ (SmartSearch /\ ~RoomForCopy(zs.state)))
    <3>1. Good(p) /\ (RoomForCopy(p.state) <=> RoomForCopy(zs.state))
      BY <2>1, <2>4, <2>6, PushedGood
    <3>2. dry.ok <=> RoomForCopy(zs.state)
      BY <2>1, ElemStateBackupGood
    <3>3. (SmartSearch => do_elem_state_backup(p, FALSE).ok) /\ Success(p).ok
      BY <2>6, <3>1, ElemStateBackupGood, ResultGood
    <3>4. r = IF SmartSearch THEN do_elem_state_backup(p, FALSE) ELSE Success(p)
      BY <2>4, <2>6, <3>2 DEF zcbor_union_start_code, zcbor_new_backup_w_elem_state
    <3>5. r.ok
      <4> HIDE DEF r, p
      <4> QED BY <3>3, <3>4
    <3> QED BY <3>5
  <2> QED BY <2>5, <2>6
<1> QED BY <1>1, Invariance, PTL

=============================================================================
