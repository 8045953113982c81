------------------------- MODULE ZcborEncodeProofs -------------------------
(***************************************************************************)
(* Proofs about ZcborEncode: nothing is written behind the end of the      *)
(* payload, for any lengths of headers, inputs, sections and backups.      *)
(*                                                                         *)
(* The invariant is about the machine alone: whatever the caller does, each *)
(* call leaves a machine that is Good.                                     *)
(***************************************************************************)
EXTENDS ZcborEncode, FiniteSetTheorems, SequenceTheorems, TLAPS

Errors == {"SUCCESS", "NO_PAYLOAD", "BAD_ARG", "NO_BACKUP_MEM", "NO_BACKUP_ACTIVE",
           "PAYLOAD_OUTDATED", "MAP_FLAGS_NOT_AVAILABLE"}

Cell == Int \X Int \X Int

\* The encoder has no map flags to save.
DecodeState == [elem_state_backed_up : {FALSE}]

Cursor == [payload : Nat, payload_end : Payloads, elem_count : Int, payload_moved : BOOLEAN,
           decode_state : DecodeState]

Machine == [state : Cursor, backup_list : Seq(Cursor), error : Errors,
            stop_on_error : BOOLEAN, bytes : [Room -> Cell]]

\* A restored backup brings its own end of the payload: all backups must have
\* the end that the state has, also after a change of sections.
Within(c, end) == c.payload_end = end /\ c.payload <= end

Clean(bytes, end) == \A a \in Room : a >= end => bytes[a] = Untouched

Good(mc) ==
    /\ mc \in Machine
    /\ Within(mc.state, mc.state.payload_end)
    /\ \A i \in 1 .. Len(mc.backup_list) : Within(mc.backup_list[i], mc.state.payload_end)
    /\ Clean(mc.bytes, mc.state.payload_end)

GoodResult(r) == r.ok \in BOOLEAN /\ Good(r.m)

IInv == Good(m)

-----------------------------------------------------------------------------
(* Cells and headers.                                                      *)

LEMMA HeaderLen ==
    ASSUME NEW value
    PROVE  zcbor_header_len(value) \in Nat \ {0}
<1> DEFINE above == {i \in DOMAIN HeaderLimits : value > HeaderLimits[i]}
           n == Len(HeaderLimits)
<1>1. n \in Nat /\ n <= 4 /\ DOMAIN HeaderLimits = 1 .. n
  BY LimitAssumption
<1>2. IsFiniteSet(1 .. n) /\ Cardinality(1 .. n) = n
  <2> HIDE DEF n
  <2>1. IsFiniteSet(1 .. n) /\ Cardinality(1 .. n) = IF 1 > n THEN 0 ELSE n - 1 + 1
    BY <1>1, FS_Interval
  <2> QED BY <1>1, <2>1
<1>3. above \in SUBSET (1 .. n)
  BY <1>1
<1> HIDE DEF above, n
<1>4. IsFiniteSet(above) /\ Cardinality(above) <= n
  BY <1>2, <1>3, FS_Subset
<1>5. Cardinality(above) \in Nat
  BY <1>4, FS_CardinalityType
<1>6. Cardinality(above) \in 0 .. 4
  BY <1>1, <1>4, <1>5
<1> QED BY <1>6 DEF zcbor_header_len, HeaderBytes, above

LEMMA CellType == \A x, y, z \in Int : << x, y, z >> \in Cell
BY DEF Cell

LEMMA FunctionSeq ==
    ASSUME NEW n \in Nat, NEW f \in [1 .. n -> Cell]
    PROVE  f \in Seq(Cell) /\ Len(f) = n
OBVIOUS

LEMMA HeaderType ==
    ASSUME NEW major \in Int, NEW value \in Int
    PROVE  /\ Header(major, value) \in Seq(Cell)
           /\ Len(Header(major, value)) = zcbor_header_len(value)
<1> DEFINE n == zcbor_header_len(value)
<1>1. n \in Nat
  BY HeaderLen
<1> HIDE DEF n
<1>2. \A i \in 1 .. n : << major, value, i >> \in Cell
  BY <1>1, CellType
<1>3. Header(major, value) = [i \in 1 .. n |-> << major, value, i >>]
  BY DEF Header, n
<1> QED BY <1>1, <1>2, <1>3, FunctionSeq DEF n

LEMMA HeaderByteType ==
    ASSUME NEW major \in Int, NEW additional \in Int
    PROVE  /\ HeaderByte(major, additional) \in Seq(Cell)
           /\ Len(HeaderByte(major, additional)) = 1
BY CellType DEF HeaderByte

LEMMA ContentType ==
    ASSUME NEW len \in Nat
    PROVE  Content(len) \in Seq(Cell) /\ Len(Content(len)) = len
<1>1. \A i \in 1 .. len : << CONTENT, 0, i >> \in Cell
  BY CellType DEF CONTENT
<1> QED BY <1>1, FunctionSeq DEF Content

\* Writing changes the cells that are written, and those only.
LEMMA WrittenType ==
    ASSUME NEW bytes \in [Room -> Cell], NEW at \in Nat, NEW cells \in Seq(Cell),
           NEW end \in Nat, at + Len(cells) <= end
    PROVE  /\ Written(bytes, at, cells) \in [Room -> Cell]
           /\ Clean(bytes, end) => Clean(Written(bytes, at, cells), end)
<1>1. Len(cells) \in Nat /\ DOMAIN cells = 1 .. Len(cells)
      /\ \A k \in 1 .. Len(cells) : cells[k] \in Cell
  BY LenProperties, ElementOfSeq
<1>2. DOMAIN bytes = Room /\ \A a \in Room : bytes[a] \in Cell
  OBVIOUS
<1>3. \A a \in Room : a \in Int
  BY InputAssumption DEF Room
<1>4. \A a \in Room : a >= end => a - at + 1 \notin DOMAIN cells
  BY <1>1, <1>3
<1> QED BY <1>1, <1>2, <1>4 DEF Written, Clean

LEMMA MovedType ==
    ASSUME NEW bytes \in [Room -> Cell], NEW to \in Nat, NEW from \in Nat, NEW len \in Nat,
           NEW end \in Nat, to + len <= end, from + len <= MaxBytes
    PROVE  /\ Memmove(bytes, to, from, len) \in [Room -> Cell]
           /\ Clean(bytes, end) => Clean(Memmove(bytes, to, from, len), end)
<1>1. \A a \in Room : a \in Int
  BY InputAssumption DEF Room
<1>2. \A a \in Room : a \in to .. to + len - 1 => a - to + from \in Room
  BY <1>1, InputAssumption DEF Room
<1>3. \A a \in Room : a >= end => a \notin to .. to + len - 1
  BY <1>1
<1>4. DOMAIN bytes = Room /\ \A a \in Room : bytes[a] \in Cell
  OBVIOUS
<1> QED BY <1>2, <1>3, <1>4 DEF Memmove, Clean

-----------------------------------------------------------------------------
(* Machines.                                                               *)

LEMMA GoodType ==
    ASSUME NEW mc, Good(mc)
    PROVE  /\ mc \in Machine /\ mc.state \in Cursor /\ mc.backup_list \in Seq(Cursor)
           /\ mc.bytes \in [Room -> Cell] /\ Len(mc.backup_list) \in Nat
           /\ mc.state.payload \in Nat /\ mc.state.payload_end \in Nat
           /\ mc.state.payload_end <= MaxBytes /\ mc.state.payload <= mc.state.payload_end
           /\ mc.state.elem_count \in Int
           /\ \A i \in 1 .. Len(mc.backup_list) : mc.backup_list[i] \in Cursor
<1>1. /\ mc \in Machine /\ mc.state \in Cursor /\ mc.backup_list \in Seq(Cursor)
      /\ mc.bytes \in [Room -> Cell] /\ mc.state.payload <= mc.state.payload_end
  BY DEF Good, Machine, Within
<1>2. /\ mc.state.payload \in Nat /\ mc.state.payload_end \in Payloads
      /\ mc.state.elem_count \in Int
  BY <1>1 DEF Cursor
<1>3. Len(mc.backup_list) \in Nat /\ \A i \in 1 .. Len(mc.backup_list) : mc.backup_list[i] \in Cursor
  BY <1>1, LenProperties, ElementOfSeq
<1>4. mc.state.payload_end \in Nat /\ mc.state.payload_end <= MaxBytes
  <2>1. MaxBytes \in Nat /\ Payloads \subseteq 0 .. MaxBytes
    BY InputAssumption
  <2>2. mc.state.payload_end \in 0 .. MaxBytes
    BY <1>2, <2>1
  <2> QED BY <2>1, <2>2
<1> QED BY <1>1, <1>2, <1>3, <1>4

LEMMA ErrGood ==
    ASSUME NEW mc, Good(mc), NEW err \in Errors
    PROVE  /\ GoodResult(Err(mc, err)) /\ Err(mc, err).ok = FALSE
<1> DEFINE mm == [mc EXCEPT !.error = err]
<1>1. /\ mm \in Machine /\ mm.state = mc.state /\ mm.backup_list = mc.backup_list
      /\ mm.bytes = mc.bytes
  BY GoodType DEF Machine
<1>2. Good(mm)
  BY <1>1 DEF Good
<1> QED BY <1>2 DEF Err, zcbor_error, Failure, GoodResult

LEMMA ResultGood ==
    ASSUME NEW mc, Good(mc)
    PROVE  /\ GoodResult(Success(mc)) /\ Success(mc).ok = TRUE  /\ Success(mc).m = mc
           /\ GoodResult(Failure(mc)) /\ Failure(mc).ok = FALSE /\ Failure(mc).m = mc
BY DEF GoodResult, Success, Failure

Counted(mc, n)       == [mc EXCEPT !.state.elem_count = n]
Moved(mc, bytes, to) == [mc EXCEPT !.bytes = bytes, !.state.payload = to]

\* Another number of elements changes nothing that is said here.
LEMMA CountedGood ==
    ASSUME NEW mc, Good(mc), NEW n \in Int
    PROVE  LET mm == Counted(mc, n)
           IN  /\ Good(mm) /\ mm.state.payload = mc.state.payload
               /\ mm.state.payload_end = mc.state.payload_end
<1> DEFINE mm == Counted(mc, n)
           c == [mc.state EXCEPT !.elem_count = n]
<1>a. c \in Cursor /\ c.payload = mc.state.payload /\ c.payload_end = mc.state.payload_end
  BY GoodType DEF Cursor
<1>b. mm = [mc EXCEPT !.state = c]
  BY GoodType DEF Machine, Counted
<1> HIDE DEF mm, c
<1>1. /\ mm \in Machine /\ mm.backup_list = mc.backup_list /\ mm.bytes = mc.bytes
      /\ mm.state.payload = mc.state.payload /\ mm.state.payload_end = mc.state.payload_end
  BY <1>a, <1>b, GoodType DEF Machine
<1>2. Good(mm)
  BY <1>1 DEF Good, Within
<1> QED BY <1>1, <1>2 DEF mm

\* Other contents of the payload and another place in it.
LEMMA MovedGood ==
    ASSUME NEW mc, Good(mc), NEW bytes \in [Room -> Cell], Clean(bytes, mc.state.payload_end),
           NEW to \in Nat, to <= mc.state.payload_end
    PROVE  LET mm == Moved(mc, bytes, to)
           IN  /\ Good(mm) /\ mm.state.payload = to
               /\ mm.state.payload_end = mc.state.payload_end
               /\ mm.state.elem_count = mc.state.elem_count
<1> DEFINE mm == Moved(mc, bytes, to)
           c == [mc.state EXCEPT !.payload = to]
<1>a. /\ c \in Cursor /\ c.payload = to /\ c.payload_end = mc.state.payload_end
      /\ c.elem_count = mc.state.elem_count
  BY GoodType DEF Cursor
<1>b. mm = [mc EXCEPT !.bytes = bytes, !.state = c]
  BY GoodType DEF Machine, Moved
<1> HIDE DEF mm, c
<1>1. /\ mm \in Machine /\ mm.backup_list = mc.backup_list /\ mm.bytes = bytes
      /\ mm.state.payload = to /\ mm.state.payload_end = mc.state.payload_end
      /\ mm.state.elem_count = mc.state.elem_count
  <2>1. mc \in Machine
    BY GoodType
  <2>2. mm \in Machine
    BY <1>a, <1>b, <2>1 DEF Machine
  <2>3. mm.state = c /\ mm.bytes = bytes /\ mm.backup_list = mc.backup_list
    BY <1>b, <2>1 DEF Machine
  <2> QED BY <1>a, <2>2, <2>3
<1>2. Good(mm)
  BY <1>1 DEF Good, Within
<1> QED BY <1>1, <1>2 DEF mm

LEMMA PutGood ==
    ASSUME NEW mc, Good(mc), NEW cells \in Seq(Cell),
           mc.state.payload + Len(cells) <= mc.state.payload_end
    PROVE  /\ Good(Put(mc, cells))
           /\ Put(mc, cells).state.payload = mc.state.payload + Len(cells)
           /\ Put(mc, cells).state.payload_end = mc.state.payload_end
           /\ Put(mc, cells).state.elem_count = mc.state.elem_count
<1> DEFINE bytes == Written(mc.bytes, mc.state.payload, cells)
           to == mc.state.payload + Len(cells)
<1>1. bytes \in [Room -> Cell] /\ Clean(bytes, mc.state.payload_end)
  BY GoodType, WrittenType DEF Good
<1>2. to \in Nat /\ to <= mc.state.payload_end
  BY GoodType, LenProperties
<1>3. Put(mc, cells) = Moved(mc, bytes, to)
  BY GoodType DEF Put, Moved, Machine, Cursor
<1> HIDE DEF bytes, to
<1>4. /\ Good(Put(mc, cells)) /\ Put(mc, cells).state.payload = to
      /\ Put(mc, cells).state.payload_end = mc.state.payload_end
      /\ Put(mc, cells).state.elem_count = mc.state.elem_count
  BY <1>1, <1>2, <1>3, MovedGood
<1> QED BY <1>4 DEF to

\* Headers with additional information only: the start and the break of an
\* indefinite list.
LEMMA EncodeHeaderByteGood ==
    ASSUME NEW mc, Good(mc), NEW major \in Int, NEW additional \in Int
    PROVE  GoodResult(encode_header_byte(mc, major, additional))
<1> DEFINE cells == HeaderByte(major, additional)
<1>1. cells \in Seq(Cell) /\ Len(cells) = 1
  BY HeaderByteType
<1>2. "NO_PAYLOAD" \in Errors
  BY DEF Errors
<1>3. CASE ~zcbor_check_error(mc)
  BY <1>3, ResultGood DEF encode_header_byte
<1>4. CASE zcbor_check_error(mc) /\ mc.state.payload >= mc.state.payload_end
  BY <1>2, <1>4, ErrGood DEF encode_header_byte
<1>5. CASE zcbor_check_error(mc) /\ ~(mc.state.payload >= mc.state.payload_end)
  <2>1. mc.state.payload + Len(cells) <= mc.state.payload_end
    BY <1>1, <1>5, GoodType
  <2>2. Good(Put(mc, cells))
    BY <1>1, <2>1, PutGood
  <2>3. encode_header_byte(mc, major, additional) = Success(Put(mc, cells))
    BY <1>5 DEF encode_header_byte
  <2> QED BY <2>2, <2>3, ResultGood
<1> QED BY <1>3, <1>4, <1>5

\* A value that is encoded takes its header and no more.
LEMMA ValueEncodeGood ==
    ASSUME NEW mc, Good(mc), NEW major \in Int, NEW value \in Int
    PROVE  LET r == value_encode(mc, major, value)
           IN  /\ GoodResult(r)
               /\ r.ok => /\ r.m.state.payload = mc.state.payload + zcbor_header_len(value)
                          /\ r.m.state.payload_end = mc.state.payload_end
                          /\ mc.state.payload + zcbor_header_len(value) <= mc.state.payload_end
<1> DEFINE cells == Header(major, value)
           put == Put(mc, cells)
           counted == [put EXCEPT !.state.elem_count = @ + 1]
           n == put.state.elem_count + 1
<1>1. cells \in Seq(Cell) /\ Len(cells) = zcbor_header_len(value)
  BY HeaderType
<1>2. "NO_PAYLOAD" \in Errors
  BY DEF Errors
<1>3. CASE mc.state.payload + Len(cells) > mc.state.payload_end
  BY <1>2, <1>3, ErrGood DEF value_encode
<1>4. CASE ~(mc.state.payload + Len(cells) > mc.state.payload_end) /\ ~zcbor_check_error(mc)
  BY <1>4, ResultGood DEF value_encode
<1>5. CASE ~(mc.state.payload + Len(cells) > mc.state.payload_end) /\ zcbor_check_error(mc)
  <2>1. Len(cells) \in Nat
    BY <1>1, HeaderLen
  <2>2. mc.state.payload + Len(cells) <= mc.state.payload_end
    BY <1>5, <2>1, GoodType
  <2>3. value_encode(mc, major, value) = Success(counted)
    BY <1>5 DEF value_encode
  <2> HIDE DEF cells
  <2>4. /\ Good(put) /\ put.state.payload = mc.state.payload + Len(cells)
        /\ put.state.payload_end = mc.state.payload_end
    BY <1>1, <2>2, PutGood
  <2> HIDE DEF put
  <2>5. n \in Int
    BY <2>4, GoodType
  <2>6. counted = Counted(put, n)
    BY <2>4, GoodType DEF Machine, Cursor, Counted
  <2> HIDE DEF counted, n
  <2>8. /\ Good(counted) /\ counted.state.payload = put.state.payload
        /\ counted.state.payload_end = put.state.payload_end
    BY <2>4, <2>5, <2>6, CountedGood
  <2>9. LET r == Success(counted)
        IN  /\ GoodResult(r) /\ r.m.state.payload = mc.state.payload + Len(cells)
            /\ r.m.state.payload_end = mc.state.payload_end
    BY <2>4, <2>8, ResultGood
  <2> QED BY <1>1, <2>2, <2>3, <2>9
<1> QED BY <1>3, <1>4, <1>5

Stepped(mc, to) == [mc EXCEPT !.state.payload = to]

LEMMA SteppedGood ==
    ASSUME NEW mc, Good(mc), NEW to \in Nat, to <= mc.state.payload_end
    PROVE  /\ Good(Stepped(mc, to))
           /\ Stepped(mc, to).state.payload_end = mc.state.payload_end
<1> DEFINE c == [mc.state EXCEPT !.payload = to]
           mm == Stepped(mc, to)
<1>1. c \in Cursor /\ c.payload = to /\ c.payload_end = mc.state.payload_end
  BY GoodType DEF Cursor
<1>2. mm = [mc EXCEPT !.state = c]
  BY GoodType DEF Machine, Stepped
<1> HIDE DEF mm, c
<1>3. /\ mm \in Machine /\ mm.state = c
      /\ mm.backup_list = mc.backup_list /\ mm.bytes = mc.bytes
  BY <1>1, <1>2, GoodType DEF Machine
<1>4. Good(mm)
  BY <1>1, <1>3 DEF Good, Within
<1> QED BY <1>1, <1>3, <1>4 DEF mm

LEMMA BytesGood ==
    ASSUME NEW mc, Good(mc), NEW bytes \in [Room -> Cell], Clean(bytes, mc.state.payload_end)
    PROVE  LET mm == [mc EXCEPT !.bytes = bytes] IN Good(mm) /\ mm.state = mc.state
<1> DEFINE mm == [mc EXCEPT !.bytes = bytes]
<1>1. /\ mm \in Machine /\ mm.state = mc.state
      /\ mm.backup_list = mc.backup_list /\ mm.bytes = bytes
  BY GoodType DEF Machine
<1> HIDE DEF mm
<1>2. Good(mm)
  BY <1>1 DEF Good
<1> QED BY <1>1, <1>2 DEF mm

-----------------------------------------------------------------------------
(* Backups.                                                                *)

LEMMA NewBackupGood ==
    ASSUME NEW mc, Good(mc)
    PROVE  LET r == zcbor_new_backup(mc, 0)
           IN  GoodResult(r) /\ (r.ok => r.m.state.payload_end = mc.state.payload_end)
<1> DEFINE r == zcbor_new_backup(mc, 0)
           pushed == Pushed(mc, 0, FALSE)
           saved == [mc.state EXCEPT !.payload_moved = FALSE,
                                     !.decode_state.elem_state_backed_up = FALSE]
           state == [saved EXCEPT !.elem_count = 0]
           list == Append(mc.backup_list, saved)
<1>1. "NO_BACKUP_MEM" \in Errors
  BY DEF Errors
<1>2. CASE ~zcbor_check_error(mc)
  BY <1>2, ResultGood DEF zcbor_new_backup, zcbor_new_backup_w_elem_state
<1>3. CASE zcbor_check_error(mc) /\ Len(mc.backup_list) >= NumBackups
  BY <1>1, <1>3, ErrGood DEF zcbor_new_backup, zcbor_new_backup_w_elem_state
<1>4. CASE zcbor_check_error(mc) /\ ~(Len(mc.backup_list) >= NumBackups)
  <2>1. r = Success(pushed)
    <3>1. (SmartSearch /\ FALSE) = FALSE
      OBVIOUS
    <3> QED BY <1>4, <3>1 DEF zcbor_new_backup, zcbor_new_backup_w_elem_state
  <2>2. mc \in Machine /\ mc.state \in Cursor
    BY GoodType
  <2>3. /\ saved \in Cursor
        /\ saved.payload = mc.state.payload /\ saved.payload_end = mc.state.payload_end
    BY <2>2 DEF Cursor, DecodeState
  <2>4. pushed = [mc EXCEPT !.backup_list = list, !.state = state]
    BY <2>2 DEF Pushed, Machine
  <2> HIDE DEF r, pushed, saved
  <2>5. /\ state \in Cursor
        /\ state.payload = mc.state.payload /\ state.payload_end = mc.state.payload_end
    BY <2>3 DEF Cursor
  <2>6. /\ list \in Seq(Cursor) /\ Len(list) = Len(mc.backup_list) + 1
        /\ \A i \in 1 .. Len(mc.backup_list) : list[i] = mc.backup_list[i]
        /\ list[Len(mc.backup_list) + 1] = saved
    BY <2>3, GoodType, AppendProperties
  <2> HIDE DEF state, list
  <2>7. /\ pushed \in Machine /\ pushed.state = state
        /\ pushed.backup_list = list /\ pushed.bytes = mc.bytes
    BY <2>2, <2>4, <2>5, <2>6 DEF Machine
  <2>8. Within(state, mc.state.payload_end) /\ Within(saved, mc.state.payload_end)
    BY <2>3, <2>5, GoodType DEF Within
  <2>9. \A i \in 1 .. Len(list) : Within(list[i], mc.state.payload_end)
    <3> SUFFICES ASSUME NEW i \in 1 .. Len(list)
                 PROVE  Within(list[i], mc.state.payload_end)
      OBVIOUS
    <3>1. i \in 1 .. Len(mc.backup_list) \/ i = Len(mc.backup_list) + 1
      BY <2>6, GoodType
    <3>2. CASE i \in 1 .. Len(mc.backup_list)
      BY <2>6, <3>2 DEF Good
    <3>3. CASE i = Len(mc.backup_list) + 1
      BY <2>6, <2>8, <3>3
    <3> QED BY <3>1, <3>2, <3>3
  <2>10. Good(pushed)
    BY <2>5, <2>7, <2>8, <2>9 DEF Good
  <2> QED BY <2>1, <2>5, <2>7, <2>10, ResultGood DEF r
<1> QED BY <1>2, <1>3, <1>4

LEMMA RestoredGood ==
    ASSUME NEW mc, Good(mc), NEW n \in 1 .. Len(mc.backup_list)
    PROVE  LET mm == [mc EXCEPT !.state = mc.backup_list[n]]
           IN  /\ Good(mm) /\ mm.backup_list = mc.backup_list
               /\ mm.state.payload_end = mc.state.payload_end
<1> DEFINE backup == mc.backup_list[n]
           mm == [mc EXCEPT !.state = backup]
<1>1. backup \in Cursor /\ Within(backup, mc.state.payload_end)
  BY GoodType DEF Good
<1> HIDE DEF backup
<1>2. /\ mm \in Machine /\ mm.state = backup
      /\ mm.backup_list = mc.backup_list /\ mm.bytes = mc.bytes
  BY <1>1, GoodType DEF Machine
<1> HIDE DEF mm
<1>3. mm.state.payload_end = mc.state.payload_end
  BY <1>1, <1>2 DEF Within
<1>4. Good(mm)
  BY <1>1, <1>2, <1>3 DEF Good
<1> QED BY <1>2, <1>3, <1>4 DEF mm, backup

Dropped(mc) == [mc EXCEPT !.backup_list = SubSeq(@, 1, Len(@) - 1)]

LEMMA DroppedGood ==
    ASSUME NEW mc, Good(mc), mc.backup_list # << >>
    PROVE  Good(Dropped(mc)) /\ Dropped(mc).state = mc.state
<1> DEFINE n == Len(mc.backup_list)
           list == SubSeq(mc.backup_list, 1, n - 1)
           mm == Dropped(mc)
<1>1. n \in Nat \ {0} /\ \A i \in 1 .. n : mc.backup_list[i] \in Cursor
  BY GoodType, EmptySeq
<1>2. /\ list \in Seq(Cursor) /\ Len(list) = n - 1
      /\ \A i \in 1 .. n - 1 : list[i] = mc.backup_list[i]
  BY <1>1, SubSeqProperties
<1>3. mm = [mc EXCEPT !.backup_list = list]
  BY GoodType DEF Machine, Dropped
<1> HIDE DEF n, list, mm
<1>4. /\ mm \in Machine /\ mm.state = mc.state
      /\ mm.backup_list = list /\ mm.bytes = mc.bytes
  BY <1>2, <1>3, GoodType DEF Machine
<1>5. \A i \in 1 .. n - 1 : Within(list[i], mc.state.payload_end)
  BY <1>1, <1>2 DEF Good, n
<1>6. Good(mm)
  BY <1>2, <1>4, <1>5 DEF Good
<1> QED BY <1>4, <1>6 DEF mm

UsedFlags == {{"CONSUME"}, {"RESTORE", "CONSUME"}, {"RESTORE", "CONSUME", "KEEP_PAYLOAD"}}

\* Whatever is done with the top backup, the end of the payload stays.
LEMMA ProcessBackupGood ==
    ASSUME NEW mc, Good(mc), NEW flags \in UsedFlags
    PROVE  LET r == zcbor_process_backup(mc, flags)
           IN  GoodResult(r) /\ r.m.state.payload_end = mc.state.payload_end
<1> DEFINE n == Len(mc.backup_list)
           backup == mc.backup_list[n]
           restored == [mc EXCEPT !.state = backup]
           r == zcbor_process_backup(mc, flags)
<1>0. /\ "NO_BACKUP_ACTIVE" \in Errors /\ "BAD_ARG" \in Errors /\ "PAYLOAD_OUTDATED" \in Errors
      /\ "CONSUME" \in flags /\ "KEEP_DECODE_STATE" \notin flags
      /\ "KEEP_PAYLOAD" \in flags => "RESTORE" \in flags
  BY DEF Errors, UsedFlags
<1>e. ASSUME NEW err \in Errors
      PROVE  GoodResult(Err(mc, err)) /\ Err(mc, err).m.state.payload_end = mc.state.payload_end
  <2>1. GoodResult(Err(mc, err))
    BY ErrGood
  <2>2. Err(mc, err).m.state = mc.state
    BY GoodType DEF Err, Failure, zcbor_error, Machine
  <2> QED BY <2>1, <2>2
<1>1. CASE mc.backup_list = << >>
  BY <1>0, <1>1, <1>e DEF zcbor_process_backup
<1>2. CASE mc.backup_list # << >>
  <2>1. n \in Nat \ {0} /\ n \in 1 .. n /\ ~(n > n)
    BY <1>2, GoodType, EmptySeq
  <2>2. r = zcbor_process_backup_num(mc, flags, n)
    BY <1>2 DEF zcbor_process_backup
  <2>3. backup \in Cursor /\ backup.decode_state.elem_state_backed_up = FALSE
    BY <2>1, GoodType DEF Cursor, DecodeState
  <2>4. /\ Good(restored) /\ restored.backup_list = mc.backup_list
        /\ restored.state.payload_end = mc.state.payload_end
    BY <2>1, RestoredGood
  <2>5. /\ Good(Dropped(restored)) /\ Dropped(restored).state = restored.state
        /\ Good(Dropped(mc)) /\ Dropped(mc).state = mc.state
    BY <1>2, <2>4, DroppedGood
  <2>6. RestoreFrom(mc, backup, "CONSUME" \in flags) = Success(restored)
    BY <1>0 DEF RestoreFrom
  <2>7. "RESTORE" \in flags => ConsumeTop(restored, backup, "RESTORE" \in flags) = Dropped(restored)
    BY DEF ConsumeTop, Dropped
  <2>8. "RESTORE" \notin flags => ConsumeTop(mc, backup, "RESTORE" \in flags) = Dropped(mc)
    BY <2>3 DEF ConsumeTop, Dropped
  <2>9. n = Len(mc.backup_list) /\ backup = mc.backup_list[n]
    OBVIOUS
  <2> HIDE DEF n, backup, restored, r
  <2>10. ~(\/ n = 0 \/ n > Len(mc.backup_list)
           \/ "CONSUME" \in flags /\ ("KEEP_DECODE_STATE" \in flags \/ n # Len(mc.backup_list)))
    BY <1>0, <2>1, <2>9
  <2> DEFINE res  == IF "RESTORE" \in flags THEN RestoreFrom(mc, backup, "CONSUME" \in flags)
                     ELSE Success(mc)
             kept == IF "CONSUME" \in flags THEN ConsumeTop(res.m, backup, "RESTORE" \in flags)
                     ELSE res.m
  <2>r. "RESTORE" \in flags => res.ok = TRUE /\ kept = Dropped(restored)
    <3>1. "RESTORE" \in flags => res.ok = TRUE /\ res.m = restored
      BY <2>4, <2>6, ResultGood
    <3> HIDE DEF res
    <3> QED BY <1>0, <2>7, <3>1
  <2> HIDE DEF res, kept
  <2>11. CASE ~zcbor_check_error(mc)
    <3>1. r = Failure(mc)
      BY <2>2, <2>11 DEF zcbor_process_backup_num
    <3> QED BY <3>1, ResultGood DEF r
  <2>12. CASE /\ zcbor_check_error(mc) /\ "RESTORE" \in flags /\ "KEEP_PAYLOAD" \notin flags
              /\ backup.payload_moved
    <3>1. r = Err(mc, "PAYLOAD_OUTDATED")
      BY <2>2, <2>9, <2>10, <2>12 DEF zcbor_process_backup_num
    <3> QED BY <1>0, <1>e, <3>1 DEF r
  <2>13. CASE /\ zcbor_check_error(mc) /\ "RESTORE" \in flags /\ "KEEP_PAYLOAD" \notin flags
              /\ ~backup.payload_moved
    <3>1. r = Success(Dropped(restored))
      BY <1>0, <2>2, <2>9, <2>10, <2>r, <2>13 DEF zcbor_process_backup_num, res, kept
    <3> QED BY <2>4, <2>5, <3>1, ResultGood DEF r
  <2>14. CASE zcbor_check_error(mc) /\ "RESTORE" \in flags /\ "KEEP_PAYLOAD" \in flags
    <3>1. r = Success(Stepped(Dropped(restored), mc.state.payload))
      BY <1>0, <2>2, <2>9, <2>10, <2>r, <2>14
         DEF zcbor_process_backup_num, Stepped, res, kept
    <3>2. /\ Good(Stepped(Dropped(restored), mc.state.payload))
          /\ Stepped(Dropped(restored), mc.state.payload).state.payload_end = mc.state.payload_end
      BY <2>4, <2>5, GoodType, SteppedGood
    <3> QED BY <3>1, <3>2, ResultGood DEF r
  <2>15. CASE zcbor_check_error(mc) /\ "RESTORE" \notin flags
    <3>1. r = Success(Dropped(mc))
      BY <1>0, <2>2, <2>8, <2>9, <2>10, <2>15 DEF zcbor_process_backup_num, Success
    <3>2. GoodResult(r) /\ r.m.state.payload_end = mc.state.payload_end
      BY <2>5, <3>1, ResultGood
    <3> QED BY <3>2 DEF r
  <2> QED BY <2>11, <2>12, <2>13, <2>14, <2>15
<1> QED BY <1>1, <1>2

-----------------------------------------------------------------------------
(* The calls.                                                              *)

LEMMA TagPutGood ==
    ASSUME NEW mc, Good(mc), NEW tag \in Int
    PROVE  GoodResult(zcbor_tag_put(mc, tag))
<1> DEFINE v == value_encode(mc, TAG, tag)
           n == v.m.state.elem_count - 1
<1>1. GoodResult(v)
  BY ValueEncodeGood DEF TAG
<1> HIDE DEF v
<1>2. CASE v.ok
  <2>1. n \in Int
    BY <1>1, GoodType DEF GoodResult
  <2>2. zcbor_tag_put(mc, tag) = Success(Counted(v.m, n))
    BY <1>1, <1>2, GoodType DEF zcbor_tag_put, v, GoodResult, Counted, Machine, Cursor
  <2> HIDE DEF n
  <2> QED BY <1>1, <2>1, <2>2, CountedGood, ResultGood DEF GoodResult
<1>3. CASE ~v.ok
  BY <1>1, <1>3 DEF zcbor_tag_put, v
<1> QED BY <1>2, <1>3

\* The string comes from elsewhere or from this payload, where it may be
\* moved in either direction.
LEMMA StrEncodeGood ==
    ASSUME NEW mc, Good(mc), NEW value \in Int, NEW len \in Int, NEW major \in Int,
           value = External \/ (value \in Nat /\ value + len <= mc.state.payload_end)
    PROVE  GoodResult(str_encode(mc, value, len, major))
<1> DEFINE h     == value_encode(mc, major, len)
           at    == h.m.state.payload
           bytes == IF value = External THEN Written(h.m.bytes, at, Content(len))
                    ELSE Memmove(h.m.bytes, at, value, len)
           done  == [h.m EXCEPT !.bytes = bytes, !.state.payload = @ + len]
<1>1. "NO_PAYLOAD" \in Errors
  BY DEF Errors
<1>2. /\ GoodResult(h)
      /\ h.ok => /\ h.m.state.payload = mc.state.payload + zcbor_header_len(len)
                 /\ h.m.state.payload_end = mc.state.payload_end
  BY ValueEncodeGood
<1>3. CASE \/ mc.state.payload >= mc.state.payload_end \/ len < 0
           \/ mc.state.payload + zcbor_header_len(len) + len > mc.state.payload_end
  BY <1>1, <1>3, ErrGood DEF str_encode
<1>4. CASE ~(\/ mc.state.payload >= mc.state.payload_end \/ len < 0
             \/ mc.state.payload + zcbor_header_len(len) + len > mc.state.payload_end)
  <2>1. str_encode(mc, value, len, major) = IF ~h.ok THEN h ELSE Success(done)
    BY <1>4 DEF str_encode
  <2> HIDE DEF h
  <2>2. CASE ~h.ok
    BY <1>2, <2>1, <2>2
  <2>3. CASE h.ok
    <3>1. len \in Nat /\ Good(h.m)
      BY <1>2, <1>4 DEF GoodResult
    <3>2. /\ mc.state.payload \in Nat /\ mc.state.payload_end \in Nat
          /\ mc.state.payload_end <= MaxBytes /\ MaxBytes \in Nat
      BY GoodType, InputAssumption
    <3>3. zcbor_header_len(len) \in Nat
      BY HeaderLen
    <3>4. at \in Nat /\ at + len <= mc.state.payload_end
      BY <1>2, <1>4, <2>3, <3>1, <3>2, <3>3
    <3>5. h.m.bytes \in [Room -> Cell] /\ Clean(h.m.bytes, mc.state.payload_end)
      BY <1>2, <2>3, <3>1, GoodType DEF Good
    <3> HIDE DEF at
    <3>6. bytes \in [Room -> Cell] /\ Clean(bytes, mc.state.payload_end)
      <4>1. CASE value = External
        <5>1. Content(len) \in Seq(Cell) /\ at + Len(Content(len)) <= mc.state.payload_end
          BY <3>1, <3>4, ContentType
        <5> QED BY <3>2, <3>4, <3>5, <4>1, <5>1, WrittenType
      <4>2. CASE value # External
        <5>1. value \in Nat /\ value + len <= MaxBytes
          BY <3>1, <3>2, <4>2
        <5> QED BY <3>1, <3>2, <3>4, <3>5, <4>2, <5>1, MovedType
      <4> QED BY <4>1, <4>2
    <3> HIDE DEF bytes
    <3>7. done = Moved(h.m, bytes, at + len)
      BY <3>1, GoodType DEF Moved, at, Machine, Cursor
    <3> HIDE DEF done
    <3>8. at + len \in Nat
      BY <3>1, <3>4
    <3>9. Good(done)
      BY <1>2, <2>3, <3>1, <3>4, <3>6, <3>7, <3>8, MovedGood
    <3> QED BY <2>1, <2>3, <3>9, ResultGood
  <2> QED BY <2>2, <2>3
<1> QED BY <1>3, <1>4

LEMMA BstrStartGood ==
    ASSUME NEW mc, Good(mc)
    PROVE  GoodResult(zcbor_bstr_start_encode(mc))
<1> DEFINE b == zcbor_new_backup(mc, 0)
           len == zcbor_remaining_str_len(b.m.state)
           h == value_encode(b.m, BSTR, len)
           p == zcbor_process_backup(h.m, {"CONSUME"})
<1>1. GoodResult(b)
  BY NewBackupGood
<1> HIDE DEF b
<1>2. len \in Int
  <2>1. b.m.state.payload \in Int /\ b.m.state.payload_end \in Int
    BY <1>1, GoodType DEF GoodResult
  <2>2. \A value : zcbor_header_len(value) \in Int
    BY HeaderLen
  <2> QED BY <2>1, <2>2 DEF zcbor_remaining_str_len
<1> HIDE DEF len
<1>3. GoodResult(h)
  BY <1>1, <1>2, ValueEncodeGood DEF GoodResult, BSTR
<1> HIDE DEF h
<1>4. GoodResult(p)
  BY <1>3, ProcessBackupGood DEF GoodResult, UsedFlags
<1> HIDE DEF p
<1>5. zcbor_bstr_start_encode(mc) = IF ~b.ok THEN b ELSE IF ~h.ok THEN Failure(p.m) ELSE h
  BY DEF zcbor_bstr_start_encode, b, len, h, p
<1>6. GoodResult(Failure(p.m))
  BY <1>4, ResultGood DEF GoodResult
<1> QED BY <1>1, <1>3, <1>5, <1>6

LEMMA BstrEndGood ==
    ASSUME NEW mc, Good(mc)
    PROVE  GoodResult(zcbor_bstr_end_encode(mc))
<1> DEFINE r == zcbor_process_backup(mc, {"RESTORE", "CONSUME"})
           value == r.m.state.payload + zcbor_header_len(zcbor_remaining_str_len(r.m.state))
           len == mc.state.payload - value
<1>1. GoodResult(r) /\ r.m.state.payload_end = mc.state.payload_end
  BY ProcessBackupGood DEF UsedFlags
<1> HIDE DEF r
<1>2. r.m.state.payload \in Nat /\ zcbor_header_len(zcbor_remaining_str_len(r.m.state)) \in Nat
  BY <1>1, GoodType, HeaderLen DEF GoodResult
<1>3. value \in Nat
  BY <1>2
<1> HIDE DEF value
<1>4. len \in Int /\ value + len <= r.m.state.payload_end
  BY <1>1, <1>3, GoodType
<1> HIDE DEF len
<1>5. GoodResult(str_encode(r.m, value, len, BSTR))
  BY <1>1, <1>3, <1>4, StrEncodeGood DEF GoodResult, BSTR
<1>6. zcbor_bstr_end_encode(mc) = IF ~r.ok THEN r ELSE str_encode(r.m, value, len, BSTR)
  BY DEF zcbor_bstr_end_encode, r, value, len
<1> QED BY <1>1, <1>5, <1>6

LEMMA ListStartGood ==
    ASSUME NEW mc, Good(mc), NEW size_hint \in Int, NEW major \in Int
    PROVE  GoodResult(list_map_start_encode(mc, size_hint, major))
<1> DEFINE b == zcbor_new_backup(mc, 0)
           h == value_encode(b.m, major, size_hint)
           n == h.m.state.elem_count - 1
<1>1. GoodResult(b)
  BY NewBackupGood
<1>2. GoodResult(encode_header_byte(mc, major, INDEFINITE))
  BY EncodeHeaderByteGood DEF INDEFINITE
<1> HIDE DEF b
<1>3. GoodResult(h)
  BY <1>1, ValueEncodeGood DEF GoodResult
<1> HIDE DEF h
<1>4. n \in Int
  BY <1>3, GoodType DEF GoodResult
<1>5. [h.m EXCEPT !.state.elem_count = @ - 1] = Counted(h.m, n)
  BY <1>3, GoodType DEF GoodResult, Counted, Machine, Cursor
<1> HIDE DEF n
<1>6. GoodResult(Success(Counted(h.m, n)))
  BY <1>3, <1>4, CountedGood, ResultGood DEF GoodResult
<1>7. list_map_start_encode(mc, size_hint, major) =
        IF ~canonical THEN encode_header_byte(mc, major, INDEFINITE)
        ELSE IF ~b.ok THEN b ELSE IF ~h.ok THEN h ELSE Success(Counted(h.m, n))
  BY <1>5 DEF list_map_start_encode, b, h
<1> QED BY <1>1, <1>2, <1>3, <1>6, <1>7

LEMMA KeepHeaderGood ==
    ASSUME NEW mc, Good(mc)
    PROVE  GoodResult(KeepHeader(mc))
<1> DEFINE r == zcbor_process_backup(mc, {"RESTORE", "CONSUME", "KEEP_PAYLOAD"})
           n == r.m.state.elem_count + 1
<1>1. GoodResult(r)
  BY ProcessBackupGood DEF UsedFlags
<1> HIDE DEF r
<1>2. n \in Int
  BY <1>1, GoodType DEF GoodResult
<1>3. [r.m EXCEPT !.state.elem_count = @ + 1] = Counted(r.m, n)
  BY <1>1, GoodType DEF GoodResult, Counted, Machine, Cursor
<1> HIDE DEF n
<1>4. GoodResult(Success(Counted(r.m, n)))
  BY <1>1, <1>2, CountedGood, ResultGood DEF GoodResult
<1> QED BY <1>1, <1>3, <1>4 DEF KeepHeader, r

\* The body is moved to where the new header ends; what was checked before is
\* that this leaves it in the payload.
LEMMA MoveThenHeaderGood ==
    ASSUME NEW mc, Good(mc), NEW old_body \in Nat, NEW size \in Nat,
           NEW list_count \in Int, NEW major \in Int,
           old_body + size <= mc.state.payload_end,
           mc.state.payload + zcbor_header_len(list_count) + size <= mc.state.payload_end
    PROVE  GoodResult(MoveThenHeader(mc, mc.state.payload + zcbor_header_len(list_count),
                                     old_body, size, list_count, major))
<1> DEFINE new_body == mc.state.payload + zcbor_header_len(list_count)
           bytes == Memmove(mc.bytes, new_body, old_body, size)
           mm == [mc EXCEPT !.bytes = bytes]
           h == value_encode(mm, major, list_count)
           to == h.m.state.payload + size
<1>1. /\ mc.state.payload \in Nat /\ mc.state.payload_end \in Nat
      /\ mc.state.payload_end <= MaxBytes /\ MaxBytes \in Nat
      /\ mc.bytes \in [Room -> Cell] /\ Clean(mc.bytes, mc.state.payload_end)
  BY GoodType, InputAssumption DEF Good
<1>2. new_body \in Nat /\ new_body + size <= mc.state.payload_end /\ old_body + size <= MaxBytes
  BY <1>1, HeaderLen
<1>3. [mc EXCEPT !.bytes = Memmove(@, new_body, old_body, size)] = mm
  BY GoodType DEF Machine
<1>4. bytes \in [Room -> Cell] /\ Clean(bytes, mc.state.payload_end)
  <2> HIDE DEF new_body
  <2> QED BY <1>1, <1>2, MovedType
<1> HIDE DEF bytes
<1>5. Good(mm) /\ mm.state = mc.state
  BY <1>4, BytesGood
<1> HIDE DEF mm
<1>6. /\ GoodResult(h)
      /\ h.ok => h.m.state.payload = new_body /\ h.m.state.payload_end = mc.state.payload_end
  BY <1>5, ValueEncodeGood
<1> HIDE DEF h
<1>7. CASE h.ok
  <2>1. to \in Nat /\ to <= h.m.state.payload_end
    BY <1>2, <1>6, <1>7
  <2>2. [h.m EXCEPT !.state.payload = @ + size] = Stepped(h.m, to)
    BY <1>6, GoodType DEF GoodResult, Stepped, Machine, Cursor
  <2> HIDE DEF to
  <2>3. GoodResult(Success(Stepped(h.m, to)))
    BY <1>6, <2>1, SteppedGood, ResultGood DEF GoodResult
  <2> QED BY <1>3, <1>7, <2>2, <2>3 DEF MoveThenHeader, h
<1>8. CASE ~h.ok
  BY <1>3, <1>6, <1>8 DEF MoveThenHeader, h
<1> QED BY <1>7, <1>8

LEMMA NewHeaderGood ==
    ASSUME NEW mc, Good(mc), NEW size_hint, NEW list_count \in Int, NEW major \in Int
    PROVE  GoodResult(NewHeader(mc, size_hint, list_count, major))
<1> DEFINE r        == zcbor_process_backup(mc, {"RESTORE", "CONSUME"})
           old_body == r.m.state.payload + zcbor_header_len(size_hint)
           new_body == r.m.state.payload + zcbor_header_len(list_count)
           size     == mc.state.payload - old_body
           moved    == MoveThenHeader(r.m, new_body, old_body, size, list_count, major)
<1>1. GoodResult(r) /\ r.m.state.payload_end = mc.state.payload_end
  BY ProcessBackupGood DEF UsedFlags
<1> HIDE DEF r
<1>2. NewHeader(mc, size_hint, list_count, major) =
        IF ~r.ok THEN r
        ELSE IF size < 0 THEN Err(r.m, "BAD_ARG")
        ELSE IF ~RoomForMove(new_body, old_body, size, r.m.state.payload_end)
        THEN Err(r.m, "NO_PAYLOAD")
        ELSE moved
  BY DEF NewHeader, r
<1>3. /\ r.m.state.payload \in Nat /\ r.m.state.payload_end \in Nat /\ mc.state.payload \in Nat
      /\ mc.state.payload <= r.m.state.payload_end
      /\ zcbor_header_len(size_hint) \in Nat /\ zcbor_header_len(list_count) \in Nat
  BY <1>1, GoodType, HeaderLen DEF GoodResult
<1>4. /\ old_body \in Nat /\ new_body \in Nat /\ size \in Int
      /\ old_body + size <= r.m.state.payload_end
      /\ old_body + size = mc.state.payload
  BY <1>3
<1>5. GoodResult(Err(r.m, "BAD_ARG")) /\ GoodResult(Err(r.m, "NO_PAYLOAD"))
  BY <1>1, ErrGood DEF GoodResult, Errors
<1>6. ASSUME ~(size < 0), RoomForMove(new_body, old_body, size, r.m.state.payload_end)
      PROVE  GoodResult(moved)
  <2>1. size \in Nat
    BY <1>4, <1>6
  <2>2. new_body + size <= r.m.state.payload_end
    <3> HIDE DEF new_body, old_body, size
    <3> QED BY <1>3, <1>4, <1>6 DEF RoomForMove
  <2> HIDE DEF old_body, size
  <2> QED BY <1>1, <1>4, <2>1, <2>2, MoveThenHeaderGood DEF GoodResult
<1> HIDE DEF size, moved, old_body, new_body
<1> QED BY <1>1, <1>2, <1>5, <1>6

LEMMA ListEndGood ==
    ASSUME NEW mc, Good(mc), NEW size_hint, NEW major \in Int
    PROVE  GoodResult(list_map_end_encode(mc, size_hint, major))
<1> DEFINE list_count == ListCount(mc.state, major)
<1>1. list_count \in Int
  BY GoodType DEF ListCount
<1> HIDE DEF list_count
<1>2. GoodResult(encode_header_byte(mc, SIMPLE, INDEFINITE))
  BY EncodeHeaderByteGood DEF SIMPLE, INDEFINITE
<1>3. GoodResult(KeepHeader(mc)) /\ GoodResult(NewHeader(mc, size_hint, list_count, major))
  BY <1>1, KeepHeaderGood, NewHeaderGood
<1> QED BY <1>2, <1>3 DEF list_map_end_encode, list_count

LEMMA ForceEndGood ==
    ASSUME NEW mc, Good(mc)
    PROVE  GoodResult(zcbor_list_map_end_force_encode(mc))
<1>1. GoodResult(zcbor_process_backup(mc, {"RESTORE", "CONSUME"}))
  BY ProcessBackupGood DEF UsedFlags
<1> QED BY <1>1, ResultGood DEF zcbor_list_map_end_force_encode

-----------------------------------------------------------------------------
(* The invariant.                                                          *)

LEMMA FreshGood == Fresh \in [Room -> Cell] /\ \A end : Clean(Fresh, end)
<1>1. Untouched \in Cell
  BY CellType DEF Untouched
<1> QED BY <1>1 DEF Fresh, Clean

\* The next section has nothing in it, and the backups begin with it.
LEMMA NextSectionGood ==
    ASSUME NEW mc, Good(mc), NEW payload_len \in Payloads
    PROVE  Good([zcbor_update_state(mc, payload_len) EXCEPT !.bytes = Fresh])
<1> DEFINE state == InSection(mc.state, payload_len)
           list == [i \in DOMAIN mc.backup_list |->
                      [InSection(mc.backup_list[i], payload_len) EXCEPT !.payload_moved = TRUE]]
           mm == [zcbor_update_state(mc, payload_len) EXCEPT !.bytes = Fresh]
           n == Len(mc.backup_list)
<1>1. payload_len \in Nat
  BY InputAssumption
<1>2. \A c \in Cursor : /\ InSection(c, payload_len) \in Cursor
                        /\ InSection(c, payload_len).payload = 0
                        /\ InSection(c, payload_len).payload_end = payload_len
  BY DEF InSection, Cursor
<1>3. \A c \in Cursor : LET o == [c EXCEPT !.payload_moved = TRUE] IN
        o \in Cursor /\ o.payload = c.payload /\ o.payload_end = c.payload_end
  BY DEF Cursor
<1>4. /\ n \in Nat /\ DOMAIN mc.backup_list = 1 .. n
      /\ \A i \in 1 .. n : mc.backup_list[i] \in Cursor
  BY GoodType, LenProperties
<1>5. state \in Cursor /\ Within(state, payload_len)
  BY <1>1, <1>2, GoodType DEF Within
<1>6. \A i \in 1 .. n : list[i] \in Cursor /\ Within(list[i], payload_len)
  BY <1>1, <1>2, <1>3, <1>4 DEF Within
<1>7. list \in [1 .. n -> Cursor]
  BY <1>4, <1>6
<1>8. mm = [mc EXCEPT !.state = state, !.backup_list = list, !.bytes = Fresh]
  BY GoodType DEF zcbor_update_state, Machine
<1> HIDE DEF state, list, mm, n
<1>9. list \in Seq(Cursor) /\ Len(list) = n
  BY <1>4, <1>7
<1>10. /\ mm \in Machine /\ mm.state = state /\ mm.backup_list = list /\ mm.bytes = Fresh
  <2>1. mc \in Machine
    BY GoodType
  <2>2. mm = [state |-> state, backup_list |-> list, error |-> mc.error,
              stop_on_error |-> mc.stop_on_error, bytes |-> Fresh]
    BY <1>8, <2>1 DEF Machine
  <2>3. mc.error \in Errors /\ mc.stop_on_error \in BOOLEAN
    BY <2>1 DEF Machine
  <2>4. mm \in Machine
    BY <1>5, <1>9, <2>2, <2>3, FreshGood DEF Machine
  <2> QED BY <2>2, <2>4
<1>11. Good(mm)
  BY <1>5, <1>6, <1>9, <1>10, FreshGood DEF Good, Within
<1> QED BY <1>11 DEF mm

LEMMA InitInvariant == Init => IInv
<1> SUFFICES ASSUME Init PROVE Good(m)
  BY DEF IInv
<1>1. PICK payload_len \in Payloads, stop \in StopModes :
         m = [state |-> [payload |-> 0, payload_end |-> payload_len, elem_count |-> 0,
                         payload_moved |-> FALSE,
                         decode_state |-> [elem_state_backed_up |-> FALSE]],
              backup_list |-> << >>, error |-> "SUCCESS", stop_on_error |-> stop, bytes |-> Fresh]
  BY DEF Init
<1>2. payload_len \in Nat /\ stop \in BOOLEAN
  BY InputAssumption, StopAssumption
<1>3. m.state \in Cursor /\ Within(m.state, payload_len) /\ m.state.payload_end = payload_len
  BY <1>1, <1>2 DEF Cursor, DecodeState, Within
<1>4. m.backup_list = << >> /\ m.backup_list \in Seq(Cursor) /\ Len(m.backup_list) = 0
  BY <1>1, EmptySeq
<1>5. m \in Machine
  BY <1>1, <1>2, <1>3, <1>4, FreshGood DEF Machine, Errors
<1>6. m.bytes = Fresh
  BY <1>1
<1> QED BY <1>3, <1>4, <1>5, <1>6, FreshGood DEF Good

\* The calls that add an element or a tag.
LEMMA PutSteps == ASSUME IInv, PutUint \/ PutTag \/ PutString PROVE IInv'
<1>1. Good(m) /\ Values \subseteq Int /\ Lengths \subseteq Int
  BY InputAssumption DEF IInv
<1>2. CASE PutUint
  <2>1. PICK value \in Values : m' = zcbor_uint_encode(m, value).m
    BY <1>2 DEF PutUint, Call
  <2> QED BY <1>1, <2>1, ValueEncodeGood DEF zcbor_uint_encode, PINT, GoodResult, IInv
<1>3. CASE PutTag
  <2>1. PICK tag \in Values : m' = zcbor_tag_put(m, tag).m
    BY <1>3 DEF PutTag, Call
  <2> QED BY <1>1, <2>1, TagPutGood DEF GoodResult, IInv
<1>4. CASE PutString
  <2>1. PICK len \in Lengths : m' = zcbor_tstr_encode(m, len).m
    BY <1>4 DEF PutString, Call
  <2>2. External \in Int /\ TSTR \in Int
    BY DEF External, TSTR
  <2>3. GoodResult(str_encode(m, External, len, TSTR))
    BY <1>1, <2>2, StrEncodeGood
  <2> QED BY <2>1, <2>3 DEF zcbor_tstr_encode, GoodResult, IInv
<1> QED BY <1>2, <1>3, <1>4

\* The calls that start a container.
LEMMA StartSteps == ASSUME IInv, StartList \/ StartBstr PROVE IInv'
<1>1. Good(m)
  BY DEF IInv
<1>2. CASE StartList
  <2>1. PICK kind \in {LIST, MAP}, size_hint \in Hints :
          m' = list_map_start_encode(m, size_hint, kind).m
    BY <1>2 DEF StartList
  <2>2. kind \in Int /\ size_hint \in Int
    BY InputAssumption DEF LIST, MAP
  <2> QED BY <1>1, <2>1, <2>2, ListStartGood DEF GoodResult, IInv
<1>3. CASE StartBstr
  <2>1. m' = zcbor_bstr_start_encode(m).m
    BY <1>3 DEF StartBstr
  <2> QED BY <1>1, <2>1, BstrStartGood DEF GoodResult, IInv
<1> QED BY <1>2, <1>3

\* The calls that end one, or give it up.
LEMMA EndSteps == ASSUME IInv, EndList \/ EndBstr \/ GiveUp PROVE IInv'
<1>1. Good(m)
  BY DEF IInv
<1>2. CASE EndList
  <2>1. Top.kind \in Int /\ m' = list_map_end_encode(m, Top.size_hint, Top.kind).m
    BY <1>2 DEF EndList, End, LIST, MAP
  <2> QED BY <1>1, <2>1, ListEndGood DEF GoodResult, IInv
<1>3. CASE EndBstr
  <2>1. m' = zcbor_bstr_end_encode(m).m
    BY <1>3 DEF EndBstr, End
  <2> QED BY <1>1, <2>1, BstrEndGood DEF GoodResult, IInv
<1>4. CASE GiveUp
  <2>1. m' = zcbor_list_map_end_force_encode(m).m
    BY <1>4 DEF GiveUp, Call
  <2> QED BY <1>1, <2>1, ForceEndGood DEF GoodResult, IInv
<1> QED BY <1>2, <1>3, <1>4

LEMMA NextSectionStep == ASSUME IInv, NextSection PROVE IInv'
<1>1. PICK payload_len \in Payloads :
        m' = [zcbor_update_state(m, payload_len) EXCEPT !.bytes = Fresh]
  BY DEF NextSection
<1> QED BY <1>1, NextSectionGood DEF IInv

LEMMA StepInvariant == IInv /\ [Next]_vars => IInv'
<1> SUFFICES ASSUME IInv, [Next]_vars PROVE IInv'
  OBVIOUS
<1>1. CASE Next
  BY <1>1, PutSteps, StartSteps, EndSteps, NextSectionStep DEF Next
<1>2. CASE UNCHANGED vars
  BY <1>2 DEF vars, IInv
<1> QED BY <1>1, <1>2

-----------------------------------------------------------------------------
(* Theorem.                                                                *)

\* Whatever is encoded, and whichever call fails, nothing is written behind the
\* end of the payload: not by a header that is longer than the one it replaces,
\* and not by the contents that move for it (list_map_end_encode, str_encode).
THEOREM EncoderStaysInPayload == Spec => []StaysInPayload
<1>1. IInv => StaysInPayload
  <2> SUFFICES ASSUME Good(m) PROVE StaysInPayload
    BY DEF IInv
  <2>1. m.state.payload <= m.state.payload_end /\ DOMAIN m.bytes = Room
    BY GoodType
  <2> QED BY <2>1 DEF StaysInPayload, Good, Clean
<1> QED BY <1>1, InitInvariant, StepInvariant, PTL DEF Spec

=============================================================================
