------------------------- MODULE ZcborBackupSchemas -------------------------
(***************************************************************************)
(* What holds for the decoders of some schemas only.                       *)
(*                                                                         *)
(* Without CBOR in byte strings, the first error ends a decode that stops  *)
(* on errors.  Without a few more things (KeepsPairs), each call that      *)
(* fails gives its backup up.  A union or repetition that has its backup   *)
(* goes back to where it began; with KeepsPairs every union does.          *)
(***************************************************************************)
EXTENDS ZcborBackupOrder, ZcborUnions

-----------------------------------------------------------------------------
(* The error register.                                                     *)

\* What decides whether the machine n goes on is as it is in m.
SameErrors(m, n) == n.error = m.error /\ n.stop_on_error = m.stop_on_error

\* A call that succeeds reports no error.
Quiet(m, r) == r.ok => SameErrors(m, r.m)

LEMMA QuietResults ==
    ASSUME NEW m
    PROVE  /\ Quiet(m, Success(m)) /\ Quiet(m, Failure(m))
           /\ \A n, err : Quiet(m, Err(n, err)) /\ Quiet(m, Failure(n))
BY DEF Quiet, SameErrors, Success, Failure, Err

LEMMA QuietThrough ==
    ASSUME NEW m, NEW k, NEW r, SameErrors(m, k), Quiet(k, r)
    PROVE  Quiet(m, r)
BY DEF Quiet, SameErrors

\* Another cursor, other flags or other backups are no error.
LEMMA SameRegister ==
    ASSUME NEW m \in Machine
    PROVE  /\ \A c : SameErrors(m, [m EXCEPT !.state = c])
           /\ \A mem : SameErrors(m, [m EXCEPT !.mem = mem])
           /\ \A list : SameErrors(m, [m EXCEPT !.backup_list = list])
           /\ \A c, mem : SameErrors(m, [m EXCEPT !.state = c, !.mem = mem])
           /\ \A c, list : SameErrors(m, [m EXCEPT !.state = c, !.backup_list = list])
BY DEF Machine, SameErrors

LEMMA TypeCheckQuiet ==
    ASSUME NEW m, Good(m), NEW h, NEW type
    PROVE  Quiet(m, type_check(m, h, type))
BY TypeCheckGood DEF Quiet, SameErrors

LEMMA ValueExtractQuiet ==
    ASSUME NEW m, Good(m), NEW h, NEW result_len, NEW indef
    PROVE  Quiet(m, value_extract(m, h, result_len, indef))
<1> DEFINE Advanced(k) == [m EXCEPT !.state.payload_bak = m.state.payload,
                                    !.state.payload = @ + k + 1,
                                    !.state.elem_count = @ - 1]
           len == additional_len(h.additional)
           V == value_extract(m, h, result_len, indef)
<1>1. ASSUME NEW k
      PROVE  Quiet(m, Success(Advanced(k)))
  <2>1. m \in Machine
    BY GoodType
  <2>2. Advanced(k).error = m.error /\ Advanced(k).stop_on_error = m.stop_on_error
    BY <2>1 DEF Machine
  <2> HIDE DEF Advanced
  <2> QED BY <2>2 DEF Quiet, SameErrors, Success
<1>2. V \in {initial_checks(m), Err(m, "LOW_ELEM_COUNT"), Err(m, "INVALID_VALUE_ENCODING"),
             Err(m, "ADDITIONAL_INVAL"), Err(m, "INT_SIZE"), Err(m, "NO_PAYLOAD"),
             Success(Advanced(0)), Success(Advanced(len))}
  BY DEF value_extract
<1>3. Quiet(m, initial_checks(m))
  BY InitialChecksGood DEF Quiet, SameErrors
<1> HIDE DEF Advanced, len, V
<1>4. Quiet(m, V)
  BY <1>1, <1>2, <1>3, QuietResults
<1> QED BY <1>4 DEF V

LEMMA RewoundQuiet ==
    ASSUME NEW m, NEW n, NEW err
    PROVE  Quiet(m, FAIL_RESTORE(n)) /\ Quiet(m, ERR_RESTORE(n, err))
BY QuietResults DEF FAIL_RESTORE, ERR_RESTORE

LEMMA ExitMapQuiet ==
    ASSUME NEW m, Good(m)
    PROVE  Quiet(m, exit_map(m))
<1> DEFINE n1 == [m EXCEPT !.state.decode_state.map_search_elem_state = FlagEnd(m.state),
                           !.state.decode_state.map_elem_count = 0]
           n2 == [m EXCEPT !.state.decode_state.map_elems_processed = 0,
                           !.state.decode_state.map_elem_count = 0]
           R == exit_map(m)
<1>1. R \in {Err(m, "MAP_FLAGS_NOT_AVAILABLE"), Success(n1), Success(n2)}
  BY DEF exit_map
<1>2. m \in Machine
  BY GoodType
<1>3. /\ n1.error = m.error /\ n1.stop_on_error = m.stop_on_error
      /\ n2.error = m.error /\ n2.stop_on_error = m.stop_on_error
  BY <1>2 DEF Machine
<1> HIDE DEF n1, n2
<1>4. Quiet(m, Success(n1)) /\ Quiet(m, Success(n2))
  BY <1>3 DEF Quiet, SameErrors, Success
<1> HIDE DEF R
<1>5. Quiet(m, R)
  BY <1>1, <1>4, QuietResults
<1> QED BY <1>5 DEF R

LEMMA PushedQuiet ==
    ASSUME NEW m, Good(m), NEW n, NEW f
    PROVE  SameErrors(m, Pushed(m, n, f))
BY GoodType DEF Machine, SameErrors, Pushed

LEMMA ElemStateBackupQuiet ==
    ASSUME NEW m \in Machine, NEW dry_run
    PROVE  Quiet(m, do_elem_state_backup(m, dry_run))
<1>1. \A mem, x : Quiet(m, Success([m EXCEPT
          !.mem = mem, !.state.decode_state.map_search_elem_state = x]))
  BY DEF Machine, Quiet, SameErrors, Success
<1> QED BY <1>1, QuietResults DEF do_elem_state_backup

LEMMA NewBackupQuiet ==
    ASSUME NEW m, Good(m), NEW n \in 0 .. SIZE_MAX, NEW f \in BOOLEAN
    PROVE  Quiet(m, zcbor_new_backup_w_elem_state(m, n, f))
<1> DEFINE w == SmartSearch /\ f
           p == Pushed(m, n, w)
           dry == do_elem_state_backup(m, TRUE)
           b == do_elem_state_backup(p, FALSE)
           R == zcbor_new_backup_w_elem_state(m, n, f)
<1>1. Quiet(m, Success(p)) /\ SameErrors(m, p)
  BY PushedQuiet DEF Quiet, Success
<1>2. p \in Machine
  BY PushedSaves, ModeAssumption
<1>3. Quiet(m, b) /\ Quiet(m, dry)
  <2> HIDE DEF p
  <2> QED BY <1>1, <1>2, GoodType, ElemStateBackupQuiet, QuietThrough
<1>4. R \in {Failure(m), Err(m, "NO_BACKUP_MEM"), dry, b, Success(p)}
  BY DEF zcbor_new_backup_w_elem_state
<1> HIDE DEF p, dry, b, R
<1>5. Quiet(m, R)
  BY <1>1, <1>3, <1>4, QuietResults
<1> QED BY <1>5 DEF R

LEMMA GrowMapQuiet ==
    ASSUME NEW m \in Machine, NEW count
    PROVE  Quiet(m, GrowMap(m, count))
<1> DEFINE old == m.state.decode_state.map_elem_count
           new == IF count \div 2 > old THEN count \div 2 ELSE old
           grown == [m EXCEPT !.state.decode_state.map_elem_count = new]
           R == GrowMap(m, count)
<1>1. SameErrors(m, grown)
  BY DEF Machine, SameErrors
<1>2. {"error", "stop_on_error"} \subseteq DOMAIN grown
  BY DEF Machine
<1>3. R = IF SmartSearch THEN allocate_map_flags(grown, old) ELSE Success(grown)
  BY DEF GrowMap
<1> HIDE DEF grown, R
<1>4. Quiet(grown, allocate_map_flags(grown, old))
  <2> DEFINE A == allocate_map_flags(grown, old)
  <2>1. \E mem, n : A \in {Success(grown), Err(n, "MAP_FLAGS_NOT_AVAILABLE"),
                           Success([grown EXCEPT !.mem = mem])}
    BY DEF allocate_map_flags
  <2>2. ASSUME NEW mem PROVE Quiet(grown, Success([grown EXCEPT !.mem = mem]))
    <3> DEFINE n == [grown EXCEPT !.mem = mem]
    <3>1. SameErrors(grown, n)
      BY <1>2 DEF SameErrors
    <3> HIDE DEF n
    <3>2. Quiet(grown, Success(n))
      BY <3>1 DEF Quiet, Success
    <3> QED BY <3>2 DEF n
  <2> HIDE DEF A
  <2>3. Quiet(grown, A)
    BY <2>1, <2>2, QuietResults
  <2> QED BY <2>3 DEF A
<1>5. Quiet(m, R)
  BY <1>1, <1>3, <1>4, QuietThrough, QuietResults
<1> QED BY <1>5 DEF R

LEMMA ListMapStartQuiet ==
    ASSUME NEW m, Good(m), NEW h \in HeaderSet, NEW type
    PROVE  Quiet(m, list_map_start_decode(m, h, type))
<1> DEFINE indef == h.additional = INDEFINITE
           t == type_check(m, h, type)
           v == value_extract(m, h, SIZEOF_SIZE_T, TRUE)
           count == IF indef THEN ZCBOR_LARGE_ELEM_COUNT ELSE h.value
           b == zcbor_new_backup(v.m, count)
           entered == [b.m EXCEPT
                         !.state.decode_state.map_start_backup_num = Len(b.m.backup_list),
                         !.state.decode_state.indefinite_length_array = indef]
           R == list_map_start_decode(m, h, type)
<1>1. Quiet(m, t) /\ Quiet(m, v)
  BY TypeCheckQuiet, ValueExtractQuiet
<1>2. Good(v.m)
  <2>1. SIZEOF_SIZE_T \in Nat
    BY DEF SIZEOF_SIZE_T
  <2> QED BY <2>1, ValueExtractGood DEF GoodResult
<1>3. count \in 0 .. SIZE_MAX
  BY SizeAssumption DEF HeaderSet, ZCBOR_LARGE_ELEM_COUNT
<1>4. \/ R = t \/ R = v \/ R = FAIL_RESTORE(b.m)
      \/ v.ok /\ b.ok /\ R = exit_map(entered)
  BY DEF list_map_start_decode
<1> HIDE DEF t, v, count, R
<1>5. Good(b.m) /\ Quiet(v.m, b)
  BY <1>2, <1>3, NewBackupGood, NewBackupQuiet DEF zcbor_new_backup, GoodResult
<1> HIDE DEF b
<1>6. /\ b.m \in Machine /\ b.m.state \in Cursor /\ Len(b.m.backup_list) \in 0 .. NumBackups
      /\ indef \in BOOLEAN
  BY <1>5, GoodType
<1> DEFINE c == [b.m.state EXCEPT
                   !.decode_state.map_start_backup_num = Len(b.m.backup_list),
                   !.decode_state.indefinite_length_array = indef]
<1>7. /\ c \in Cursor /\ Start(c) = Start(b.m.state)
      /\ c.decode_state.map_elem_count = b.m.state.decode_state.map_elem_count
  BY <1>6 DEF Cursor, DecodeState, Start
<1>8. entered = [b.m EXCEPT !.state = c]
  BY <1>6 DEF Machine, Cursor, DecodeState
<1> HIDE DEF c, entered
<1>9. Good(entered) /\ SameErrors(b.m, entered)
  BY <1>5, <1>6, <1>7, <1>8, StateUpdateGood, SameRegister
<1>10. Quiet(b.m, exit_map(entered))
  BY <1>9, ExitMapQuiet, QuietThrough
<1>11. v.ok /\ b.ok => Quiet(m, exit_map(entered))
  BY <1>1, <1>5, <1>10 DEF Quiet, SameErrors
<1>12. Quiet(m, R)
  BY <1>1, <1>4, <1>11, RewoundQuiet
<1> QED BY <1>12 DEF R

LEMMA MapStartQuiet ==
    ASSUME NEW m, Good(m), NEW h \in HeaderSet
    PROVE  Quiet(m, zcbor_map_start_decode(m, h))
<1> DEFINE r == list_map_start_decode(m, h, MAP)
           n == [r.m EXCEPT !.state.elem_count = 2 * @]
           R == PairsCounted(r)
<1>1. Good(r.m) /\ Quiet(m, r)
  BY ListMapStartGood, ListMapStartQuiet DEF GoodResult
<1> HIDE DEF r
<1>2. SameErrors(r.m, n)
  BY <1>1, GoodType DEF Machine, SameErrors
<1>3. R = r \/ R = ERR_RESTORE(r.m, "INT_SIZE") \/ (r.ok /\ R = Success(n))
  BY DEF PairsCounted
<1> HIDE DEF n, R
<1>4. Quiet(r.m, Success(n))
  BY <1>2 DEF Quiet, Success
<1>5. Quiet(m, R)
  BY <1>1, <1>3, <1>4, RewoundQuiet DEF Quiet, SameErrors
<1> QED BY <1>5 DEF R, r, zcbor_map_start_decode

LEMMA UnorderedMapStartQuiet ==
    ASSUME NEW m, Good(m), NEW h \in HeaderSet
    PROVE  Quiet(m, zcbor_unordered_map_start_decode(m, h))
<1> DEFINE r == zcbor_map_start_decode(m, h)
           counting == r.m.state.decode_state.indefinite_length_array
           n == [r.m EXCEPT !.state.decode_state.map_elem_count = 0,
                            !.state.decode_state.counting_map_elems = counting]
           R == SearchStarted(r)
<1>1. Good(r.m) /\ Quiet(m, r)
  BY MapStartGood, MapStartQuiet DEF GoodResult
<1> HIDE DEF r
<1>2. r.m \in Machine /\ r.m.state \in Cursor /\ counting \in BOOLEAN
        /\ 0 \in 0 .. SIZE_MAX \div 2
  BY <1>1, GoodType, SizeAssumption DEF DecodeState
<1>3. R \in {r, Success(n), GrowMap(n, n.state.elem_count)} /\ (~r.ok => R = r)
  BY DEF SearchStarted
<1> HIDE DEF counting
<1>4. n \in Machine /\ SameErrors(r.m, n)
  BY <1>2 DEF Machine, Cursor, DecodeState, SameErrors
<1> HIDE DEF n, R
<1>5. Quiet(n, GrowMap(n, n.state.elem_count)) /\ Quiet(n, Success(n))
  BY <1>4, GrowMapQuiet, QuietResults
<1>6. Quiet(r.m, GrowMap(n, n.state.elem_count)) /\ Quiet(r.m, Success(n))
  BY <1>4, <1>5, QuietThrough
<1>7. CASE ~r.ok
  BY <1>1, <1>3, <1>7 DEF R, r, zcbor_unordered_map_start_decode
<1>8. CASE r.ok
  <2>1. Quiet(m, R)
    BY <1>1, <1>3, <1>6, <1>8 DEF Quiet, SameErrors
  <2> QED BY <2>1 DEF R, r, zcbor_unordered_map_start_decode
<1> QED BY <1>7, <1>8

LEMMA DiscardQuiet ==
    ASSUME NEW m \in Machine, NEW b
    PROVE  SameErrors(m, discard_elem_state_backup(m, b))
BY DEF Machine, SameErrors, discard_elem_state_backup

\* What an operation on the top backup leaves has the errors there were.
LEMMA OutcomeQuiet ==
    ASSUME NEW m, Good(m), m.backup_list # << >>,
           NEW restore \in BOOLEAN, NEW consume \in BOOLEAN, NEW keep \in BOOLEAN
    PROVE  SameErrors(m, Outcome(m, restore, consume, keep))
<1> DEFINE r == IF restore THEN RestoreFrom(m, Top(m), consume) ELSE Success(m)
           d == IF SmartSearch /\ ~restore /\ Top(m).decode_state.elem_state_backed_up
                THEN discard_elem_state_backup(r.m, Top(m)) ELSE r.m
           popped == [d EXCEPT !.backup_list = SubSeq(@, 1, Len(@) - 1)]
           c == IF consume THEN popped ELSE r.m
           kept == [c EXCEPT !.state.payload = m.state.payload]
<1>1. m \in Machine
  BY GoodType
<1>2. r.m \in Machine /\ SameErrors(m, r.m)
  <2>1. CASE ~restore
    BY <1>1, <2>1 DEF Success, SameErrors
  <2>2. CASE restore
    <3> DEFINE back == [m EXCEPT !.state = Top(m)]
               R == RestoreFrom(m, Top(m), consume)
    <3>1. R.ok = TRUE /\ R.m \in Machine
      BY RestoreTopGood, GoodType DEF Top, GoodResult
    <3>2. back \in Machine /\ SameErrors(m, back)
      BY <1>1, TopType DEF Machine, SameErrors
    <3>3. R \in {do_elem_state_backup(back, FALSE), Success(back)}
      BY DEF RestoreFrom
    <3> HIDE DEF back, R
    <3>4. Quiet(back, R)
      BY <3>2, <3>3, ElemStateBackupQuiet, QuietResults
    <3>5. SameErrors(m, R.m)
      BY <3>1, <3>2, <3>4, QuietThrough DEF Quiet
    <3> QED BY <2>2, <3>1, <3>5 DEF R
  <2> QED BY <2>1, <2>2
<1> HIDE DEF r
<1>3. d \in Machine /\ SameErrors(r.m, d)
  <2>1. CASE ~(SmartSearch /\ ~restore /\ Top(m).decode_state.elem_state_backed_up)
    BY <1>2, <2>1 DEF SameErrors
  <2>2. CASE SmartSearch /\ ~restore /\ Top(m).decode_state.elem_state_backed_up
    <3>1. r.m = m
      BY <2>2 DEF r, Success
    <3>2. d = discard_elem_state_backup(m, Top(m)) /\ d \in Machine
      BY <2>2, <3>1, FlagsMovedDown
    <3> QED BY <1>1, <3>1, <3>2, DiscardQuiet
  <2> QED BY <2>1, <2>2
<1>4. Outcome(m, restore, consume, keep) = IF keep THEN kept ELSE c
  BY DEF Outcome, ConsumeTop, r
<1> HIDE DEF d
<1>5. SameErrors(d, popped) /\ {"error", "stop_on_error"} \subseteq DOMAIN popped
  BY <1>3 DEF Machine, SameErrors
<1>6. {"error", "stop_on_error"} \subseteq DOMAIN r.m
  BY <1>2 DEF Machine
<1> HIDE DEF popped
<1>7. SameErrors(m, c) /\ {"error", "stop_on_error"} \subseteq DOMAIN c
  BY <1>2, <1>3, <1>5, <1>6 DEF SameErrors
<1> HIDE DEF c
<1>8. SameErrors(c, kept)
  BY <1>7 DEF SameErrors
<1> HIDE DEF kept
<1> QED BY <1>4, <1>7, <1>8 DEF SameErrors

LEMMA ProcessQuiet ==
    ASSUME NEW m, Good(m), NEW flags, "KEEP_DECODE_STATE" \notin flags
    PROVE  Quiet(m, zcbor_process_backup(m, flags))
<1> DEFINE R == zcbor_process_backup(m, flags)
<1>1. PICK restore \in BOOLEAN, consume \in BOOLEAN, keep \in BOOLEAN :
        /\ restore <=> "RESTORE" \in flags
        /\ consume <=> "CONSUME" \in flags
        /\ keep <=> "KEEP_PAYLOAD" \in flags
  OBVIOUS
<1>2. R.ok => m.backup_list # << >> /\ R.m = Outcome(m, restore, consume, keep)
  BY <1>1, ProcessTopOutcome
<1> HIDE DEF R
<1>3. R.ok => SameErrors(m, R.m)
  BY <1>2, OutcomeQuiet
<1> QED BY <1>3 DEF Quiet, R

\* After an error that stops, nothing happens to the backups.
LEMMA StoppedStays ==
    ASSUME NEW m, ~zcbor_check_error(m), NEW flags
    PROVE  /\ zcbor_process_backup(m, flags).m = m
           /\ zcbor_process_backup(m, flags).ok = FALSE
<1>1. \A err : Err(m, err) = Failure(m)
  BY DEF Err, zcbor_error
<1>2. zcbor_process_backup(m, flags) = Failure(m)
  BY <1>1 DEF zcbor_process_backup, zcbor_process_backup_num
<1> QED BY <1>2 DEF Failure

\* Where there is no such error, the top backup can be given up.
LEMMA StateCommits ==
    ASSUME NEW m, Good(m), zcbor_check_error(m), m.backup_list # << >>
    PROVE  zcbor_process_backup(m, {"CONSUME"}).ok = TRUE
<1> DEFINE n == Len(m.backup_list)
<1>1. n \in Nat /\ n # 0 /\ ~(n > n)
  BY GoodType, EmptySeq
<1>2. "CONSUME" \in {"CONSUME"} /\ "RESTORE" \notin {"CONSUME"}
        /\ "KEEP_DECODE_STATE" \notin {"CONSUME"} /\ "KEEP_PAYLOAD" \notin {"CONSUME"}
  OBVIOUS
<1> QED BY <1>1, <1>2 DEF zcbor_process_backup, zcbor_process_backup_num, Success

LEMMA ArrayEndQuiet ==
    ASSUME NEW m, Good(m), NEW at_break
    PROVE  Quiet(m, array_end_expect(m, at_break))
<1> DEFINE n == [m EXCEPT !.state.payload = @ + 1]
           R == array_end_expect(m, at_break)
<1>1. SameErrors(m, n)
  BY GoodType DEF Machine, SameErrors
<1>2. R \in {initial_checks(m), Err(m, "WRONG_TYPE"), Success(n)}
  BY DEF array_end_expect
<1>3. Quiet(m, initial_checks(m))
  BY InitialChecksGood DEF Quiet, SameErrors
<1> HIDE DEF n, R
<1>4. Quiet(m, Success(n))
  BY <1>1 DEF Quiet, Success
<1>5. Quiet(m, R)
  BY <1>2, <1>3, <1>4, QuietResults
<1> QED BY <1>5 DEF R

LEMMA ListMapEndQuiet ==
    ASSUME NEW m, Good(m), NEW at_break \in BOOLEAN
    PROVE  Quiet(m, list_map_end_decode(m, at_break))
<1> DEFINE r == zcbor_process_backup(m, {"RESTORE", "CONSUME", "KEEP_PAYLOAD"})
           R == ArrayEnded(m, at_break, r)
<1>1. Good(r.m) /\ Quiet(m, r)
  BY ProcessTopGood, ProcessQuiet DEF GoodResult
<1> HIDE DEF r
<1>2. R = r \/ (r.ok /\ R = array_end_expect(r.m, at_break)) \/ R = Err(r.m, "HIGH_ELEM_COUNT")
  BY DEF ArrayEnded
<1> HIDE DEF R
<1>3. Quiet(m, R)
  BY <1>1, <1>2, ArrayEndQuiet, QuietResults DEF Quiet, SameErrors
<1> QED BY <1>3 DEF R, r, list_map_end_decode

LEMMA EndChecksQuiet ==
    ASSUME NEW m, Good(m), NEW at_break
    PROVE  Quiet(m, EndChecks(m, at_break))
<1> DEFINE c == IF SmartSearch /\ m.state.decode_state.map_elem_count > 0
                THEN ClearUnused(m) ELSE m
           R == EndChecks(m, at_break)
<1>1. SameErrors(m, c)
  BY GoodType DEF Machine, SameErrors, ClearUnused
<1>2. R \in {Err(m, "ELEMS_NOT_PROCESSED"), Err(c, "ELEMS_NOT_PROCESSED"), Success(c)}
  BY DEF EndChecks
<1> HIDE DEF c, R
<1>3. Quiet(m, Success(c))
  BY <1>1 DEF Quiet, Success
<1>4. Quiet(m, R)
  BY <1>2, <1>3, QuietResults
<1> QED BY <1>4 DEF R

LEMMA AnySkipQuiet ==
    ASSUME NEW m, Good(m), NEW taken \in Skips
    PROVE  Quiet(m, any_skip(m, taken)) /\ (any_skip(m, taken).ok => zcbor_check_error(m))
<1> DEFINE n == [m EXCEPT !.state.payload = taken.at, !.state.elem_count = @ - 1]
           R == any_skip(m, taken)
<1>1. SameErrors(m, n)
  BY GoodType DEF Machine, SameErrors
<1> HIDE DEF n
<1>2. R.ok => R = Success(n) /\ zcbor_check_error(m)
  BY DEF any_skip, CopyTaken, initial_checks, ERR_RESTORE, Err, Failure, n
<1> HIDE DEF R
<1>3. Quiet(m, R)
  BY <1>1, <1>2 DEF Quiet, Success
<1> QED BY <1>2, <1>3 DEF R

\* The skips before the end leave no error that stops the decoder, which they
\* would not come to the end with.
LEMMA UnorderedMapEndQuiet ==
    ASSUME NEW m, Good(m), NEW at_break \in BOOLEAN, NEW rest \in Skips,
           zcbor_check_error(m), m.stop_on_error => rest.error = "SUCCESS",
           zcbor_unordered_map_end_decode(m, at_break, rest).ok
    PROVE  zcbor_check_error(zcbor_unordered_map_end_decode(m, at_break, rest).m)
<1> DEFINE c == EndChecks(m, at_break)
           n == SkipToEnd(c.m, rest)
           R == zcbor_unordered_map_end_decode(m, at_break, rest)
<1>1. Good(c.m) /\ c.m.state = m.state /\ Quiet(m, c)
  BY EndChecksGood, EndChecksQuiet DEF GoodResult
<1>2. R = IF c.ok THEN list_map_end_decode(n, TRUE) ELSE c
  BY DEF zcbor_unordered_map_end_decode
<1>3. R.ok
  OBVIOUS
<1> HIDE DEF c, R
<1>4. c.ok /\ SameErrors(m, c.m) /\ c.m \in Machine
  BY <1>1, <1>2, <1>3, GoodType DEF Quiet
<1>5. Good(n) /\ zcbor_check_error(n)
  <2> DEFINE e == IF rest.error = "SUCCESS" THEN c.m ELSE zcbor_error(c.m, rest.error)
  <2>1. e \in Machine /\ zcbor_check_error(e)
    <3>1. Good(e)
      BY <1>1, ErrorGood DEF Skips
    <3>2. e.stop_on_error = c.m.stop_on_error
      BY <1>4 DEF Machine, zcbor_error
    <3>3. rest.error = "SUCCESS" => e = c.m
      OBVIOUS
    <3> HIDE DEF e
    <3> QED BY <1>4, <3>1, <3>2, <3>3, GoodType DEF SameErrors, zcbor_check_error
  <2>2. SameErrors(e, n)
    <3> HIDE DEF e
    <3>1. n = [e EXCEPT !.state.payload = rest.at,
                        !.state.elem_count = IF c.m.state.decode_state.indefinite_length_array
                                             THEN @ ELSE 0]
      BY DEF SkipToEnd, e
    <3> QED BY <2>1, <3>1 DEF Machine, SameErrors
  <2> QED BY <1>1, <2>1, <2>2, SkipToEndGood DEF SameErrors, zcbor_check_error
<1> HIDE DEF n
<1>6. Quiet(n, list_map_end_decode(n, TRUE))
  BY <1>5, ListMapEndQuiet
<1>7. zcbor_check_error(R.m)
  BY <1>2, <1>3, <1>4, <1>5, <1>6 DEF Quiet, SameErrors, zcbor_check_error
<1> QED BY <1>7 DEF R

LEMMA ElemProcessedQuiet ==
    ASSUME NEW m, Good(m)
    PROVE  Quiet(m, zcbor_elem_processed(m))
<1> DEFINE n1 == [m EXCEPT !.state.decode_state.map_elems_processed = @ + 1]
           n2(a, bit) == [m EXCEPT !.mem[a] = @ \ {bit}]
           R == zcbor_elem_processed(m)
<1>1. m \in Machine
  BY GoodType
<1>2. SameErrors(m, n1) /\ \A a, bit : SameErrors(m, n2(a, bit))
  BY <1>1 DEF Machine, SameErrors
<1>3. \E a, bit, err : R \in {Err(m, err), Success(m), Success(n1), Success(n2(a, bit))}
  BY DEF zcbor_elem_processed
<1> HIDE DEF n1, n2, R
<1>4. Quiet(m, Success(n1)) /\ \A a, bit : Quiet(m, Success(n2(a, bit)))
  BY <1>2 DEF Quiet, Success
<1>5. Quiet(m, R)
  BY <1>3, <1>4, QuietResults
<1> QED BY <1>5 DEF R

LEMMA PlaceQuiet ==
    ASSUME NEW m, Good(m), NEW num \in Nat
    PROVE  Quiet(m, zcbor_process_backup_num(m, {"RESTORE", "KEEP_DECODE_STATE"}, num))
<1> DEFINE flags == {"RESTORE", "KEEP_DECODE_STATE"}
           backup == m.backup_list[num]
           consume == "CONSUME" \in flags
           r == RestoreFrom(m, backup, consume)
           p == [r.m EXCEPT !.state.decode_state = m.state.decode_state]
           R == zcbor_process_backup_num(m, flags, num)
<1>1. /\ "RESTORE" \in flags /\ "CONSUME" \notin flags /\ "KEEP_PAYLOAD" \notin flags
      /\ "KEEP_DECODE_STATE" \in flags /\ consume = FALSE
  OBVIOUS
<1>2. \/ \E err : R = Err(m, err)
      \/ R = Failure(m) \/ R = Failure(r.m)
      \/ num \in 1 .. Len(m.backup_list) /\ R = Success(p)
  <2>1. Len(m.backup_list) \in Nat
    BY GoodType
  <2> HIDE DEF flags, r, backup, consume
  <2> QED BY <1>1, <2>1 DEF zcbor_process_backup_num, flags, r, backup, consume
<1> HIDE DEF flags, R, consume
<1>3. ASSUME num \in 1 .. Len(m.backup_list)
      PROVE  Quiet(m, Success(p))
  <2> DEFINE back == [m EXCEPT !.state = backup]
  <2>1. r.ok = TRUE /\ r.m \in Machine
    BY <1>1, <1>3, RestoreFromType
  <2>2. back \in Machine /\ SameErrors(m, back)
    BY <1>3, GoodType DEF Machine, SameErrors
  <2>3. r \in {do_elem_state_backup(back, FALSE), Success(back)}
    BY DEF RestoreFrom
  <2> HIDE DEF back, r
  <2>4. SameErrors(m, r.m)
    BY <2>1, <2>2, <2>3, ElemStateBackupQuiet, QuietResults, QuietThrough DEF Quiet
  <2>5. SameErrors(r.m, p)
    BY <2>1 DEF Machine, SameErrors
  <2> HIDE DEF p
  <2> QED BY <2>4, <2>5 DEF Quiet, SameErrors, Success
<1> HIDE DEF p, r
<1>4. Quiet(m, R)
  BY <1>2, <1>3, QuietResults
<1> QED BY <1>4 DEF R, flags

LEMMA MapRestartQuiet ==
    ASSUME NEW m, Good(m)
    PROVE  Quiet(m, handle_map_end(m))
<1> DEFINE k == [m EXCEPT !.state.decode_state.counting_map_elems = FALSE]
           num == k.state.decode_state.map_start_backup_num
           r == zcbor_process_backup_num(k, {"RESTORE", "KEEP_DECODE_STATE"}, num)
           n == [r.m EXCEPT !.state.elem_count = zcbor_current_max_elem_count(r.m.state)]
           R == handle_map_end(m)
<1>1. m \in Machine /\ m.state \in Cursor
  BY GoodType
<1>2. k \in Machine /\ k.backup_list = m.backup_list /\ Start(k.state) = Start(m.state)
        /\ k.state.decode_state.map_elem_count = m.state.decode_state.map_elem_count
        /\ SameErrors(m, k)
  BY <1>1 DEF Machine, Cursor, DecodeState, Start, SameErrors
<1>3. R = IF ~r.ok THEN r ELSE Success(n)
  BY DEF handle_map_end, map_restart, AllElements
<1> HIDE DEF k, R
<1>4. Good(k)
  BY <1>2, SameFlags
<1>5. num \in Nat
  BY <1>4, GoodType, BackupAssumption DEF DecodeState
<1> HIDE DEF num
<1>6. Good(r.m) /\ Quiet(k, r)
  BY <1>4, <1>5, PlaceRestored, PlaceQuiet DEF GoodResult
<1> HIDE DEF r
<1>7. SameErrors(r.m, n)
  BY <1>6, GoodType DEF Machine, SameErrors
<1> HIDE DEF n
<1>8. Quiet(m, R)
  BY <1>2, <1>3, <1>6, <1>7 DEF Quiet, SameErrors, Success
<1> QED BY <1>8 DEF R

-----------------------------------------------------------------------------
(* A decoder that never enters a string stops at the first error.          *)

NoStrings == \A h \in Headers : h.major # BSTR

\* The decoder is inside calls of some kinds only.
InsideOnly(K) == \A i \in 1 .. Len(calls) : calls[i] \in K

LEMMA CallsAppended ==
    ASSUME IInv, NEW K, InsideOnly(K), NEW call \in K, calls' = Append(calls, call)
    PROVE  InsideOnly(K)'
<1>1. calls \in Seq(Calls)
  BY DEF IInv
<1> QED BY <1>1 DEF InsideOnly

LEMMA CallsReturned ==
    ASSUME IInv, NEW K, InsideOnly(K), calls # << >>, calls' = Returned
    PROVE  InsideOnly(K)'
<1>1. calls \in Seq(Calls)
  BY DEF IInv
<1> QED BY <1>1 DEF InsideOnly, Returned

\* A header that is not a string's starts none.
LEMMA NoStringStarts == ASSUME NoStrings, BstrStart PROVE calls' = calls
<1>1. PICK h \in Headers : Enter("bstr", zcbor_bstr_start_decode(zs, h))
  BY DEF BstrStart
<1> DEFINE t == type_check(zs, h, BSTR)
<1>2. ~t.ok
  BY DEF NoStrings, type_check, Err, Failure
<1>3. zcbor_bstr_start_decode(zs, h) = t
  BY <1>2 DEF zcbor_bstr_start_decode, str_start_decode_with_overflow_check
<1> HIDE DEF t
<1> QED BY <1>1, <1>2, <1>3 DEF Enter

LEMMA InsideStays ==
    ASSUME IInv, Next, NEW K, {"union", "multi", "list"} \subseteq K, InsideOnly(K),
           NoStrings, UnorderedMapStart => "umap" \in K
    PROVE  InsideOnly(K)'
<1>1. CASE calls' = calls
  BY <1>1 DEF InsideOnly
<1>2. CASE calls # << >> /\ calls' = Returned
  BY <1>2, CallsReturned
<1>3. ASSUME NEW call \in K, calls' = Append(calls, call)
      PROVE  InsideOnly(K)'
  BY <1>3, CallsAppended
<1>4. \/ calls' = calls
      \/ calls # << >> /\ calls' = Returned
      \/ \E call \in K : calls' = Append(calls, call)
  <2>1. ASSUME NEW call, NEW r, Enter(call, r)
        PROVE  calls' = calls \/ calls' = Append(calls, call)
    BY <2>1 DEF Enter
  <2>2. ASSUME NEW call, NEW r, Leave(call, r)
        PROVE  calls # << >> /\ calls' = Returned
    BY <2>2 DEF Leave, In, Returned
  <2>3. Decode \/ AnySkip \/ MovePayload \/ SearchStart \/ SearchRestarts \/ SearchFinds \/ SearchSkips
          \/ ElemProcessed \/ UnionElem \/ NewState => calls' = calls
    BY DEF Decode, AnySkip, MovePayload, SearchStart, SearchRestarts, SearchFinds, SearchSkips,
           ElemProcessed, UnionElem, NewState
  <2>4. ListEnd \/ UnorderedMapEnd \/ ListForceEnd \/ BstrEnd \/ UnionEnd \/ IterationOk
          \/ IterationFails => calls # << >> /\ calls' = Returned
    BY <2>2 DEF ListEnd, UnorderedMapEnd, ListForceEnd, BstrEnd, UnionEnd, IterationOk,
                IterationFails
  <2>5. ListStart \/ MapStart \/ UnorderedMapStart \/ UnionStart \/ IterationStart
          => calls' = calls \/ \E call \in K : calls' = Append(calls, call)
    BY <2>1 DEF ListStart, MapStart, UnorderedMapStart, UnionStart, IterationStart
  <2> QED BY <2>3, <2>4, <2>5, NoStringStarts DEF Next
<1> QED BY <1>1, <1>2, <1>3, <1>4

\* The decoder has seen the error that stops the library, if there is one.
ErrorSeen == zcbor_check_error(zs) \/ failing

EInv == OInv /\ InsideOnly(Calls \ {"bstr"}) /\ ErrorSeen

\* While there is one nothing moves, until a new start.
Stopped ==
    zcbor_check_error(zs) \/ zs' = zs \/ (zs'.error = "SUCCESS" /\ calls = << >>)

LEMMA ReturnSeen ==
    ASSUME zcbor_check_error(zs), NEW r, Quiet(zs, r), zs' = r.m, failing' = ~r.ok
    PROVE  ErrorSeen'
BY DEF ErrorSeen, Quiet, SameErrors, zcbor_check_error

\* The calls of a decoder that goes on reading report their errors.
LEMMA ReadingSeen ==
    ASSUME EInv, NoStrings
    PROVE  Decode \/ AnySkip \/ MovePayload \/ ListStart \/ MapStart \/ UnorderedMapStart \/ BstrStart
             \/ UnionStart \/ IterationStart \/ ElemProcessed \/ SearchStart
             \/ ListEnd \/ UnorderedMapEnd \/ IterationOk
           => ErrorSeen' /\ Stopped
<1>1. Good(zs) /\ zs \in Machine
  BY GoodType DEF EInv, OInv, IInv
<1>2. ASSUME ~failing, NEW r, Quiet(zs, r), zs' = r.m, failing' = ~r.ok
      PROVE  ErrorSeen' /\ Stopped
  BY <1>2, ReturnSeen DEF EInv, ErrorSeen, Stopped
<1>3. ASSUME NEW call, NEW r, Enter(call, r), Quiet(zs, r)
      PROVE  ErrorSeen' /\ Stopped
  BY <1>2, <1>3 DEF Enter, Decoding, Return
<1>4. ASSUME NEW call, NEW r, Leave(call, r), ~failing, failing' = ~r.ok, Quiet(zs, r)
      PROVE  ErrorSeen' /\ Stopped
  BY <1>2, <1>4 DEF Leave
<1>5. ASSUME NEW h \in Headers
      PROVE  /\ Quiet(zs, type_check(zs, h, PINT)) /\ Quiet(zs, value_extract(zs, h, 8, FALSE))
             /\ Quiet(zs, zcbor_list_start_decode(zs, h))
             /\ Quiet(zs, zcbor_map_start_decode(zs, h))
             /\ Quiet(zs, zcbor_unordered_map_start_decode(zs, h))
  BY <1>1, HeadersType, TypeCheckQuiet, ValueExtractQuiet, ListMapStartQuiet, MapStartQuiet,
     UnorderedMapStartQuiet DEF zcbor_list_start_decode
<1>6. Decode => ErrorSeen' /\ Stopped
  BY <1>2, <1>5 DEF Decode, Decoding, Return
<1>7. MovePayload => ErrorSeen' /\ Stopped
  <2> DEFINE n == zcbor_update_state(zs, PayloadLen)
  <2>1. SameErrors(zs, n)
    BY <1>1 DEF Machine, SameErrors, zcbor_update_state
  <2> HIDE DEF n
  <2>2. Quiet(zs, Success(n))
    BY <2>1 DEF Quiet, Success
  <2> QED BY <1>2, <2>2 DEF MovePayload, Decoding, Return, n
<1>8. ListStart \/ MapStart \/ UnorderedMapStart => ErrorSeen' /\ Stopped
  BY <1>3, <1>5 DEF ListStart, MapStart, UnorderedMapStart
<1>9. BstrStart => ErrorSeen' /\ Stopped
  <2> SUFFICES ASSUME BstrStart PROVE ErrorSeen' /\ Stopped
    OBVIOUS
  <2>1. PICK h \in Headers : Enter("bstr", zcbor_bstr_start_decode(zs, h))
    BY DEF BstrStart
  <2> DEFINE t == type_check(zs, h, BSTR)
  <2>2. ~t.ok
    BY DEF NoStrings, type_check, Err, Failure
  <2>3. zcbor_bstr_start_decode(zs, h) = t
    BY <2>2 DEF zcbor_bstr_start_decode, str_start_decode_with_overflow_check
  <2>4. Quiet(zs, t)
    BY <1>1, TypeCheckQuiet
  <2> QED BY <1>3, <2>1, <2>3, <2>4
<1>10. UnionStart \/ IterationStart => ErrorSeen' /\ Stopped
  <2>1. zs.state.elem_count \in 0 .. SIZE_MAX
    BY <1>1, GoodType DEF Cursor
  <2>2. Quiet(zs, zcbor_new_backup_w_elem_state(zs, zs.state.elem_count, TRUE))
    BY <1>1, <2>1, NewBackupQuiet
  <2> QED BY <1>3, <2>2 DEF UnionStart, IterationStart, zcbor_union_start_code
<1>11. ElemProcessed => ErrorSeen' /\ Stopped
  BY <1>1, <1>2, ElemProcessedQuiet DEF ElemProcessed, Decoding, Return
<1>12. SearchStart => ErrorSeen' /\ Stopped
  BY <1>2, QuietResults DEF SearchStart, Decoding, Return, EInv, ErrorSeen, Stopped
<1>13. ListEnd => ErrorSeen' /\ Stopped
  BY <1>1, <1>4, ListMapEndQuiet DEF ListEnd, Decoding
<1>14. UnorderedMapEnd => ErrorSeen' /\ Stopped
  <2> SUFFICES ASSUME UnorderedMapEnd PROVE ErrorSeen' /\ Stopped
    OBVIOUS
  <2>1. PICK at_break \in BOOLEAN :
          LET c == EndChecks(zs, at_break)
              loops == c.ok /\ ~zcbor_array_at_end(zs.state, at_break)
          IN  \E rest \in IF loops THEN Rests(c.m) ELSE {Skipped(zs.state.payload)} :
                LET r == zcbor_unordered_map_end_decode(zs, at_break, rest) IN
                Leave("umap", r) /\ failing' = ~r.ok
    BY DEF UnorderedMapEnd
  <2>2. ~failing
    BY DEF UnorderedMapEnd, Decoding
  <2> DEFINE c == EndChecks(zs, at_break)
  <2>3. Good(c.m) /\ c.m.state = zs.state /\ Quiet(zs, c)
    BY <1>1, EndChecksGood, EndChecksQuiet DEF GoodResult
  <2>4. PICK rest \in IF c.ok /\ ~zcbor_array_at_end(zs.state, at_break)
                      THEN Rests(c.m) ELSE {Skipped(c.m.state.payload)} :
          LET r == zcbor_unordered_map_end_decode(zs, at_break, rest) IN
          Leave("umap", r) /\ failing' = ~r.ok
    BY <2>1, <2>3
  <2> HIDE DEF c
  <2>5. rest \in Skips
    BY <2>3, <2>4, RestsType
  <2>6. zs.stop_on_error => rest.error = "SUCCESS"
    <3>1. \A x : Skipped(x).error = "SUCCESS"
      BY DEF Skipped
    <3>2. zs.stop_on_error => \/ rest = Skipped(c.m.state.payload)
                              \/ c.m.stop_on_error /\ rest \in Rests(c.m)
      BY <2>3, <2>4 DEF Quiet, SameErrors
    <3>3. c.m.stop_on_error /\ rest \in Rests(c.m) => \E x : rest = Skipped(x)
      BY DEF Rests
    <3> QED BY <3>1, <3>2, <3>3
  <2> DEFINE r == zcbor_unordered_map_end_decode(zs, at_break, rest)
  <2>7. r.ok => zcbor_check_error(r.m)
    BY <1>1, <2>2, <2>5, <2>6, UnorderedMapEndQuiet DEF EInv, ErrorSeen
  <2>8. zs' = r.m /\ failing' = ~r.ok
    BY <2>4 DEF Leave
  <2> HIDE DEF r
  <2> QED BY <2>2, <2>7, <2>8 DEF EInv, ErrorSeen, Stopped, zcbor_check_error
<1>15. IterationOk => ErrorSeen' /\ Stopped
  BY <1>1, <1>4, ProcessQuiet DEF IterationOk, Decoding
<1>16. AnySkip => ErrorSeen' /\ Stopped
  BY <1>1, <1>2, SkipsType, AnySkipQuiet DEF AnySkip, Decoding, Return
<1> QED BY <1>6, <1>7, <1>8, <1>9, <1>10, <1>11, <1>12, <1>13, <1>14, <1>15, <1>16

LEMMA SameErrorsClear ==
    ASSUME NEW m, NEW n, SameErrors(m, n)
    PROVE  zcbor_check_error(n) <=> zcbor_check_error(m)
BY DEF SameErrors, zcbor_check_error

LEMMA SearchReturnsSeen ==
    ASSUME NEW r, SearchReturns(r), zcbor_check_error(r.m) \/ ~r.ok
    PROVE  ErrorSeen'
BY DEF SearchReturns, ErrorSeen, zcbor_check_error

LEMMA SearchGoesOnSeen ==
    ASSUME NEW m, SearchGoesOn(m), zcbor_check_error(m)
    PROVE  ErrorSeen'
<1>1. CASE m.state.elem_count = search[1].elem_count
  <2> DEFINE r == BackToStart(zcbor_error(m, "ELEM_NOT_FOUND"))
  <2>1. SearchReturns(r) /\ ~r.ok
    BY <1>1 DEF SearchGoesOn, BackToStart, Failure
  <2> HIDE DEF r
  <2> QED BY <2>1, SearchReturnsSeen
<1>2. CASE m.state.elem_count # search[1].elem_count
  BY <1>2 DEF SearchGoesOn, ErrorSeen, zcbor_check_error
<1> QED BY <1>1, <1>2

\* A search goes on only while there is no error.
LEMMA SearchingSeen ==
    ASSUME EInv
    PROVE  SearchRestarts \/ SearchFinds \/ SearchSkips => ErrorSeen' /\ Stopped
<1> DEFINE g == SearchFlags
           t == should_try_key(g.m)
<1>1. Good(zs) /\ IInv
  BY DEF EInv, OInv, IInv
<1>2. Good(g.m) /\ Good(t.m)
  BY <1>1, SearchFlagsGood, ShouldTryKeyGood DEF GoodResult
<1>3. search # << >> => Stopped /\ zcbor_check_error(zs)
  BY DEF EInv, OInv, Searching, ErrorSeen, Stopped
<1>4. SearchRestarts => ErrorSeen' /\ Stopped
  <2> SUFFICES ASSUME SearchRestarts PROVE ErrorSeen' /\ Stopped
    OBVIOUS
  <2> DEFINE r == handle_map_end(zs)
  <2>1. /\ search # << >>
        /\ IF r.ok THEN SearchGoesOn(r.m) ELSE SearchReturns(BackToStart(r.m))
    BY DEF SearchRestarts
  <2>2. Quiet(zs, r)
    BY <1>1, MapRestartQuiet
  <2> HIDE DEF r
  <2>3. CASE r.ok
    BY <1>3, <2>1, <2>2, <2>3, SearchGoesOnSeen, SameErrorsClear DEF Quiet
  <2>4. CASE ~r.ok
    <3>1. ~BackToStart(r.m).ok
      BY DEF BackToStart, Failure
    <3> QED BY <1>3, <2>1, <2>4, <3>1, SearchReturnsSeen
  <2> QED BY <2>3, <2>4
<1>5. SearchFinds => ErrorSeen' /\ Stopped
  <2> SUFFICES ASSUME SearchFinds PROVE ErrorSeen' /\ Stopped
    OBVIOUS
  <2> DEFINE key == [g.m EXCEPT !.state.payload_bak = g.m.state.payload,
                                !.state.payload = @ + 1, !.state.elem_count = @ - 1]
             r == IF ManuallyProcess THEN Success(key) ELSE zcbor_elem_processed(key)
  <2>1. /\ search # << >>
        /\ g.m.state.elem_count > 0 /\ g.m.state.payload < g.m.state.payload_end
        /\ zcbor_check_error(g.m)
        /\ SearchReturns(r)
    BY DEF SearchFinds
  <2> HIDE DEF g
  <2>3. Good(key) /\ g.m \in Machine
    BY <1>2, <2>1, KeyReadGood, GoodType
  <2>4. SameErrors(g.m, key)
    BY <2>3 DEF Machine, SameErrors
  <2> HIDE DEF key
  <2>5. Quiet(key, r) /\ zcbor_check_error(key)
    BY <2>1, <2>3, <2>4, ElemProcessedQuiet, QuietResults, SameErrorsClear
  <2> HIDE DEF r
  <2>6. zcbor_check_error(r.m) \/ ~r.ok
    BY <2>5, SameErrorsClear DEF Quiet
  <2> QED BY <1>3, <2>1, <2>6, SearchReturnsSeen
<1>6. SearchSkips => ErrorSeen' /\ Stopped
  <2> SUFFICES ASSUME SearchSkips PROVE ErrorSeen' /\ Stopped
    OBVIOUS
  <2>1. search # << >>
    BY DEF SearchSkips
  <2>2. CASE ~g.ok
    <3>1. SearchReturns(g)
      BY <2>2 DEF SearchSkips
    <3> HIDE DEF g
    <3> QED BY <1>3, <2>1, <2>2, <3>1, SearchReturnsSeen
  <2>3. CASE g.ok
    <3>1. PICK m \in IF t.ok THEN KeysRefused(t.m) ELSE {t.m} :
            \E key \in {any_skip(m, taken) : taken \in SkipResults(m.state)} :
            \E value \in {any_skip(key.m, taken) : taken \in SkipResults(key.m.state)} :
               IF key.ok /\ value.ok THEN SearchGoesOn(value.m)
               ELSE SearchReturns(BackToStart(IF key.ok THEN value.m ELSE key.m))
      BY <2>3 DEF SearchSkips
    <3> HIDE DEF g, t
    <3>2. Good(m)
      BY <1>2, <3>1, KeysRefusedGood
    <3>3. PICK key \in {any_skip(m, taken) : taken \in SkipResults(m.state)} :
            \E value \in {any_skip(key.m, taken) : taken \in SkipResults(key.m.state)} :
               IF key.ok /\ value.ok THEN SearchGoesOn(value.m)
               ELSE SearchReturns(BackToStart(IF key.ok THEN value.m ELSE key.m))
      BY <3>1
    <3>4. Good(key.m)
      BY <3>2, SkipsType, AnySkipGood DEF GoodResult
    <3>5. PICK value \in {any_skip(key.m, taken) : taken \in SkipResults(key.m.state)} :
            IF key.ok /\ value.ok THEN SearchGoesOn(value.m)
            ELSE SearchReturns(BackToStart(IF key.ok THEN value.m ELSE key.m))
      BY <3>3
    <3>6. value.ok => zcbor_check_error(value.m)
      BY <3>4, <3>5, SkipsType, AnySkipQuiet, SameErrorsClear DEF Quiet
    <3>7. CASE key.ok /\ value.ok
      BY <1>3, <2>1, <3>5, <3>6, <3>7, SearchGoesOnSeen
    <3>8. CASE ~(key.ok /\ value.ok)
      <4>1. \A n : ~BackToStart(n).ok
        BY DEF BackToStart, Failure
      <4>2. \E n : SearchReturns(BackToStart(n))
        BY <3>5, <3>8
      <4> QED BY <1>3, <2>1, <4>1, <4>2, SearchReturnsSeen
    <3> QED BY <3>7, <3>8
  <2> QED BY <2>2, <2>3
<1> QED BY <1>4, <1>5, <1>6

\* On its way out the decoder only closes its calls.
LEMMA ClosingSeen ==
    ASSUME EInv
    PROVE  ListForceEnd \/ UnionElem \/ UnionEnd \/ IterationFails => ErrorSeen' /\ Stopped
<1>1. Good(zs)
  BY DEF EInv, OInv, IInv
<1>2. ASSUME failing, NEW flags, "KEEP_DECODE_STATE" \notin flags,
             zs' = zcbor_process_backup(zs, flags).m,
             failing' \/ zcbor_process_backup(zs, flags).ok
      PROVE  ErrorSeen' /\ Stopped
  <2> DEFINE r == zcbor_process_backup(zs, flags)
  <2>1. CASE zcbor_check_error(zs)
    <3>1. Quiet(zs, r)
      BY <1>1, <1>2, ProcessQuiet
    <3> HIDE DEF r
    <3>2. zcbor_check_error(r.m) \/ failing'
      BY <1>2, <2>1, <3>1, SameErrorsClear DEF Quiet, r
    <3> QED BY <1>2, <2>1, <3>2 DEF ErrorSeen, Stopped, zcbor_check_error, r
  <2>2. CASE ~zcbor_check_error(zs)
    BY <1>2, <2>2, StoppedStays DEF ErrorSeen, Stopped
  <2> QED BY <2>1, <2>2
<1>3. ListForceEnd => ErrorSeen' /\ Stopped
  BY <1>2 DEF ListForceEnd, Leave, zcbor_list_map_end_force_decode
<1>4. UnionElem => ErrorSeen' /\ Stopped
  BY <1>2 DEF UnionElem, Return, zcbor_union_elem_code
<1>5. IterationFails => ErrorSeen' /\ Stopped
  BY <1>2 DEF IterationFails, Leave
<1>6. UnionEnd => ErrorSeen' /\ Stopped
  <2> SUFFICES ASSUME UnionEnd PROVE ErrorSeen' /\ Stopped
    OBVIOUS
  <2> DEFINE r == zcbor_process_backup(zs, {"CONSUME"})
  <2>1. zs' = r.m /\ failing' = failing /\ calls # << >>
    BY DEF UnionEnd, Leave, In, zcbor_union_end_code
  <2>2. CASE failing
    BY <1>2, <2>1, <2>2
  <2>3. CASE ~failing
    <3>1. zcbor_check_error(zs)
      BY <2>3 DEF EInv, ErrorSeen
    <3>2. zs.backup_list # << >>
      <4>1. Len(calls) > 0 /\ Len(calls) <= Len(zs.backup_list)
        BY <2>1, EmptySeq DEF EInv, OInv, IInv, Paired
      <4> QED BY <4>1
    <3>3. r.ok
      BY <1>1, <3>1, <3>2, StateCommits
    <3>4. Quiet(zs, r)
      BY <1>1, ProcessQuiet
    <3> HIDE DEF r
    <3> QED BY <2>1, <3>1, <3>3, <3>4, ReturnSeen, SameErrorsClear
            DEF Quiet, ErrorSeen, Stopped, zcbor_check_error
  <2> QED BY <2>2, <2>3
<1> QED BY <1>3, <1>4, <1>5, <1>6

LEMMA ErrorsInit == Init => EInv
<1> SUFFICES ASSUME Init PROVE EInv
  OBVIOUS
<1>1. zs.error = "SUCCESS" /\ calls = << >>
  BY DEF Init
<1> QED BY <1>1, InitOrdered DEF EInv, InsideOnly, ErrorSeen, zcbor_check_error

LEMMA StepSeen == ASSUME NoStrings, EInv, Next PROVE EInv' /\ Stopped
<1>1. OInv' /\ IInv
  BY StepOrdered DEF EInv, OInv
<1>2. InsideOnly(Calls \ {"bstr"})'
  <2>1. {"union", "multi", "list", "umap"} \subseteq Calls \ {"bstr"}
    BY DEF Calls
  <2> QED BY <1>1, <2>1, InsideStays DEF EInv
<1>3. BstrEnd => FALSE
  <2> SUFFICES ASSUME BstrEnd PROVE FALSE
    OBVIOUS
  <2>1. calls # << >> /\ calls[Len(calls)] = "bstr"
    BY DEF BstrEnd, Leave, In
  <2>2. Len(calls) \in 1 .. Len(calls)
    BY <1>1, <2>1, EmptySeq DEF IInv
  <2> QED BY <2>1, <2>2 DEF EInv, InsideOnly
<1>4. NewState => ErrorSeen' /\ Stopped
  <2> SUFFICES ASSUME NewState PROVE ErrorSeen' /\ Stopped
    OBVIOUS
  <2> DEFINE n == zcbor_new_state(zs, PayloadLen, RootElems)
  <2>1. n \in Machine /\ n.error = "SUCCESS"
    <3>1. Good(zs) /\ zs \in Machine
      BY <1>1, GoodType DEF IInv
    <3>2. n \in Machine
      BY <3>1, NewStateGood, GoodType
    <3>3. n.error = "SUCCESS"
      BY <3>1 DEF Machine, zcbor_new_state
    <3> QED BY <3>2, <3>3
  <2>2. calls = << >> /\ \E stop \in StopModes : zs' = [n EXCEPT !.stop_on_error = stop]
    BY DEF NewState
  <2> HIDE DEF n
  <2>3. zs'.error = "SUCCESS"
    BY <2>1, <2>2 DEF Machine
  <2> QED BY <2>2, <2>3 DEF ErrorSeen, Stopped, zcbor_check_error
<1>5. ErrorSeen' /\ Stopped
  BY <1>3, <1>4, ReadingSeen, SearchingSeen, ClosingSeen DEF Next
<1> QED BY <1>1, <1>2, <1>5 DEF EInv

\* Where no schema has CBOR in a byte string (the generated code does not notice
\* when the end of one fails, nor does a search after it), a decoder with
\* stop_on_error moves nothing after the first error, whatever it was inside of,
\* until a new start.
THEOREM FirstErrorEnds == NoStrings => (Spec => FirstErrorStops)
<1> SUFFICES ASSUME NoStrings PROVE Spec => FirstErrorStops
  OBVIOUS
<1>1. EInv /\ [Next]_vars => EInv'
  <2>1. ASSUME EInv, UNCHANGED vars PROVE EInv'
    <3>1. OInv'
      BY <2>1, StepOrdered DEF EInv
    <3> QED BY <2>1, <3>1 DEF EInv, vars, InsideOnly, ErrorSeen
  <2> QED BY <2>1, StepSeen
<1>2. EInv /\ [Next]_vars
        => [zs.stop_on_error /\ zs.error # "SUCCESS"
              => zs' = zs \/ (zs'.error = "SUCCESS" /\ calls = << >>)]_vars
  BY StepSeen DEF Stopped, zcbor_check_error
<1> QED BY ErrorsInit, <1>1, <1>2, PTL DEF Spec, FirstErrorStops


-----------------------------------------------------------------------------
(* Calls and backups, for the decoders that keep them paired.              *)

\* A decoder that leaves no backup behind: it reads no CBOR in strings and no
\* maps in unordered form, has all of its payload at once, goes on after errors,
\* and is given no map of more pairs than a size_t counts the elements of.
\* Without any of these a call may fail after it took its backup or before it
\* removes it.
KeepsPairs ==
    /\ StopModes \subseteq {FALSE}
    /\ "unordered" \notin MapKinds
    /\ ~MovesPayload
    /\ NoStrings
    /\ \A h \in Headers :
          h.major = MAP => h.additional = INDEFINITE \/ h.value < SIZE_MAX \div 2

SameStop(m, n) == n.stop_on_error = m.stop_on_error

LEMMA ErrorStop ==
    ASSUME NEW m \in Machine, NEW err
    PROVE  /\ SameStop(m, zcbor_error(m, err)) /\ SameStop(m, Err(m, err).m)
           /\ SameStop(m, Success(m).m) /\ SameStop(m, Failure(m).m)
BY DEF Machine, SameStop, zcbor_error, Err, Success, Failure

LEMMA RewoundStop ==
    ASSUME NEW m \in Machine, NEW err
    PROVE  SameStop(m, FAIL_RESTORE(m).m) /\ SameStop(m, ERR_RESTORE(m, err).m)
<1> DEFINE n == Rewound(m)
<1>2. SameStop(m, n)
  BY DEF Machine, SameStop, Rewound
<1>3. SameStop(m, zcbor_error(n, err))
  BY DEF Machine, SameStop, Rewound, zcbor_error
<1> QED BY <1>2, <1>3 DEF FAIL_RESTORE, ERR_RESTORE, Err, Failure

LEMMA TypeCheckStop ==
    ASSUME NEW m, Good(m), NEW h, NEW type
    PROVE  SameStop(m, type_check(m, h, type).m)
<1> DEFINE R == type_check(m, h, type)
<1>1. R \in {Failure(m), Err(m, "NO_PAYLOAD"), Err(m, "WRONG_TYPE"), Success(m)}
  <2>1. initial_checks(m) \in {Failure(m), Err(m, "NO_PAYLOAD"), Success(m)}
    BY DEF initial_checks
  <2> QED BY <2>1 DEF type_check
<1> HIDE DEF R
<1>2. SameStop(m, R.m)
  BY <1>1, ErrorStop, GoodType
<1> QED BY <1>2 DEF R

LEMMA ValueExtractStop ==
    ASSUME NEW m, Good(m), NEW h, NEW result_len, NEW indef
    PROVE  SameStop(m, value_extract(m, h, result_len, indef).m)
<1> DEFINE R == value_extract(m, h, result_len, indef)
<1>1. R.ok => SameStop(m, R.m)
  BY ValueExtractQuiet DEF Quiet, SameErrors, SameStop
<1>2. ~R.ok => \/ R = Failure(m)
               \/ \E err : R = Err(m, err)
  <2>1. initial_checks(m) \in {Failure(m), Err(m, "NO_PAYLOAD"), Success(m)}
    BY DEF initial_checks
  <2> QED BY <2>1 DEF value_extract, Success
<1> HIDE DEF R
<1>3. SameStop(m, R.m)
  BY <1>1, <1>2, ErrorStop, GoodType
<1> QED BY <1>3 DEF R

LEMMA AnySkipStop ==
    ASSUME NEW m, Good(m), NEW taken \in Skips
    PROVE  SameStop(m, any_skip(m, taken).m)
<1> DEFINE R == any_skip(m, taken)
<1>1. R.ok => SameStop(m, R.m)
  BY AnySkipQuiet DEF Quiet, SameErrors, SameStop
<1>2. ~R.ok => \/ R = Failure(m) \/ R = ERR_RESTORE(m, taken.error)
               \/ \E err : R = Err(m, err)
  BY DEF any_skip, CopyTaken, initial_checks, Success
<1> HIDE DEF R
<1>3. SameStop(m, R.m)
  BY <1>1, <1>2, ErrorStop, RewoundStop, GoodType
<1> QED BY <1>3 DEF R

LEMMA NewBackupStop ==
    ASSUME NEW m, Good(m), NEW n \in 0 .. SIZE_MAX, NEW f \in BOOLEAN
    PROVE  SameStop(m, zcbor_new_backup_w_elem_state(m, n, f).m)
<1> DEFINE R == zcbor_new_backup_w_elem_state(m, n, f)
<1>1. R.ok => SameStop(m, R.m)
  BY NewBackupQuiet DEF Quiet, SameErrors, SameStop
<1>2. ~R.ok => \E err \in Errors : R.m \in {m, zcbor_error(m, err)}
  BY NewBackupSaves
<1> HIDE DEF R
<1>3. SameStop(m, R.m)
  BY <1>1, <1>2, ErrorStop, GoodType DEF SameStop
<1> QED BY <1>3 DEF R

LEMMA ProcessStop ==
    ASSUME NEW m, Good(m), NEW flags, "KEEP_DECODE_STATE" \notin flags
    PROVE  SameStop(m, zcbor_process_backup(m, flags).m)
<1> DEFINE R == zcbor_process_backup(m, flags)
<1>1. R.ok => SameStop(m, R.m)
  BY ProcessQuiet DEF Quiet, SameErrors, SameStop
<1>2. PICK restore \in BOOLEAN, consume \in BOOLEAN, keep \in BOOLEAN :
        /\ restore <=> "RESTORE" \in flags
        /\ consume <=> "CONSUME" \in flags
        /\ keep <=> "KEEP_PAYLOAD" \in flags
  OBVIOUS
<1>3. ~R.ok => \E err \in Errors : R.m \in {m, zcbor_error(m, err)}
  BY <1>2, ProcessTopOutcome
<1> HIDE DEF R
<1>4. SameStop(m, R.m)
  BY <1>1, <1>3, ErrorStop, GoodType DEF SameStop
<1> QED BY <1>4 DEF R

\* No flags are set aside for what was entered; a list or map that could not be
\* entered has left the flags as they were.
LEMMA ListMapStartMakes ==
    ASSUME NEW m, Good(m), NEW h \in HeaderSet, NEW type
    PROVE  LET r == list_map_start_decode(m, h, type)
               indef == h.additional = INDEFINITE
           IN  /\ SameStop(m, r.m)
               /\ r.ok => /\ h.major = type
                          /\ Count(r.m.state) = 0
                          /\ r.m.state.decode_state.indefinite_length_array = indef
                          /\ ~indef => r.m.state.elem_count = h.value
               /\ ~r.ok => Count(r.m.state) = Count(m.state)
<1> DEFINE indef == h.additional = INDEFINITE
           t == type_check(m, h, type)
           v == value_extract(m, h, SIZEOF_SIZE_T, TRUE)
           count == IF indef THEN ZCBOR_LARGE_ELEM_COUNT ELSE h.value
           b == zcbor_new_backup(v.m, count)
           c == [b.m.state EXCEPT
                   !.decode_state.map_start_backup_num = Len(b.m.backup_list),
                   !.decode_state.indefinite_length_array = indef]
           entered == [b.m EXCEPT !.state = c]
           R == list_map_start_decode(m, h, type)
<1>1. /\ SameStop(m, t.m) /\ Count(t.m.state) = Count(m.state)
      /\ t.ok => h.major = type
  <2>1. SameStop(m, t.m)
    BY TypeCheckStop
  <2>2. t.m \in {m, zcbor_error(m, "NO_PAYLOAD"), zcbor_error(m, "WRONG_TYPE")}
    <3>1. initial_checks(m) \in {Failure(m), Err(m, "NO_PAYLOAD"), Success(m)}
      BY DEF initial_checks
    <3> QED BY <3>1 DEF type_check, Failure, Err, Success
  <2>3. \A err \in {"NO_PAYLOAD", "WRONG_TYPE"} : zcbor_error(m, err).state = m.state
    BY ErrorGood DEF Errors
  <2>4. t.ok => h.major = type
    BY DEF type_check, Err, Failure
  <2> HIDE DEF t
  <2> QED BY <2>1, <2>2, <2>3, <2>4
<1>2. Good(v.m) /\ KeepsSection(v, m) /\ SameStop(m, v.m)
  <2>1. SIZEOF_SIZE_T \in Nat
    BY DEF SIZEOF_SIZE_T
  <2> QED BY <2>1, ValueExtractGood, ValueExtractStop DEF GoodResult
<1> HIDE DEF t, v
<1>3. count \in 0 .. SIZE_MAX
  BY SizeAssumption DEF HeaderSet, ZCBOR_LARGE_ELEM_COUNT
<1>4. GoodResult(b) /\ Good(b.m) /\ SameStop(v.m, b.m)
  BY <1>2, <1>3, NewBackupGood, NewBackupStop DEF zcbor_new_backup, GoodResult
<1>5. /\ b.ok => b.m = Pushed(v.m, count, FALSE)
      /\ ~b.ok => \E err \in Errors : b.m \in {v.m, zcbor_error(v.m, err)}
  <2> HIDE DEF count
  <2>1. (SmartSearch /\ FALSE) = FALSE
    OBVIOUS
  <2> QED BY <1>2, <1>3, <2>1, NewBackupSaves DEF zcbor_new_backup
<1>6. b.ok => b.m.state.elem_count = count
  <2>1. v.m \in Machine /\ v.m.state \in Cursor
    BY <1>2, GoodType
  <2> DEFINE from == [v.m.state EXCEPT !.elem_count = count]
             p == Pushed(v.m, count, FALSE)
  <2>2. from.elem_count = count
    BY <2>1 DEF Cursor
  <2>3. Alike(v.m, from, p, p.state)
    BY <1>2, <1>3, PushedSaves DEF GoesOn
  <2> HIDE DEF b, count, from, p
  <2>4. p.state.elem_count = count
    BY <2>2, <2>3, AlikeFields
  <2> QED BY <1>5, <2>4 DEF p
<1> HIDE DEF b
<1>7. ~b.ok => /\ SameStop(m, FAIL_RESTORE(b.m).m)
               /\ Count(FAIL_RESTORE(b.m).m.state) = Count(m.state)
               /\ ~FAIL_RESTORE(b.m).ok
  <2> SUFFICES ASSUME ~b.ok
               PROVE  /\ SameStop(m, FAIL_RESTORE(b.m).m)
                      /\ Count(FAIL_RESTORE(b.m).m.state) = Count(m.state)
                      /\ ~FAIL_RESTORE(b.m).ok
    OBVIOUS
  <2>1. SameStop(b.m, FAIL_RESTORE(b.m).m) /\ ~FAIL_RESTORE(b.m).ok
    BY <1>4, GoodType, RewoundStop DEF FAIL_RESTORE, Failure
  <2>2. Rewound(b.m).state.decode_state = b.m.state.decode_state
    BY <1>4, RewoundGood
  <2>3. b.m.state = v.m.state
    BY <1>2, <1>5, ErrorGood
  <2> QED BY <1>2, <1>4, <2>1, <2>2, <2>3 DEF SameStop, FAIL_RESTORE, Failure, Count, KeepsSection
<1>8. /\ b.m \in Machine /\ b.m.state \in Cursor /\ Len(b.m.backup_list) \in 0 .. NumBackups
      /\ indef \in BOOLEAN
  BY <1>4, GoodType
<1>9. /\ c \in Cursor /\ Start(c) = Start(b.m.state)
      /\ Count(c) = Count(b.m.state)
      /\ c.decode_state.indefinite_length_array = indef
      /\ c.elem_count = b.m.state.elem_count
  BY <1>8 DEF Cursor, DecodeState, Start, Count
<1>10. entered = [b.m EXCEPT
               !.state.decode_state.map_start_backup_num = Len(b.m.backup_list),
               !.state.decode_state.indefinite_length_array = indef]
  BY <1>8 DEF Machine, Cursor, DecodeState
<1> HIDE DEF c
<1>11. Good(entered) /\ entered.state = c /\ SameErrors(b.m, entered)
  BY <1>4, <1>8, <1>9, StateUpdateGood, SameRegister DEF Count
<1> HIDE DEF entered
<1>12. R = IF ~t.ok THEN t ELSE IF ~v.ok THEN v
           ELSE IF ~b.ok THEN FAIL_RESTORE(b.m) ELSE exit_map(entered)
  BY <1>10 DEF list_map_start_decode, t, v, b, count
<1> DEFINE e == exit_map(entered)
<1>13. /\ e.ok = TRUE
       /\ SameStop(entered, e.m)
       /\ Count(e.m.state) = 0
       /\ e.m.state.decode_state.indefinite_length_array = indef
       /\ e.m.state.elem_count = b.m.state.elem_count
  <2>1. e.ok = TRUE
    BY <1>11, ExitMapEnters
  <2>2. SameStop(entered, e.m)
    BY <1>11, <2>1, ExitMapQuiet DEF Quiet, SameErrors, SameStop
  <2>3. entered \in Machine /\ entered.state \in Cursor
    BY <1>11, GoodType
  <2> DEFINE n1 == [entered EXCEPT
                      !.state.decode_state.map_search_elem_state = FlagEnd(entered.state),
                      !.state.decode_state.map_elem_count = 0]
             n2 == [entered EXCEPT !.state.decode_state.map_elems_processed = 0,
                                   !.state.decode_state.map_elem_count = 0]
  <2>4. e \in {Err(entered, "MAP_FLAGS_NOT_AVAILABLE"), Success(n1), Success(n2)}
    BY DEF exit_map
  <2>5. e.m = n1 \/ e.m = n2
    BY <2>1, <2>4 DEF Err, Failure, Success
  <2>6. /\ Count(n1.state) = 0 /\ n1.state.elem_count = entered.state.elem_count
        /\ n1.state.decode_state.indefinite_length_array
             = entered.state.decode_state.indefinite_length_array
    BY <2>3 DEF Machine, Cursor, DecodeState, Count
  <2>7. /\ Count(n2.state) = 0 /\ n2.state.elem_count = entered.state.elem_count
        /\ n2.state.decode_state.indefinite_length_array
             = entered.state.decode_state.indefinite_length_array
    BY <2>3 DEF Machine, Cursor, DecodeState, Count
  <2> HIDE DEF n1, n2, e
  <2> QED BY <1>9, <1>11, <2>1, <2>2, <2>5, <2>6, <2>7
<1> HIDE DEF e
<1>14. SameStop(m, e.m)
  BY <1>2, <1>4, <1>11, <1>13 DEF SameStop, SameErrors
<1>15. ~v.ok => Count(v.m.state) = Count(m.state)
  BY <1>2 DEF KeepsSection, Count
<1>16. CASE ~t.ok
  BY <1>1, <1>12, <1>16 DEF R
<1>17. CASE t.ok /\ ~v.ok
  BY <1>2, <1>12, <1>15, <1>17 DEF R
<1>18. CASE t.ok /\ v.ok /\ ~b.ok
  <2>1. R = FAIL_RESTORE(b.m)
    BY <1>12, <1>18
  <2> QED BY <1>7, <1>18, <2>1
<1>19. CASE t.ok /\ v.ok /\ b.ok
  <2>1. R = e
    BY <1>12, <1>19 DEF e
  <2>2. ~indef => b.m.state.elem_count = h.value
    BY <1>6, <1>19
  <2> HIDE DEF indef
  <2>3. h.major = type
    BY <1>1, <1>19
  <2>4. /\ SameStop(m, R.m) /\ R.ok /\ h.major = type
        /\ Count(R.m.state) = 0
        /\ R.m.state.decode_state.indefinite_length_array = indef
        /\ ~indef => R.m.state.elem_count = h.value
    BY <1>13, <1>14, <2>1, <2>2, <2>3
  <2> HIDE DEF R
  <2> QED BY <2>4 DEF R, indef
<1> QED BY <1>16, <1>17, <1>18, <1>19

LEMMA RestoredError ==
    ASSUME NEW m \in Machine, ~m.stop_on_error, NEW err
    PROVE  ERR_RESTORE(m, err).m.error = err
<1> DEFINE n == Rewound(m)
<1>1. ~n.stop_on_error /\ "error" \in DOMAIN n
  BY DEF Machine, Rewound
<1>2. zcbor_error(n, err).error = err
  <2> HIDE DEF n
  <2> QED BY <1>1 DEF zcbor_error, zcbor_check_error
<1> QED BY <1>2 DEF ERR_RESTORE, Err, Failure

\* The elements of a map of that many pairs are more than a size_t counts.
TooManyPairs(h) == h.major = MAP /\ h.additional # INDEFINITE /\ h.value >= SIZE_MAX \div 2

\* Any other map fails before it takes its backup, if it does.
LEMMA MapStartMakes ==
    ASSUME NEW m, Good(m), NEW h \in HeaderSet
    PROVE  LET r == zcbor_map_start_decode(m, h) IN
           /\ SameStop(m, r.m)
           /\ r.ok => ListOpened(m, r.m)
           /\ ~r.ok => \/ Worked(m, r.m)
                       \/ TooManyPairs(h) /\ (m.stop_on_error \/ r.m.error = "INT_SIZE")
<1> DEFINE r == list_map_start_decode(m, h, MAP)
           n == [r.m EXCEPT !.state.elem_count = 2 * @]
           e == ERR_RESTORE(r.m, "INT_SIZE")
           R == zcbor_map_start_decode(m, h)
           indef == h.additional = INDEFINITE
<1>1. /\ Good(r.m) /\ r.m \in Machine /\ r.ok \in BOOLEAN
      /\ SameStop(m, r.m) /\ (~r.ok => Worked(m, r.m))
      /\ r.ok => /\ h.major = MAP
                 /\ r.m.state.decode_state.indefinite_length_array = indef
                 /\ ~indef => r.m.state.elem_count = h.value
  BY ListMapStartGood, ListMapStartMakes, ListMapStartOpens, GoodType DEF GoodResult
<1>2. R.ok => ListOpened(m, R.m)
  BY MapStartOpens
<1> HIDE DEF r, indef
<1>3. r.ok /\ ~r.m.state.decode_state.indefinite_length_array
        /\ r.m.state.elem_count >= SIZE_MAX \div 2 => TooManyPairs(h)
  BY <1>1 DEF TooManyPairs, indef
<1>4. R = r \/ (r.ok /\ R = Success(n)) \/ (TooManyPairs(h) /\ R = e)
  BY <1>3 DEF zcbor_map_start_decode, PairsCounted, r
<1>5. SameStop(r.m, n)
  BY <1>1 DEF Machine, SameStop
<1>6. SameStop(r.m, e.m) /\ (m.stop_on_error \/ e.m.error = "INT_SIZE")
  BY <1>1, RewoundStop, RestoredError DEF SameStop
<1> HIDE DEF n, e, R
<1>7. /\ SameStop(m, R.m)
      /\ ~R.ok => \/ Worked(m, R.m)
                  \/ TooManyPairs(h) /\ (m.stop_on_error \/ R.m.error = "INT_SIZE")
  BY <1>1, <1>4, <1>5, <1>6 DEF SameStop, Success
<1> QED BY <1>2, <1>7 DEF R

LEMMA GrowMapMakes ==
    ASSUME NEW m \in Machine, NEW count
    PROVE  LET r == GrowMap(m, count) IN
           /\ SameStop(m, r.m)
           /\ ~r.ok => m.stop_on_error \/ r.m.error = "MAP_FLAGS_NOT_AVAILABLE"
<1> DEFINE old == m.state.decode_state.map_elem_count
           new == IF count \div 2 > old THEN count \div 2 ELSE old
           grown == [m EXCEPT !.state.decode_state.map_elem_count = new]
           start == grown.state.decode_state.map_search_elem_state
           full == [grown EXCEPT !.mem =
                      [a \in DOMAIN grown.mem |->
                         IF a \in start + FlagsToBytes(old) .. start + FlagLen(grown.state) - 1
                         THEN Bit ELSE grown.mem[a]]]
           few == [grown EXCEPT !.state.decode_state.map_elem_count
                                  = BitsPerByte * (FlagBytes - start)]
           flag == "MAP_FLAGS_NOT_AVAILABLE"
           R == GrowMap(m, count)
<1>1. SameStop(m, grown) /\ {"error", "stop_on_error"} \subseteq DOMAIN grown
  BY DEF Machine, SameStop
<1>2. R = IF SmartSearch THEN allocate_map_flags(grown, old) ELSE Success(grown)
  BY DEF GrowMap
<1> HIDE DEF grown, R
<1>3. allocate_map_flags(grown, old) \in {Success(grown), Success(full), Err(few, flag)}
  BY DEF allocate_map_flags
<1>4. /\ SameStop(m, full) /\ SameStop(m, few)
      /\ {"error", "stop_on_error"} \subseteq DOMAIN few
  BY <1>1 DEF SameStop
<1> HIDE DEF full, few
<1>5. /\ SameStop(m, zcbor_error(few, flag))
      /\ m.stop_on_error \/ zcbor_error(few, flag).error = flag
  BY <1>4 DEF SameStop, zcbor_error, zcbor_check_error
<1> HIDE DEF flag
<1>6. SameStop(m, R.m) /\ (~R.ok => m.stop_on_error \/ R.m.error = flag)
  BY <1>1, <1>2, <1>3, <1>4, <1>5 DEF Success, Err, Failure
<1> QED BY <1>6 DEF R, flag

LEMMA UnorderedMapStartMakes ==
    ASSUME NEW m, Good(m), NEW h \in HeaderSet
    PROVE  LET r == zcbor_unordered_map_start_decode(m, h) IN
           /\ SameStop(m, r.m)
           /\ r.ok => ListOpened(m, r.m)
           /\ ~r.ok => \/ Worked(m, r.m)
                       \/ m.stop_on_error
                       \/ r.m.error \in {"INT_SIZE", "MAP_FLAGS_NOT_AVAILABLE"}
<1> DEFINE r == zcbor_map_start_decode(m, h)
           counting == r.m.state.decode_state.indefinite_length_array
           n == [r.m EXCEPT !.state.decode_state.map_elem_count = 0,
                            !.state.decode_state.counting_map_elems = counting]
           R == zcbor_unordered_map_start_decode(m, h)
<1>1. /\ Good(r.m) /\ SameStop(m, r.m)
      /\ ~r.ok => Worked(m, r.m) \/ m.stop_on_error \/ r.m.error = "INT_SIZE"
  BY MapStartGood, MapStartMakes DEF GoodResult
<1>2. R.ok => ListOpened(m, R.m)
  BY UnorderedMapStartOpens
<1>3. IF ~r.ok THEN R = r ELSE R \in {Success(n), GrowMap(n, n.state.elem_count)}
  BY DEF zcbor_unordered_map_start_decode, SearchStarted
<1> HIDE DEF r
<1>4. r.m \in Machine /\ r.m.state \in Cursor /\ counting \in BOOLEAN
        /\ 0 \in 0 .. SIZE_MAX \div 2
  BY <1>1, GoodType, SizeAssumption DEF DecodeState
<1> HIDE DEF counting
<1>5. n \in Machine /\ SameStop(m, n)
  BY <1>1, <1>4 DEF Machine, Cursor, DecodeState, SameStop
<1> HIDE DEF n, R
<1>6. /\ SameStop(m, R.m)
      /\ ~R.ok => \/ Worked(m, R.m)
                  \/ m.stop_on_error
                  \/ R.m.error \in {"INT_SIZE", "MAP_FLAGS_NOT_AVAILABLE"}
  <2>1. CASE ~r.ok
    BY <1>1, <1>3, <2>1
  <2>2. CASE R = Success(n)
    BY <1>5, <2>2 DEF Success
  <2>3. CASE R = GrowMap(n, n.state.elem_count)
    BY <1>5, <2>3, GrowMapMakes DEF SameStop
  <2> QED BY <1>3, <2>1, <2>2, <2>3
<1> QED BY <1>2, <1>6 DEF R

\* Where there is a backup, in its place, its list or map is left whether or not
\* it is complete.
LEMMA ListMapEndLeaves ==
    ASSUME NEW m, Good(m), NEW at_break \in BOOLEAN, zcbor_check_error(m),
           m.backup_list # << >>, ~Top(m).payload_moved
    PROVE  LET R == list_map_end_decode(m, at_break) IN
           SameStop(m, R.m) /\ OneLess(m, R.m)
<1> DEFINE flags == {"RESTORE", "CONSUME", "KEEP_PAYLOAD"}
           r == zcbor_process_backup(m, flags)
           R == list_map_end_decode(m, at_break)
<1>1. "KEEP_DECODE_STATE" \notin flags
  OBVIOUS
<1>2. Good(r.m) /\ r.ok /\ SameStop(m, r.m)
  BY <1>1, ProcessTopGood, ProcessStop DEF GoodResult, Top
<1>3. OneLess(m, r.m)
  BY <1>2, Closes DEF Closed
<1> HIDE DEF r
<1> DEFINE e == array_end_expect(r.m, at_break)
<1>4. Forward(r.m, e.m)
  BY <1>2, ArrayEndForward
<1>5. SameStop(r.m, e.m)
  <2>1. e.ok => SameStop(r.m, e.m)
    BY <1>2, ArrayEndQuiet DEF Quiet, SameErrors, SameStop
  <2>2. ~e.ok => \/ e = Failure(r.m)
                 \/ \E err : e = Err(r.m, err)
    BY DEF array_end_expect, initial_checks, Success
  <2> HIDE DEF e
  <2> QED BY <1>2, <2>1, <2>2, ErrorStop, GoodType
<1>6. R = r \/ R = e \/ R = Err(r.m, "HIGH_ELEM_COUNT")
  BY DEF list_map_end_decode, ArrayEnded, r
<1> HIDE DEF R, e
<1>7. SameStop(r.m, R.m) /\ R.m.backup_list = r.m.backup_list
  <2>1. SameStop(r.m, Err(r.m, "HIGH_ELEM_COUNT").m)
    BY <1>2, ErrorStop, GoodType
  <2>2. Err(r.m, "HIGH_ELEM_COUNT").m.backup_list = r.m.backup_list
    BY <1>2, ErrGood DEF Errors
  <2> QED BY <1>4, <1>5, <1>6, <2>1, <2>2 DEF Forward, SameStop
<1> QED BY <1>2, <1>3, <1>7 DEF OneLess, SameStop, R

\* No backup has lost its place in the payload.
Unmoved(m) == \A i \in 1 .. Len(m.backup_list) : ~m.backup_list[i].payload_moved

\* Each call has its backup and can use it.
Together ==
    /\ OInv
    /\ ~Orphaned
    /\ zs.stop_on_error = FALSE
    /\ Unmoved(zs)

PInv ==
    /\ Together
    /\ InsideOnly({"union", "multi", "list"})
    /\ search = << >>

\* Calls and backups come and go together.
InStep ==
    /\ SameStop(zs, zs')
    /\ \/ calls' = calls /\ zs'.backup_list = zs.backup_list
       \/ \E call : /\ calls' = Append(calls, call)
                    /\ OneMore(zs, zs') /\ ~Top(zs').payload_moved
       \/ calls # << >> /\ calls' = Returned /\ OneLess(zs, zs')

LEMMA InStepPairs ==
    ASSUME Together, InStep, Good(zs')
    PROVE  ~Orphaned' /\ Unmoved(zs') /\ zs'.stop_on_error = FALSE
<1>1. /\ Good(zs) /\ calls \in Seq(Calls) /\ Len(calls) = Len(zs.backup_list)
      /\ Len(calls) \in Nat /\ Len(zs'.backup_list) \in Nat
  BY GoodType DEF Together, OInv, IInv, Orphaned
<1>2. zs'.stop_on_error = FALSE
  BY DEF Together, InStep, SameStop
<1>3. CASE calls' = calls /\ zs'.backup_list = zs.backup_list
  BY <1>1, <1>2, <1>3 DEF Together, Orphaned, Unmoved
<1>4. ASSUME NEW call, calls' = Append(calls, call), OneMore(zs, zs'),
             ~Top(zs').payload_moved
      PROVE  ~Orphaned' /\ Unmoved(zs')
  <2>1. Len(calls') = Len(calls) + 1
    BY <1>1, <1>4
  <2>2. Len(zs'.backup_list) = Len(calls) + 1
    BY <1>1, <1>4 DEF OneMore
  <2>3. ASSUME NEW i \in 1 .. Len(calls) + 1
        PROVE  ~zs'.backup_list[i].payload_moved
    <3>1. CASE i \in 1 .. Len(calls)
      BY <1>1, <1>4, <3>1 DEF OneMore, Together, Unmoved
    <3>2. CASE i = Len(calls) + 1
      BY <1>4, <2>2, <3>2 DEF Top
    <3> QED BY <1>1, <3>1, <3>2
  <2> QED BY <2>1, <2>2, <2>3 DEF Orphaned, Unmoved
<1>5. CASE calls # << >> /\ calls' = Returned /\ OneLess(zs, zs')
  <2>1. Len(calls) # 0
    BY <1>1, <1>5, EmptySeq
  <2>2. Len(calls') = Len(calls) - 1
    BY <1>1, <1>5, <2>1, CallPopped DEF Returned
  <2>3. Len(zs'.backup_list) = Len(calls) - 1
    BY <1>1, <1>5 DEF OneLess
  <2>4. ASSUME NEW i \in 1 .. Len(calls) - 1
        PROVE  ~zs'.backup_list[i].payload_moved
    <3>1. zs'.backup_list[i] = zs.backup_list[i]
      BY <1>5, <2>3 DEF OneLess
    <3> QED BY <1>1, <3>1 DEF Together, Unmoved
  <2> QED BY <1>2, <2>2, <2>3, <2>4 DEF Orphaned, Unmoved
<1>6. CASE \E call : /\ calls' = Append(calls, call)
                     /\ OneMore(zs, zs') /\ ~Top(zs').payload_moved
  BY <1>2, <1>4, <1>6
<1> QED BY <1>2, <1>3, <1>5, <1>6 DEF InStep

LEMMA WorkedInStep ==
    ASSUME NEW n, Worked(zs, n), SameStop(zs, n), zs' = n, calls' = calls
    PROVE  InStep
BY DEF InStep, Worked, Kept, KeptBelow

LEMMA EnterInStep ==
    ASSUME NEW call, NEW r, Enter(call, r), SameStop(zs, r.m),
           r.ok => OneMore(zs, r.m) /\ ~Top(r.m).payload_moved,
           ~r.ok => r.m.backup_list = zs.backup_list
    PROVE  InStep
<1>1. CASE r.ok
  BY <1>1 DEF Enter, Return, InStep
<1>2. CASE ~r.ok
  BY <1>2 DEF Enter, Return, InStep
<1> QED BY <1>1, <1>2

LEMMA LeaveInStep ==
    ASSUME NEW call, NEW r, Leave(call, r), SameStop(zs, r.m), OneLess(zs, r.m)
    PROVE  InStep
BY DEF Leave, In, InStep, Returned

LEMMA PairedTop ==
    ASSUME Together
    PROVE  /\ Good(zs) /\ zcbor_check_error(zs)
           /\ calls # << >> => zs.backup_list # << >> /\ ~Top(zs).payload_moved
<1>1. /\ Good(zs) /\ zs.stop_on_error = FALSE /\ calls \in Seq(Calls)
      /\ Len(calls) = Len(zs.backup_list)
  BY DEF Together, OInv, IInv, Orphaned
<1>2. calls # << >> => Len(zs.backup_list) \in 1 .. Len(zs.backup_list)
  BY <1>1, EmptySeq
<1>3. calls # << >> => zs.backup_list # << >>
  BY <1>1, EmptySeq
<1> QED BY <1>1, <1>2, <1>3 DEF Together, Unmoved, Top, zcbor_check_error

LEMMA StartsInStep ==
    ASSUME NoStrings, Together
    PROVE  ListStart \/ BstrStart \/ UnionStart \/ IterationStart => InStep
<1>1. Good(zs)
  BY PairedTop
<1>2. ASSUME NEW call, NEW r, Enter(call, r), SameStop(zs, r.m),
             r.ok => ListOpened(zs, r.m), ~r.ok => Worked(zs, r.m)
      PROVE  InStep
  BY <1>2, EnterInStep DEF ListOpened, Opened, Worked, Kept, KeptBelow
<1>3. ListStart => InStep
  BY <1>1, <1>2, HeadersType, ListMapStartMakes, ListMapStartOpens
     DEF ListStart, zcbor_list_start_decode
<1>4. BstrStart => InStep
  <2> SUFFICES ASSUME BstrStart PROVE InStep
    OBVIOUS
  <2>1. PICK h \in Headers : Enter("bstr", zcbor_bstr_start_decode(zs, h))
    BY DEF BstrStart
  <2> DEFINE t == type_check(zs, h, BSTR)
  <2>2. ~t.ok
    BY DEF NoStrings, type_check, Err, Failure
  <2>3. zcbor_bstr_start_decode(zs, h) = t
    BY <2>2 DEF zcbor_bstr_start_decode, str_start_decode_with_overflow_check
  <2>4. Worked(zs, t.m) /\ SameStop(zs, t.m)
    BY <1>1, TypeCheckWorks, TypeCheckStop
  <2> HIDE DEF t
  <2> QED BY <1>2, <2>1, <2>2, <2>3, <2>4
<1>5. UnionStart \/ IterationStart => InStep
  <2> DEFINE r == zcbor_new_backup_w_elem_state(zs, zs.state.elem_count, TRUE)
  <2>1. zs.state.elem_count \in 0 .. SIZE_MAX
    BY <1>1, GoodType DEF Cursor
  <2>2. /\ r.ok => StateSaved(zs, r.m, SmartSearch /\ TRUE)
        /\ ~r.ok => \E err \in Errors : r.m \in {zs, zcbor_error(zs, err)}
    BY <1>1, <2>1, NewBackupSaves
  <2>3. SameStop(zs, r.m)
    BY <1>1, <2>1, NewBackupStop
  <2>4. UnionStart \/ IterationStart => \E call : Enter(call, r)
    BY DEF UnionStart, IterationStart, zcbor_union_start_code
  <2> HIDE DEF r
  <2>5. r.ok => OneMore(zs, r.m) /\ ~Top(r.m).payload_moved
    BY <2>2 DEF StateSaved
  <2>6. ~r.ok => r.m.backup_list = zs.backup_list
    BY <1>1, <2>2, ErrorGood
  <2> QED BY <2>3, <2>4, <2>5, <2>6, EnterInStep
<1> QED BY <1>3, <1>4, <1>5

\* The start of a map may fail after it took its backup.
LEMMA MapsInStep ==
    ASSUME Together
    PROVE  /\ \A h \in Headers : Enter("list", zcbor_map_start_decode(zs, h)) =>
                InStep \/ (TooManyPairs(h) /\ zs'.error = "INT_SIZE")
           /\ UnorderedMapStart =>
                InStep \/ zs'.error \in {"INT_SIZE", "MAP_FLAGS_NOT_AVAILABLE"}
<1>1. Good(zs) /\ zs.stop_on_error = FALSE
  BY PairedTop DEF Together
<1>2. ASSUME NEW call, NEW r, Enter(call, r), SameStop(zs, r.m),
             r.ok => ListOpened(zs, r.m), ~r.ok => Worked(zs, r.m)
      PROVE  InStep
  BY <1>2, EnterInStep DEF ListOpened, Opened, Worked, Kept, KeptBelow
<1>3. ASSUME NEW h \in Headers, Enter("list", zcbor_map_start_decode(zs, h))
      PROVE  InStep \/ (TooManyPairs(h) /\ zs'.error = "INT_SIZE")
  <2> DEFINE r == zcbor_map_start_decode(zs, h)
  <2>1. /\ SameStop(zs, r.m)
        /\ r.ok => ListOpened(zs, r.m)
        /\ ~r.ok => Worked(zs, r.m) \/ (TooManyPairs(h) /\ r.m.error = "INT_SIZE")
    BY <1>1, HeadersType, MapStartMakes
  <2>2. zs' = r.m /\ Enter("list", r)
    BY <1>3 DEF Enter, Return
  <2> HIDE DEF r
  <2> QED BY <1>2, <2>1, <2>2
<1>4. ASSUME UnorderedMapStart
      PROVE  InStep \/ zs'.error \in {"INT_SIZE", "MAP_FLAGS_NOT_AVAILABLE"}
  <2>1. PICK h \in Headers : Enter("umap", zcbor_unordered_map_start_decode(zs, h))
    BY <1>4 DEF UnorderedMapStart
  <2> DEFINE r == zcbor_unordered_map_start_decode(zs, h)
  <2>2. /\ SameStop(zs, r.m)
        /\ r.ok => ListOpened(zs, r.m)
        /\ ~r.ok => Worked(zs, r.m) \/ r.m.error \in {"INT_SIZE", "MAP_FLAGS_NOT_AVAILABLE"}
    BY <1>1, HeadersType, UnorderedMapStartMakes
  <2>3. zs' = r.m /\ Enter("umap", r)
    BY <2>1 DEF Enter, Return
  <2> HIDE DEF r
  <2> QED BY <1>2, <2>2, <2>3
<1> QED BY <1>3, <1>4

LEMMA EndsInStep ==
    ASSUME Together
    PROVE  ListEnd \/ ListForceEnd \/ UnionEnd \/ IterationOk \/ IterationFails => InStep
<1>1. Good(zs) /\ zcbor_check_error(zs)
  BY PairedTop
<1>2. ASSUME NEW call, NEW r, Leave(call, r)
      PROVE  zs.backup_list # << >> /\ ~Top(zs).payload_moved
  BY <1>2, PairedTop DEF Leave, In
<1>3. ListEnd => InStep
  <2> SUFFICES ASSUME NEW at_break \in BOOLEAN,
                      Leave("list", list_map_end_decode(zs, at_break))
               PROVE  InStep
    BY DEF ListEnd
  <2>1. zs.backup_list # << >> /\ ~Top(zs).payload_moved
    BY <1>2
  <2> QED BY <1>1, <2>1, ListMapEndLeaves, LeaveInStep
<1>4. ListForceEnd => InStep
  <2> DEFINE flags == {"RESTORE", "CONSUME", "KEEP_PAYLOAD"}
             r == zcbor_process_backup(zs, flags)
  <2> SUFFICES ASSUME NEW call, Leave(call, r) PROVE InStep
    BY DEF ListForceEnd, zcbor_list_map_end_force_decode
  <2>1. r.ok /\ SameStop(zs, r.m)
    BY <1>1, <1>2, ProcessTopGood, ProcessStop DEF Top
  <2>2. OneLess(zs, r.m)
    BY <1>1, <2>1, Closes DEF Closed
  <2> QED BY <2>1, <2>2, LeaveInStep
<1>5. UnionEnd \/ IterationOk => InStep
  <2> DEFINE r == zcbor_process_backup(zs, {"CONSUME"})
  <2> SUFFICES ASSUME NEW call, Leave(call, r) PROVE InStep
    BY DEF UnionEnd, IterationOk, zcbor_union_end_code
  <2>1. r.ok /\ SameStop(zs, r.m)
    BY <1>1, <1>2, StateCommits, ProcessStop
  <2>2. OneLess(zs, r.m)
    BY <1>1, <2>1, Commits DEF Committed
  <2> QED BY <2>1, <2>2, LeaveInStep
<1>6. IterationFails => InStep
  <2> DEFINE flags == {"CONSUME", "RESTORE"}
             r == zcbor_process_backup(zs, flags)
  <2> SUFFICES ASSUME NEW call, Leave(call, r) PROVE InStep
    BY DEF IterationFails
  <2>1. r.ok /\ SameStop(zs, r.m)
    BY <1>1, <1>2, ProcessTopGood, ProcessStop DEF Top
  <2>2. OneLess(zs, r.m)
    BY <1>1, <2>1, RollsBack DEF RolledBack
  <2> QED BY <2>1, <2>2, LeaveInStep
<1> QED BY <1>3, <1>4, <1>5, <1>6

LEMMA InPlaceInStep ==
    ASSUME Together
    PROVE  Decode \/ AnySkip \/ UnionElem => InStep
<1>1. Good(zs)
  BY PairedTop
<1>2. Decode => InStep
  <2> SUFFICES ASSUME NEW h \in Headers,
                      zs' = type_check(zs, h, PINT).m \/ zs' = value_extract(zs, h, 8, FALSE).m,
                      calls' = calls
               PROVE  InStep
    BY DEF Decode, Return
  <2> QED BY <1>1, HeadersType, TypeCheckWorks, TypeCheckStop, ValueExtractWorks,
             ValueExtractStop, WorkedInStep
<1>3. UnionElem => InStep
  <2> DEFINE r == zcbor_union_elem_code(zs)
  <2> SUFFICES ASSUME zs' = r.m, calls' = calls PROVE InStep
    BY DEF UnionElem, Return
  <2>1. Retried(zs, r.m) \/ Worked(zs, r.m)
    BY <1>1, UnionElemRetries
  <2>2. SameStop(zs, r.m)
    BY <1>1, ProcessStop DEF zcbor_union_elem_code
  <2> HIDE DEF r
  <2>3. r.m.backup_list = zs.backup_list
    BY <2>1 DEF Retried, Worked, Kept, KeptBelow
  <2> QED BY <2>2, <2>3 DEF InStep
<1>4. AnySkip => InStep
  <2> SUFFICES ASSUME NEW taken \in SkipResults(zs.state),
                      zs' = any_skip(zs, taken).m, calls' = calls
               PROVE  InStep
    BY DEF AnySkip, Return
  <2> QED BY <1>1, SkipsType, AnySkipWorks, AnySkipStop, WorkedInStep
<1> QED BY <1>2, <1>3, <1>4

\* The rest never happens: there are no unordered maps to be in, and no strings.
LEMMA PairedSteps ==
    ASSUME KeepsPairs, PInv, Next, ~NewState
    PROVE  InStep
<1>1. ASSUME NEW call, In(call) PROVE call \in {"union", "multi", "list"}
  <2>1. Len(calls) \in 1 .. Len(calls)
    BY <1>1, EmptySeq DEF In, PInv, Together, OInv, IInv
  <2> QED BY <1>1, <2>1 DEF In, PInv, InsideOnly
<1>2. ~InUnorderedMap /\ search = << >>
  BY DEF InUnorderedMap, PInv, InsideOnly
<1>3. ~(MovePayload \/ UnorderedMapStart \/ UnorderedMapEnd \/ BstrEnd \/ SearchStart
          \/ SearchRestarts \/ SearchFinds \/ SearchSkips \/ ElemProcessed)
  BY <1>1, <1>2 DEF KeepsPairs, MovePayload, UnorderedMapStart, UnorderedMapEnd, BstrEnd, Leave,
     SearchStart, SearchRestarts, SearchFinds, SearchSkips, ElemProcessed
<1>4. MapStart => InStep
  <2> SUFFICES ASSUME NEW h \in Headers, Enter("list", zcbor_map_start_decode(zs, h))
               PROVE  InStep
    BY DEF MapStart
  <2>1. ~TooManyPairs(h)
    BY HeadersType, SizeAssumption DEF KeepsPairs, TooManyPairs, HeaderSet
  <2> QED BY <2>1, MapsInStep DEF PInv
<1>5. ListStart \/ BstrStart \/ UnionStart \/ IterationStart => InStep
  BY StartsInStep DEF PInv, KeepsPairs
<1>6. ListEnd \/ ListForceEnd \/ UnionEnd \/ IterationOk \/ IterationFails
        \/ Decode \/ AnySkip \/ UnionElem => InStep
  BY EndsInStep, InPlaceInStep DEF PInv
<1> QED BY <1>3, <1>4, <1>5, <1>6 DEF Next

LEMMA InitPaired == ASSUME KeepsPairs PROVE Init => PInv
<1> SUFFICES ASSUME Init PROVE PInv
  OBVIOUS
<1>1. PICK stop \in StopModes : zs.stop_on_error = stop
  BY DEF Init
<1>2. stop = FALSE
  BY DEF KeepsPairs
<1>3. calls = << >> /\ zs.backup_list = << >> /\ search = << >>
  BY DEF Init
<1>4. ~Orphaned /\ Unmoved(zs) /\ InsideOnly({"union", "multi", "list"})
  BY <1>3 DEF Orphaned, Unmoved, InsideOnly
<1> QED BY <1>1, <1>2, <1>3, <1>4, InitOrdered DEF PInv, Together

LEMMA NewStatePaired ==
    ASSUME KeepsPairs, PInv, NewState
    PROVE  ~Orphaned' /\ Unmoved(zs') /\ zs'.stop_on_error = FALSE
<1> DEFINE n == zcbor_new_state(zs, PayloadLen, RootElems)
<1>1. Good(zs) /\ IInv
  BY DEF PInv, Together, OInv, IInv
<1>2. n \in Machine
  BY <1>1, NewStateGood, GoodType
<1>3. PICK stop \in StopModes : zs' = [n EXCEPT !.stop_on_error = stop]
  BY DEF NewState
<1> HIDE DEF n
<1>4. zs'.stop_on_error = stop
  BY <1>2, <1>3 DEF Machine
<1>5. zs'.backup_list = << >> /\ calls' = << >>
  BY <1>1, NewStateFresh
<1>6. stop = FALSE
  BY DEF KeepsPairs
<1>7. ~Orphaned' /\ Unmoved(zs')
  BY <1>5 DEF Orphaned, Unmoved
<1> QED BY <1>4, <1>6, <1>7

LEMMA StepPaired == ASSUME KeepsPairs, PInv, [Next]_vars PROVE PInv'
<1>1. OInv'
  BY StepOrdered DEF PInv, Together
<1>2. CASE UNCHANGED vars
  BY <1>1, <1>2 DEF PInv, Together, vars, Orphaned, InsideOnly, Unmoved
<1>3. CASE Next
  <2>1. ~Orphaned' /\ Unmoved(zs') /\ zs'.stop_on_error = FALSE
    <3>1. Good(zs')
      BY <1>1 DEF OInv, IInv
    <3> QED BY <1>3, <3>1, PairedSteps, InStepPairs, NewStatePaired DEF PInv
  <2>2. InsideOnly({"union", "multi", "list"})'
    <3>1. ~UnorderedMapStart
      BY DEF UnorderedMapStart, KeepsPairs
    <3>2. IInv /\ NoStrings /\ InsideOnly({"union", "multi", "list"})
      BY DEF PInv, Together, OInv, KeepsPairs
    <3> QED BY <1>3, <3>1, <3>2, InsideStays
  <2>3. search' = << >>
    <3>1. ~InUnorderedMap /\ search = << >>
      BY DEF InUnorderedMap, PInv, InsideOnly
    <3>2. search' # << >>
            => SearchStart \/ SearchRestarts \/ SearchFinds \/ SearchSkips
      BY <1>3, SearchOnly DEF PInv, Together
    <3> QED BY <3>1, <3>2 DEF SearchStart, SearchRestarts, SearchFinds, SearchSkips
  <2> QED BY <1>1, <2>1, <2>2, <2>3 DEF PInv, Together
<1> QED BY <1>2, <1>3

\* Where a decoder reads what KeepsPairs allows, every call that fails has either
\* not taken its backup or has given it up again, so calls and backups stay
\* paired, whatever fails inside of whatever.
THEOREM PairsAreKept == KeepsPairs => (Spec => []NoOrphans)
<1> SUFFICES ASSUME KeepsPairs PROVE Spec => []NoOrphans
  OBVIOUS
<1>1. PInv => NoOrphans
  BY DEF PInv, Together, NoOrphans
<1> QED BY <1>1, InitPaired, StepPaired, PTL DEF Spec

\* In a decoder without CBOR in strings, and with its payload in one piece, only
\* maps leave a backup behind: an unordered one when it ends with an element
\* unprocessed, any when its start fails after it took its backup.
KeepsPlaces == NoStrings /\ ~MovesPayload

Placed == OInv /\ InsideOnly(Calls \ {"bstr"}) /\ (~Orphaned => Unmoved(zs))

LEMMA InitPlaced == Init => Placed
<1> SUFFICES ASSUME Init PROVE Placed
  OBVIOUS
<1>1. calls = << >> /\ zs.backup_list = << >>
  BY DEF Init
<1> QED BY <1>1, InitOrdered DEF Placed, InsideOnly, Unmoved

\* What is added to the backups has its place.
LEMMA StayingUnmoved ==
    ASSUME OInv, Good(zs'), Unmoved(zs), Staying, ~Orphaned'
    PROVE  Unmoved(zs')
<1>1. ~Orphaned /\ ~Stranding
  BY EffectPairs DEF Effect
<1>2. Len(zs.backup_list) \in Nat
  BY GoodType DEF OInv, IInv
<1>3. zs'.backup_list = zs.backup_list => Unmoved(zs')
  BY DEF Unmoved
<1>4. OneMore(zs, zs') /\ ~Top(zs').payload_moved => Unmoved(zs')
  <2> SUFFICES ASSUME OneMore(zs, zs'), ~Top(zs').payload_moved,
                      NEW i \in 1 .. Len(zs'.backup_list)
               PROVE  ~zs'.backup_list[i].payload_moved
    BY DEF Unmoved
  <2>1. CASE i \in 1 .. Len(zs.backup_list)
    BY <2>1 DEF OneMore, Unmoved
  <2>2. CASE i = Len(zs'.backup_list)
    BY <2>2 DEF Top
  <2> QED BY <1>2, <2>1, <2>2 DEF OneMore
<1>5. OneLess(zs, zs') => Unmoved(zs')
  BY <1>2 DEF OneLess, Unmoved
<1> QED BY <1>1, <1>3, <1>4, <1>5 DEF Staying, Working, ListKept, Marking, StateSaved, Opening,
           Opened, Retrying, Retried, RollingBack, RolledBack, Committing, Committed, Closing, Closed

LEMMA StepPlaced == ASSUME KeepsPlaces, Placed, [Next]_vars PROVE Placed'
<1>1. OInv' /\ Good(zs')
  BY StepOrdered DEF Placed, OInv, IInv
<1>2. CASE UNCHANGED vars
  BY <1>1, <1>2 DEF Placed, vars, Orphaned, InsideOnly, Unmoved
<1>3. CASE Next
  <2>1. InsideOnly(Calls \ {"bstr"})'
    <3> DEFINE K == Calls \ {"bstr"}
    <3>1. {"union", "multi", "list", "umap"} \subseteq K
      BY DEF Calls
    <3>2. IInv /\ NoStrings /\ InsideOnly(K)
      BY DEF Placed, OInv, KeepsPlaces
    <3> HIDE DEF K
    <3>3. InsideOnly(K)'
      BY <1>3, <3>1, <3>2, InsideStays
    <3> QED BY <3>3 DEF K
  <2>2. ASSUME ~Orphaned' PROVE Unmoved(zs')
    <3>1. ~MovePayload /\ OInv
      BY DEF KeepsPlaces, MovePayload, Placed
    <3>2. CASE Staying
      <4>1. ~Orphaned
        BY <1>1, <2>2, <3>1, <3>2, EffectPairs DEF Effect
      <4> QED BY <1>1, <2>2, <3>1, <3>2, <4>1, StayingUnmoved DEF Placed
    <3>3. CASE NewState
      <4>1. zs'.backup_list = << >>
        BY <3>1, <3>3, NewStateFresh DEF OInv
      <4> QED BY <4>1 DEF Unmoved
    <3> QED BY <1>3, <3>1, <3>2, <3>3, NextEffect
  <2> QED BY <1>1, <2>1, <2>2 DEF Placed
<1> QED BY <1>2, <1>3

\* The end of an unordered map that found all of it processed gives up its backup.
LEMMA UnorderedMapEndInStep ==
    ASSUME Together, UnorderedMapEnd
    PROVE  InStep \/ zs'.error = "ELEMS_NOT_PROCESSED"
<1>1. Good(zs) /\ zcbor_check_error(zs) /\ zs.stop_on_error = FALSE
  BY PairedTop DEF Together
<1>2. zs.backup_list # << >> /\ ~Top(zs).payload_moved
  BY PairedTop DEF UnorderedMapEnd, Leave, In
<1>3. PICK at_break \in BOOLEAN :
        LET c == EndChecks(zs, at_break)
            loops == c.ok /\ ~zcbor_array_at_end(zs.state, at_break)
        IN  \E rest \in IF loops THEN Rests(c.m) ELSE {Skipped(zs.state.payload)} :
              Leave("umap", zcbor_unordered_map_end_decode(zs, at_break, rest))
  BY DEF UnorderedMapEnd
<1> DEFINE c == EndChecks(zs, at_break)
<1>4. /\ Good(c.m) /\ c.m.state = zs.state
      /\ c.m.backup_list = zs.backup_list
  BY <1>1, EndChecksGood, EndChecksWorks DEF GoodResult, Worked, Kept, KeptBelow
<1>5. SameStop(zs, c.m) /\ (~c.ok => c.m.error = "ELEMS_NOT_PROCESSED")
  <2> DEFINE k == IF SmartSearch /\ zs.state.decode_state.map_elem_count > 0
                  THEN ClearUnused(zs) ELSE zs
             err == "ELEMS_NOT_PROCESSED"
  <2>1. SameStop(zs, k) /\ {"error", "stop_on_error"} \subseteq DOMAIN k
    BY <1>1, GoodType DEF Machine, SameStop, ClearUnused
  <2>2. c \in {Err(zs, err), Err(k, err), Success(k)}
    BY DEF EndChecks
  <2>3. {"error", "stop_on_error"} \subseteq DOMAIN zs /\ SameStop(zs, zs)
    BY <1>1, GoodType DEF Machine, SameStop
  <2> HIDE DEF k, c
  <2>4. ASSUME NEW x, SameStop(zs, x), {"error", "stop_on_error"} \subseteq DOMAIN x
        PROVE  SameStop(zs, zcbor_error(x, err)) /\ zcbor_error(x, err).error = err
    BY <1>1, <2>4 DEF SameStop, zcbor_error, zcbor_check_error
  <2>5. /\ SameStop(zs, zcbor_error(zs, err)) /\ zcbor_error(zs, err).error = err
        /\ SameStop(zs, zcbor_error(k, err)) /\ zcbor_error(k, err).error = err
    BY <2>1, <2>3, <2>4
  <2> QED BY <2>1, <2>2, <2>5 DEF Err, Failure, Success
<1>6. PICK rest \in Rests(c.m) \cup {Skipped(c.m.state.payload)} :
        Leave("umap", zcbor_unordered_map_end_decode(zs, at_break, rest))
  BY <1>3, <1>4
<1> HIDE DEF c
<1> DEFINE n == SkipToEnd(c.m, rest)
           l == list_map_end_decode(n, TRUE)
<1>7. zcbor_unordered_map_end_decode(zs, at_break, rest) = IF c.ok THEN l ELSE c
  BY DEF zcbor_unordered_map_end_decode, c
<1>8. CASE ~c.ok
  BY <1>5, <1>6, <1>7, <1>8 DEF Leave
<1>9. CASE c.ok
  <2>1. rest \in Skips
    BY <1>4, <1>6, RestsType
  <2>2. Good(n) /\ n.backup_list = zs.backup_list
    BY <1>4, <2>1, SkipToEndGood, SkipToEndWorks DEF Worked, Kept, KeptBelow
  <2>3. SameStop(zs, n)
    BY <1>4, <1>5, GoodType DEF SkipToEnd, SameStop, zcbor_error, Machine
  <2> HIDE DEF n
  <2>4. zcbor_check_error(n) /\ n.backup_list # << >> /\ ~Top(n).payload_moved
    BY <1>1, <1>2, <2>2, <2>3 DEF SameStop, zcbor_check_error, Top
  <2>5. SameStop(n, l.m) /\ OneLess(n, l.m)
    BY <2>2, <2>4, ListMapEndLeaves
  <2> HIDE DEF l
  <2>6. SameStop(zs, l.m) /\ OneLess(zs, l.m)
    BY <2>2, <2>3, <2>5 DEF SameStop, OneLess
  <2> QED BY <1>6, <1>7, <1>9, <2>6, LeaveInStep
<1> QED BY <1>8, <1>9

\* No other step of a decoder without CBOR in strings leaves a backup behind.
LEMMA OnlyMapsLeave ==
    ASSUME KeepsPlaces, Placed, Next, ~Orphaned, ~zs.stop_on_error, Orphaned'
    PROVE  \/ UnorderedMapEnd /\ zs'.error = "ELEMS_NOT_PROCESSED"
           \/ UnorderedMapStart /\ zs'.error = "MAP_FLAGS_NOT_AVAILABLE"
           \/ (MapStart \/ UnorderedMapStart) /\ zs'.error = "INT_SIZE"
<1>1. Together /\ OInv
  BY GoodType DEF Placed, OInv, IInv, Together, Machine
<1>2. OInv' /\ Good(zs')
  BY <1>1, StepOrdered DEF OInv, IInv
<1>3. ~InStep
  BY <1>1, <1>2, InStepPairs
<1>4. ~(ListStart \/ BstrStart \/ UnionStart \/ IterationStart)
  BY <1>1, <1>3, StartsInStep DEF KeepsPlaces
<1>5. ~(ListEnd \/ ListForceEnd \/ UnionEnd \/ IterationOk \/ IterationFails
          \/ Decode \/ AnySkip \/ UnionElem)
  BY <1>1, <1>3, EndsInStep, InPlaceInStep
<1>6. ~(SearchStart \/ SearchRestarts \/ SearchFinds \/ SearchSkips \/ ElemProcessed)
  <2>1. ~Working
    BY DEF Working, ListKept, Orphaned
  <2> QED BY <1>1, <2>1, SearchEffects DEF Searched
<1>7. ~NewState
  BY <1>1, NewStateFresh DEF OInv, Orphaned
<1>8. ~MovePayload
  BY DEF KeepsPlaces, MovePayload
<1>9. ~BstrEnd
  <2>1. ASSUME In("bstr") PROVE FALSE
    <3>1. calls \in Seq(Calls) /\ Len(calls) \in 1 .. Len(calls)
      BY <1>1, <2>1, EmptySeq DEF In, OInv, IInv
    <3> QED BY <2>1, <3>1 DEF In, Placed, InsideOnly
  <2> QED BY <2>1 DEF BstrEnd, Leave
<1>10. CASE MapStart
  BY <1>1, <1>3, <1>10, MapsInStep DEF MapStart
<1>11. CASE UnorderedMapStart
  BY <1>1, <1>3, <1>11, MapsInStep
<1>12. CASE UnorderedMapEnd
  BY <1>1, <1>3, <1>12, UnorderedMapEndInStep
<1> QED BY <1>4, <1>5, <1>6, <1>7, <1>8, <1>9, <1>10, <1>11, <1>12 DEF Next

\* Whatever fails, inside of whatever calls, in a decoder that KeepsPlaces
\* describes, has taken no backup or gives it up again, but for the three failures
\* of maps.
THEOREM OnlyMapsLeaveBackups == KeepsPlaces => (Spec => OnlyMapsStrand)
<1> SUFFICES ASSUME KeepsPlaces PROVE Spec => OnlyMapsStrand
  OBVIOUS
<1>1. Placed /\ [Next]_vars
        => [~Orphaned /\ ~zs.stop_on_error /\ Orphaned' =>
              \/ UnorderedMapEnd /\ zs'.error = "ELEMS_NOT_PROCESSED"
              \/ UnorderedMapStart /\ zs'.error = "MAP_FLAGS_NOT_AVAILABLE"
              \/ (MapStart \/ UnorderedMapStart) /\ zs'.error = "INT_SIZE"]_vars
  BY OnlyMapsLeave
<1> QED BY <1>1, InitPlaced, StepPlaced, PTL DEF Spec, OnlyMapsStrand

-----------------------------------------------------------------------------
(* Where unions and repetitions go back to.                                *)

\* The backup of each union and repetition stands for where that began, flags
\* included, as long as it has a place in the payload at all.
StartsKept ==
    ~Orphaned =>
        \A i \in 1 .. Len(calls) :
            calls[i] \in Marks =>
                \/ zs.backup_list[i].payload_moved
                \/ Snapshot(zs, zs.backup_list[i]) = starts[i]

\* Which calls are there after a step, and which of them is new.
LEMMA EffectCalls ==
    ASSUME OInv, Effect
    PROVE  /\ Len(calls') \in Nat
           /\ \A i \in 1 .. Len(calls') :
                 \/ i \in 1 .. Len(calls) /\ calls'[i] = calls[i]
                 \/ i = Len(calls) + 1 /\ (calls'[i] \in Marks => Marking)
<1>1. calls \in Seq(Calls) /\ Len(calls) \in Nat
  BY DEF OInv, IInv
<1>2. CASE calls' = calls
  BY <1>1, <1>2
<1>3. CASE calls # << >> /\ calls' = Returned
  <2>1. Len(calls) # 0
    BY <1>1, <1>3, EmptySeq
  <2>2. /\ Len(calls') = Len(calls) - 1
        /\ \A i \in 1 .. Len(calls) - 1 : calls'[i] = calls[i]
    BY <1>1, <1>3, <2>1, CallPopped DEF Returned
  <2> QED BY <1>1, <2>1, <2>2
<1>4. ASSUME NEW call, calls' = Append(calls, call)
      PROVE  /\ Len(calls') = Len(calls) + 1 /\ calls'[Len(calls) + 1] = call
             /\ \A i \in 1 .. Len(calls) : calls'[i] = calls[i]
  BY <1>1, <1>4
<1>5. CASE Marking
  <2>1. PICK call \in Marks : calls' = Append(calls, call)
    BY <1>5 DEF Marking
  <2> QED BY <1>1, <1>4, <1>5, <2>1
<1>6. CASE Opening
  <2>1. PICK call \in {"list", "umap", "bstr"} : calls' = Append(calls, call)
    BY <1>6 DEF Opening
  <2>2. call \notin Marks
    BY DEF Marks
  <2> QED BY <1>1, <1>4, <2>1, <2>2
<1>7. \/ Marking \/ Opening \/ calls' = calls
      \/ calls # << >> /\ calls' = Returned
  BY DEF Effect, Staying, Working, Retrying, RollingBack, Committing, Closing, Moving, Stranding
<1> QED BY <1>2, <1>3, <1>5, <1>6, <1>7

LEMMA StepKeepsStarts ==
    ASSUME OInv, StartsKept, [RecordedNext]_history
    PROVE  StartsKept'
<1>1. CASE UNCHANGED history
  BY <1>1 DEF history, StartsKept, Orphaned
<1>2. CASE RecordedNext
  <2>1. Next /\ RecordStart
    BY <1>2 DEF RecordedNext
  <2>2. Good(zs')
    <3>1. OInv'
      BY <2>1, StepOrdered
    <3> QED BY <3>1 DEF OInv, IInv
  <2>3. CASE NewState
    BY <2>3, NewStateFresh DEF StartsKept, OInv
  <2>4. CASE Effect
    <3> SUFFICES ASSUME ~Orphaned', NEW i \in 1 .. Len(calls'), calls'[i] \in Marks,
                        ~zs'.backup_list[i].payload_moved
                 PROVE  Snapshot(zs', zs'.backup_list[i]) = starts'[i]
      BY DEF StartsKept
    <3>1. /\ ~Orphaned /\ Good(zs) /\ calls \in Seq(Calls) /\ Ordered(zs, calls)
      BY <2>2, <2>4, EffectOrders DEF OInv, IInv
    <3>2. /\ Len(zs.backup_list) = Len(calls) /\ Len(zs'.backup_list) = Len(calls')
          /\ Len(calls) \in Nat /\ DOMAIN calls = 1 .. Len(calls)
      BY <3>1, OrderedType DEF Orphaned
    <3>3. starts'[i] = IF i \in 1 .. Len(calls) THEN starts[i] ELSE Snapshot(zs, zs.state)
      BY <2>1, <3>2 DEF RecordStart
    <3>4. CASE i \in 1 .. Len(calls) /\ calls'[i] = calls[i]
      <4> DEFINE b == zs.backup_list[i]
      <4>1. StaysSaved(i) /\ i \in 1 .. Len(zs.backup_list)
        <5>1. i \in 1 .. Len(zs.backup_list) /\ i <= Len(zs'.backup_list)
          BY <2>4, <3>2, <3>4, EffectCalls
        <5> QED BY <2>2, <2>4, <5>1, EffectSaves
      <4>2. zs'.backup_list[i] = b /\ Below(zs, zs', FlagEnd(b))
        BY <4>1 DEF StaysSaved
      <4>3. b \in Cursor /\ (SmartSearch => FlagEnd(b) <= FlagBytes)
        BY <3>1, <4>1, GoodType DEF Good, FlagsSound
      <4> HIDE DEF b
      <4>4. FlagsOf(zs', b) = FlagsOf(zs, b)
        BY <4>2, <4>3, FlagsStay
      <4>5. Snapshot(zs, b) = starts[i]
        BY <3>1, <3>4, <4>2 DEF StartsKept, b
      <4> QED BY <3>3, <3>4, <4>2, <4>4, <4>5 DEF Snapshot
    <3>5. CASE i = Len(calls) + 1 /\ Marking
      <4>1. StateSaved(zs, zs', SmartSearch)
        BY <3>5 DEF Marking
      <4>2. Top(zs') = zs'.backup_list[i]
        BY <3>2, <3>5, <4>1 DEF StateSaved, OneMore, Top
      <4>3. Snapshot(zs', Top(zs')) = Snapshot(zs, zs.state)
        BY <4>1 DEF StateSaved, Alike
      <4> QED BY <3>2, <3>3, <3>5, <4>2, <4>3
    <3> QED BY <2>4, <3>4, <3>5, EffectCalls
  <2> QED BY <2>1, <2>3, <2>4, NextEffect DEF Effect
<1> QED BY <1>1, <1>2

LEMMA InitKeepsStarts == RecordedInit => OInv /\ StartsKept
<1> SUFFICES ASSUME RecordedInit PROVE OInv /\ StartsKept
  OBVIOUS
<1>1. Init /\ calls = << >>
  BY DEF RecordedInit, Init
<1> QED BY <1>1, InitOrdered DEF StartsKept

LEMMA StepIsStep == [RecordedNext]_history => [Next]_vars
BY DEF RecordedNext, history, vars

\* A retry goes back to what the backup stands for.
LEMMA RetryGoesBack ==
    ASSUME OInv, StartsKept, ~Orphaned, UnionElem \/ IterationFails, ~failing'
    PROVE  BackAtStart
<1>1. Good(zs) /\ calls \in Seq(Calls) /\ Len(zs.backup_list) = Len(calls)
  BY DEF OInv, IInv, Orphaned
<1>2. calls # << >> /\ calls[Len(calls)] \in Marks
  BY DEF UnionElem, IterationFails, Leave, In, Marks
<1>3. Len(calls) \in 1 .. Len(calls) /\ Top(zs) = zs.backup_list[Len(calls)]
  BY <1>1, <1>2, EmptySeq DEF Top
<1>4. ~Top(zs).payload_moved /\ Snapshot(zs', zs'.state) = Snapshot(zs, Top(zs))
  <2>1. CASE UnionElem
    <3> DEFINE r == zcbor_union_elem_code(zs)
    <3>1. zs' = r.m /\ r.ok
      BY <2>1 DEF UnionElem, Return
    <3>2. Retried(zs, r.m)
      BY <1>1, <3>1, UnionElemRetries
    <3> HIDE DEF r
    <3> QED BY <3>1, <3>2 DEF Retried, Alike
  <2>2. CASE IterationFails
    <3> DEFINE r == zcbor_process_backup(zs, {"CONSUME", "RESTORE"})
    <3>1. zs' = r.m /\ r.ok
      BY <2>2 DEF IterationFails, Leave
    <3>2. RolledBack(zs, r.m)
      BY <1>1, <3>1, RollsBack
    <3> HIDE DEF r
    <3> QED BY <3>1, <3>2 DEF RolledBack, Snapshot, FlagsOf, FlagLeft, FlagByteOf
  <2> QED BY <2>1, <2>2
<1>5. Snapshot(zs, Top(zs)) = starts[Len(calls)]
  BY <1>2, <1>3, <1>4 DEF StartsKept
<1> QED BY <1>4, <1>5 DEF BackAtStart

\* Every alternative of a union that is tried after another, and every decoder
\* whose last repetition is undone, has the cursor, the count of elements and the
\* flags of the map around it as they were when the union or repetition began, in
\* any decoder, as long as no call has left its backup behind.
THEOREM RetriesGoBack == RecordedSpec => RetriesStartAlike
<1>1. OInv /\ StartsKept /\ [RecordedNext]_history => (OInv /\ StartsKept)'
  BY StepKeepsStarts, StepIsStep, StepOrdered
<1>2. OInv /\ StartsKept /\ [RecordedNext]_history
        => [~Orphaned /\ (UnionElem \/ IterationFails) /\ ~failing' => BackAtStart]_history
  BY RetryGoesBack
<1> QED BY InitKeepsStarts, <1>1, <1>2, PTL DEF RecordedSpec, RetriesStartAlike

\* Where a decoder reads what KeepsPairs allows, nothing is ever left behind, so
\* every alternative of every union starts as the union did.
THEOREM UnionsRetryFromStart == KeepsPairs => (RecordedSpec => AlternativesStartAlike)
<1> SUFFICES ASSUME KeepsPairs PROVE RecordedSpec => AlternativesStartAlike
  OBVIOUS
<1>1. PInv /\ StartsKept /\ [RecordedNext]_history => (PInv /\ StartsKept)'
  BY StepKeepsStarts, StepIsStep, StepPaired DEF PInv, Together
<1>2. PInv /\ StartsKept /\ [RecordedNext]_history
        => [UnionElem /\ ~failing' => BackAtStart]_history
  BY RetryGoesBack DEF PInv, Together
<1>3. RecordedInit => PInv /\ StartsKept
  BY InitKeepsStarts, InitPaired DEF RecordedInit
<1> QED BY <1>1, <1>2, <1>3, PTL DEF RecordedSpec, AlternativesStartAlike

=============================================================================
