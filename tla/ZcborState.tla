----------------------------- MODULE ZcborState -----------------------------
(***************************************************************************)
(* The state every zcbor call works on, and the operations of              *)
(* zcbor_common.c on it: the error register, the list of backups and the   *)
(* map-search flags that all backups share one buffer for.                 *)
(*                                                                         *)
(* A machine m is a record with the fields                                 *)
(*   state        the zcbor_state_t the caller holds                       *)
(*   backup_list  the backups in use, 1 .. current_backup                  *)
(*   mem          the flag buffer, one set of bits per byte                *)
(*   error        constant_state->error                                    *)
(*   stop_on_error  constant_state->stop_on_error                          *)
(* An operation maps a machine to [ok, m]: its return value and the        *)
(* machine it leaves, also when it fails.  A cursor (state or backup) may   *)
(* have more fields than the ones used here; they are saved and restored   *)
(* with the rest.                                                          *)
(*                                                                         *)
(* A definition Bug... is the one after it with a plausible mistake in it:  *)
(* the property it breaks is named in PROJECT.json.  No model uses it.      *)
(***************************************************************************)
EXTENDS Integers, Sequences

CONSTANTS
    SIZE_MAX,       \* the largest size_t
    NumBackups,     \* constant_state->num_backups
    FlagBytes,      \* bytes from the flag buffer's start to map_search_elem_state_end
    BitsPerByte,    \* 8 in the code
    HasFlags,       \* FALSE: the state was created with flags == NULL
    SmartSearch     \* ZCBOR_MAP_SMART_SEARCH

ASSUME SizeAssumption == SIZE_MAX \in Nat /\ SIZE_MAX > 16
ASSUME BackupAssumption == NumBackups \in Nat
ASSUME FlagAssumption == /\ FlagBytes \in Nat
                         /\ BitsPerByte \in Nat \ {0}
                         /\ HasFlags \in BOOLEAN
                         /\ ~HasFlags => FlagBytes = 0
ASSUME ModeAssumption == SmartSearch \in BOOLEAN

ZCBOR_MAX_ELEM_COUNT   == SIZE_MAX
ZCBOR_LARGE_ELEM_COUNT == SIZE_MAX - 15

Address == 0 .. FlagBytes - 1
Bit     == 0 .. BitsPerByte - 1
Byte    == SUBSET Bit

-----------------------------------------------------------------------------
(* Results and the error register.                                         *)

Success(m) == [ok |-> TRUE,  m |-> m]
Failure(m) == [ok |-> FALSE, m |-> m]

\* With stop_on_error the first error stays; without it the last one does.
BugKeepsGoing(m) == TRUE
zcbor_check_error(m) == ~(m.stop_on_error /\ m.error # "SUCCESS")

zcbor_error(m, err) ==
    IF zcbor_check_error(m) THEN [m EXCEPT !.error = err] ELSE m

Err(m, err) == Failure(zcbor_error(m, err))

-----------------------------------------------------------------------------
(* The map-search flags.                                                   *)

FlagsToBytes(n) == (n + BitsPerByte - 1) \div BitsPerByte

\* Bytes of the flag buffer the cursor c uses, and the address after them.
FlagLen(c) == FlagsToBytes(c.decode_state.map_elem_count)
FlagEnd(c) == c.decode_state.map_search_elem_state + FlagLen(c)

\* memmove(to, from, len): every byte is read before any is written.
Memmove(mem, to, from, len) ==
    [a \in DOMAIN mem |-> IF a \in to .. to + len - 1 THEN mem[a - to + from]
                                                      ELSE mem[a]]

\* There is room for the flags of c and a copy of them.
BugRoomForOne(c) == HasFlags /\ FlagEnd(c) <= FlagBytes
RoomForCopy(c)   == HasFlags /\ FlagEnd(c) + FlagLen(c) <= FlagBytes

\* Copy the active flags to just behind themselves; the copy becomes active.
do_elem_state_backup(m, dry_run) ==
    LET flags == m.state.decode_state.map_search_elem_state
        len   == FlagLen(m.state)
    IN  IF ~RoomForCopy(m.state) THEN Err(m, "MAP_FLAGS_NOT_AVAILABLE")
        ELSE IF dry_run THEN Success(m)
        ELSE Success([m EXCEPT
               !.mem = Memmove(m.mem, flags + len, flags, len),
               !.state.decode_state.map_search_elem_state = flags + len])

BugDiscardOnlyMovesBack(m, backup) ==
    [m EXCEPT !.state.decode_state.map_search_elem_state
                  = backup.decode_state.map_search_elem_state]

\* Move the active flags down over the ones saved for the backup.
discard_elem_state_backup(m, backup) ==
    LET flags  == m.state.decode_state.map_search_elem_state
        target == backup.decode_state.map_search_elem_state
    IN  [m EXCEPT
           !.mem = Memmove(m.mem, target, flags, FlagLen(m.state)),
           !.state.decode_state.map_search_elem_state = target]

-----------------------------------------------------------------------------
(* The backup list.                                                        *)

\* The state goes on top of the list and goes on with new_elem_count.
BugSavedBehindFlags(m, new_elem_count, with_flags) ==
    LET saved == [m.state EXCEPT
            !.payload_moved = FALSE,
            !.decode_state.elem_state_backed_up = with_flags,
            !.decode_state.map_search_elem_state = IF with_flags THEN FlagEnd(m.state) ELSE @]
    IN  [m EXCEPT !.backup_list = Append(@, saved),
                  !.state.elem_count = new_elem_count]

Pushed(m, new_elem_count, with_flags) ==
    LET saved == [m.state EXCEPT !.payload_moved = FALSE,
                                 !.decode_state.elem_state_backed_up = with_flags]
    IN  [m EXCEPT !.backup_list = Append(@, saved),
                  !.state = [saved EXCEPT !.elem_count = new_elem_count]]

BugNoDryRun(m, new_elem_count, backup_elem_state) ==
    LET with_flags == SmartSearch /\ backup_elem_state
        pushed     == Pushed(m, new_elem_count, with_flags)
    IN  IF ~zcbor_check_error(m) THEN Failure(m)
        ELSE IF Len(m.backup_list) >= NumBackups THEN Err(m, "NO_BACKUP_MEM")
        ELSE IF with_flags THEN do_elem_state_backup(pushed, FALSE)
        ELSE Success(pushed)

zcbor_new_backup_w_elem_state(m, new_elem_count, backup_elem_state) ==
    LET with_flags == SmartSearch /\ backup_elem_state
        dry        == do_elem_state_backup(m, TRUE)
        pushed     == Pushed(m, new_elem_count, with_flags)
    IN  IF ~zcbor_check_error(m) THEN Failure(m)
        ELSE IF Len(m.backup_list) >= NumBackups THEN Err(m, "NO_BACKUP_MEM")
        ELSE IF with_flags /\ ~dry.ok THEN dry
        ELSE IF with_flags THEN do_elem_state_backup(pushed, FALSE)
        ELSE Success(pushed)

zcbor_new_backup(m, new_elem_count) ==
    zcbor_new_backup_w_elem_state(m, new_elem_count, FALSE)

\* The RESTORE part: the backup overwrites the state; if the backup stays in
\* use its flags are copied again, so that the option that follows works on
\* a copy.
BugNoFreshCopy(m, backup, consume) == Success([m EXCEPT !.state = backup])

RestoreFrom(m, backup, consume) ==
    LET restored == [m EXCEPT !.state = backup]
    IN  IF SmartSearch /\ ~consume /\ backup.decode_state.elem_state_backed_up
        THEN do_elem_state_backup(restored, FALSE)
        ELSE Success(restored)

\* The CONSUME part: the top backup goes; if it was not restored its flags
\* are replaced by the active ones.
ConsumeTop(m, backup, restore) ==
    LET kept == IF SmartSearch /\ ~restore /\ backup.decode_state.elem_state_backed_up
                THEN discard_elem_state_backup(m, backup) ELSE m
    IN  [kept EXCEPT !.backup_list = SubSeq(@, 1, Len(@) - 1)]

\* max_elem_count is always ZCBOR_MAX_ELEM_COUNT in the library (any other
\* value is deprecated), so the HIGH_ELEM_COUNT test cannot succeed here.
zcbor_process_backup_num(m, flags, backup_num) ==
    LET restore == "RESTORE" \in flags
        consume == "CONSUME" \in flags
        backup  == m.backup_list[backup_num]
        r == IF restore THEN RestoreFrom(m, backup, consume) ELSE Success(m)
        c == IF consume THEN ConsumeTop(r.m, backup, restore) ELSE r.m
        p == IF "KEEP_PAYLOAD" \in flags
             THEN [c EXCEPT !.state.payload = m.state.payload] ELSE c
    IN  IF ~zcbor_check_error(m) THEN Failure(m)
        ELSE IF \/ backup_num = 0
                \/ backup_num > Len(m.backup_list)
                \/ consume /\ ("KEEP_DECODE_STATE" \in flags
                               \/ backup_num # Len(m.backup_list))
        THEN Err(m, "BAD_ARG")
        ELSE IF restore /\ "KEEP_PAYLOAD" \notin flags /\ backup.payload_moved
        THEN Err(m, "PAYLOAD_OUTDATED")
        ELSE IF ~r.ok THEN Failure(r.m)
        ELSE Success(IF "KEEP_DECODE_STATE" \in flags
                     THEN [p EXCEPT !.state.decode_state = m.state.decode_state]
                     ELSE p)

zcbor_process_backup(m, flags) ==
    IF m.backup_list = << >> THEN Err(m, "NO_BACKUP_ACTIVE")
    ELSE zcbor_process_backup_num(m, flags, Len(m.backup_list))

-----------------------------------------------------------------------------
(* Starting a decode, and going on with another piece of payload.          *)

\* What zcbor_new_state does not assign (payload_bak, the counting flag, the
\* flag bytes, one of the two counts of a map, ...) keeps what the caller's
\* memory happened to hold.
NewDecodeState(d) ==
    IF SmartSearch
    THEN [d EXCEPT !.indefinite_length_array = FALSE,
                   !.map_search_elem_state = 0, !.map_elem_count = 0]
    ELSE [d EXCEPT !.indefinite_length_array = FALSE, !.map_elems_processed = 0]

zcbor_new_state(m, payload_len, elem_count) ==
    LET state == [m.state EXCEPT
            !.payload = 0, !.payload_end = payload_len, !.elem_count = elem_count,
            !.payload_moved = FALSE, !.inside_cbor_bstr = FALSE,
            !.decode_state = NewDecodeState(@)]
    IN  [m EXCEPT !.backup_list = << >>, !.error = "SUCCESS",
                  !.stop_on_error = FALSE, !.state = state]

\* zcbor_update_state without ZCBOR_FRAGMENTS.  Addresses are relative to the
\* section in use, so the new section starts at 0.
InSection(s, payload_len) == [s EXCEPT !.payload = 0, !.payload_end = payload_len]

BugBackupsStayCurrent(m, payload_len) ==
    [m EXCEPT !.state = InSection(@, payload_len),
              !.backup_list = [i \in DOMAIN @ |-> InSection(@[i], payload_len)]]

zcbor_update_state(m, payload_len) ==
    [m EXCEPT !.state = InSection(@, payload_len),
              !.backup_list = [i \in DOMAIN @ |->
                  [InSection(@[i], payload_len) EXCEPT !.payload_moved = TRUE]]]

-----------------------------------------------------------------------------
(* Unions: try alternatives from one rollback point.                       *)

zcbor_union_start_code(m) ==
    zcbor_new_backup_w_elem_state(m, m.state.elem_count, TRUE)

BugPayloadStays(m) == zcbor_process_backup(m, {"RESTORE", "KEEP_PAYLOAD"})
zcbor_union_elem_code(m) == zcbor_process_backup(m, {"RESTORE"})

zcbor_union_end_code(m) == zcbor_process_backup(m, {"CONSUME"})

=============================================================================
