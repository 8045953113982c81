# A verification development of zcbor

zcbor decodes and encodes CBOR on small targets (`src/src/*.c`, `src/include/*.h`) and
generates C code for a schema written in CDDL (`src/zcbor/zcbor.py`).  This directory holds
TLA+ modules translated from that code, the TLC runs that check them on small instances,
and theorems about them that TLAPS proves for every value of the constants.

Paths below are relative to the repository.  `PROJECT.json` lists the components, the runs,
the line range each definition stands for, and the hazards the properties are about.

## The system

| Component | State it keeps | Operations | What makes it hard |
|---|---|---|---|
| State, backups and rollback points (`zcbor_common.c`) | `zcbor_state_t` with its cursor; an array of backups of it; `current_backup`; one error register; one buffer of map-search flags, shared by the state and all backups | new state, take / restore / consume a backup, copy and discard flags, union start / element / end, payload update | a backup and the flags it owns are two resources that must be taken and given up together; overlapping moves in one buffer; a call that fails half way |
| Decoder (`zcbor_decode.c`) | the cursor: payload, end of the section, element count, what the current list or map is | read a header and a value, start and end lists, maps and CBOR byte strings | each start takes a backup that its end must give up, on the failure path too; sizes come from the payload |
| Unordered map search (`zcbor_decode.c`) | a flag per pair of the map (or a count of processed pairs), whether the pairs are still being counted | search a key from wherever the cursor is, mark an element processed, end the map | the flags grow while the map is counted; a search wraps around through a backup; a failure must undo the search |
| CDDL parser (`CddlParser` in `zcbor.py`) | a tree of elements, each with type, bounds, sizes, quantifier, key, tags, operators not applied yet; the types by name | read one token, apply the operators, flatten groups and unions of one member, look up defaults, validate | four attributes written by a dozen methods; operators applied in the order of a set; types that refer to types not flattened yet |
| Data translator and validator (`DataTranslator`) | the iterators over the items of a list or map | match an item with a description: tags, keys, repetitions, alternatives, CBOR in strings | copies of iterators, exceptions as control flow |
| Code generator (`CddlXcoder`, `CodeGenerator`) | none of its own; the tree | the C code that decodes each type; how many backups and flags it needs; whether it needs smart search | the code must undo what failed alternatives and repetitions did; the numbers must cover whatever it does at run time |
| String fragments (`zcbor_common.c`, `zcbor_decode.c`) | offset and total length of a string that spans payload sections; nested CBOR strings | start, next, end, update the state | bookkeeping across sections, at two levels of nesting |
| Encoder (`zcbor_encode.c`) | the cursor, the number of elements in the open container; backups of them | encode headers and values, start and end lists, maps and strings, patching lengths | the header written at the end may be longer or shorter than the one reserved, so the contents move; ends that fail; payload that goes on elsewhere |
| Numbers (`zcbor_common.c`, both coders) | none | integers at each width, half floats | overflow, sign, rounding |
| Renderer, command line, scripts, printing | files, logs | render, read, write | none |

At run time the components meet in the state: generated code (or a hand-written decoder) calls
the functions of the decoder in nested pairs, each function changes the cursor and the backup
list, and a union or a repetition around them undoes what failed calls did by restoring a
backup.  At build time they meet in the tree: the parser builds it, and both the validator and
the code generator walk it, each with its own idea of what it means.  There is one thread.
What is hard is the *protocol*: long sequences of legal calls, failing anywhere, over two
shared resources of fixed size; and that three programs (the validator, the generated decoder,
the reckoning of what it needs) agree on one description.

What makes each component correct:

* backups: restoring a rollback point brings back exactly the state it was taken in, the
  flags included; no cursor's flags reach outside the buffer or into those of a backup below
  it; a rollback point is taken as a whole or not at all; what a union has room for at its
  start it has room for at every alternative; calls and backups stay paired;
* decoder: sections stay in the ones around them; nothing is read behind the end of a section,
  even if skipping has left the cursor there; counts never wrap; a failed read leaves the cursor
  at the start of what it tried to read;
* map search: a key that is there is found, once; a search that fails leaves the cursor
  where it was; the loop ends;
* parser: an element accepts the integers its text asks for, in whatever order its operators
  are applied; flattening does not change what a type means;
* validator and generated decoder: they accept only what is meant, and the same;
* code generator: the backups and flags it asks for are enough, and code that it lets be built
  without smart search does the same without it;
* fragments: the pieces of a string make up the string, whatever the sections are;
* encoder: the header at the start of a container tells what the container holds; nothing is
  written past the end of the payload;
* numbers: decoding undoes encoding, and a value that does not fit is refused.

## The modules

```
ZcborState  <-EXTENDS-  ZcborDecode  <-EXTENDS-  ZcborBackup  <-EXTENDS-  MCZcborBackup
                    ^                     |            ^  ^                     ^
                    |                     |            |  '-EXTENDS-  ZcborUnions  <-EXTENDS-  MCZcborUnions
                    |                     |            '-EXTENDS-  ZcborBackupProofs
                    |                     '-INSTANCE->  BackupStack         ^
                    |                                                       '-EXTENDS-  ZcborBackupSteps
                    |                                                                          ^
                    |             ZcborBackupRefines, ZcborBackupSchemas  -EXTENDS->  ZcborBackupOrder
                    |
                    |-EXTENDS-  ZcborEncode  <-EXTENDS-  MCZcborEncode, ZcborEncodeProofs
                    |                                                           ^
                    |                                  ZcborEncodeFrames  -EXTENDS-'
                    |
                    '-EXTENDS-  ZcborPayload  <-EXTENDS-  ZcborMap  <-EXTENDS-  MCZcborMap
                                     ^
                                     '-INSTANCE-  CddlCode  -EXTENDS->  CddlXcoder  -EXTENDS->  CddlTree

CddlTypes  <-EXTENDS-  CddlElement  <-EXTENDS-  MCCddlElement
    ^
    '-EXTENDS-  CddlTree  <-EXTENDS-  CddlValidate, CddlXcoder, CddlMeaning
                                                                     ^
CborItem  <-EXTENDS-  CddlValidate, CddlCode, CddlMeaning            |
                                                              CddlPipeline  <-EXTENDS-  MCCddlPipeline
                                                                     |
                                                                     '-INSTANCE->  CddlValidate, CddlXcoder, CddlCode
```

### The library

**ZcborState** is `zcbor_common.c`: operators from a machine to `[ok, m]`, the return value
of the C function and the machine it leaves.  A machine is a record of the caller's
`zcbor_state_t` (`state`), the backup array up to `current_backup` (`backup_list`), the flag
buffer (`mem`, a set of bits per byte) and `constant_state->error`.  `BitsPerByte` is a
constant (8 in the code) so that a few bytes of a few flags are an interesting buffer.
`do_elem_state_backup`, `zcbor_new_backup_w_elem_state`, `zcbor_process_backup_num` and
`discard_elem_state_backup` are the C functions branch by branch, in the order in which they
check, take and undo.

**ZcborDecode** is the part of `zcbor_decode.c` that moves the cursor, the backup list or the
flags: header checks, `value_extract`, starts and ends of lists, maps, unordered maps and CBOR
byte strings, the flag functions.  A function that reads payload takes what it reads as a
parameter (a header, or whether the next byte is a break), so that the same operators serve
any payload.  `size_t` arithmetic is modulo `SIZE_MAX + 1` where it can wrap (`SizeT`).

**ZcborBackup** is a decoder at work.  `zs` is the machine; `calls` is the C call stack of the
decoder: the unions, repetitions, lists, maps and strings it is inside of, in the order the
generated code nests them (`xcode_union`, `xcode_list`, `xcode_bstr`, `repeated_xcode` of
`zcbor.py`, the loops of `multi_decode_backup` and `zcbor_unordered_map_search`); `failing`
says that a call has returned false and nothing has caught it, in which case the decoder only
goes back through the enclosing calls, closing each as the generated code does, until a union
or a repetition catches the failure; `search` is the running loop of a map search.  One action
is one call (of the search: one turn of its loop).  The payload is not fixed: every read
chooses what it finds, so the runs cover every payload of the given length over the given
headers, and every schema that calls these functions in nested pairs.  What is skipped
(`AnySkip`, `SearchSkips`, the rest of a map in `UnorderedMapEnd`) ends wherever some payload lets
`zcbor_any_skip` end (`SkipResults`): it compares the length of a string with what the payload had
left *before* the header, so the cursor may come to lie behind `payload_end`.

**ZcborUnions** adds a history to it: `starts` records, for each call the decoder is in, the cursor,
the element count and the flags as they were before the call was entered.  It never looks at a
backup, so that `AlternativesStartAlike` and `RetriesStartAlike` compare what is restored with
what was there.

**BackupStack** is the abstract specification: a stack of snapshots, each with flags *of its
own*, and what marking, retrying, rolling back, committing, opening and closing do to it.  It
knows no buffer and no address.  `ZcborBackup!PromiseKept` states that the shared buffer
implements it under the refinement mapping `Snapshot`.

**ZcborPayload** adds the functions that need the bytes themselves: what header is at an
address, whether a break is there, a key decoder (`zcbor_uint32_pexpect`), and
`zcbor_any_skip` with its recursion into lists and maps, as a recursive function on the bytes.

**ZcborMap** is a decoder of a map whose contents are known.  `document` describes the map,
`bytes` is its encoding, perhaps cut short; the decoder enters the map, asks for keys in any
order, reads, skips or leaves the values, enters the maps among them, opens unions anywhere,
lets them fail and rolls them back.  `call` is the library call whose loop is running: the
loops of `zcbor_unordered_map_search` and `zcbor_unordered_map_end_decode` are stepped turn
by turn, with what the C function holds in its local variables.  `seen` is a ghost: the pairs
processed so far, told from the description and the cursor, never from flags or counts, and
put back where the code rolls back.  The properties compare what the library says with it.

**ZcborEncode** is the encoder.  A byte of the payload is a cell that tells which byte of which
header, or of which string, it is, so that headers have lengths but no bits.  One action is one
call of the library (`PutUint`, `PutTag`, `PutString`, `StartList`, `EndList`, `StartBstr`,
`EndBstr`, `GiveUp`) or a new payload section (`NextSection`, `zcbor_update_state`); each writes
into the payload what the C function writes and moves what it moves.  `canonical` is chosen at the
start, as `ZCBOR_CANONICAL` is when the library is built: without it lists are indefinite and
take no backup.  `asked` and `sent` are ghosts: what the caller has put into each open container,
told from the calls that succeeded and never from the payload, and the sections that are full.

**ZcborBackupProofs**, **ZcborBackupSteps**, **ZcborBackupOrder**, **ZcborBackupRefines**,
**ZcborBackupSchemas**, **ZcborEncodeProofs**, **ZcborEncodeFrames** and **CddlElementProofs** hold
the theorems and their lemmas; **MCZcborBackup**, **MCZcborUnions**, **MCZcborMap** and **MCZcborEncode** (**MCCddlElement** and
**MCCddlPipeline** below) the values of the constants.

### The schema compiler

**CddlTypes** is what `zcbor.py` keeps of one element: a record with the attributes of a
`CddlParser`.  Python's `None` is the empty sequence; the attribute `value`, which is a literal,
a list of children or a name depending on the type, is three fields.

**CddlElement** is one element while it is built.  `self` is the element, one action is one
token of its text (`SetQuantifier`, `TypeName`, `SetNumRange`, `AddControlOp`, ...), each the
whole handler with the methods that it calls (`type_and_range`, `set_size_range`,
`set_min_size`, ...).  `EndOfText` and `ProcessModifier` are `process_modifiers()`: `todo` is the
set that Python iterates over, and any member may be next.  A byte has `Byte` values, so that
the sizes of integers are interesting on small numbers.

**CddlTree** is what the parser does with whole trees: `flatten`, `merge_modifiers`,
`unpack_value`, the default of a union, `post_validate`.

**CborItem** is CBOR data as `cbor2` hands them to Python, and their bytes.

**CddlMeaning** says what an element means by the rules of CDDL (RFC 8610) and by no code: the
set of places where a match of it may end.  It is the yardstick of the rest.

**CddlValidate** is `zcbor.py validate`: `decode_obj`, `_decode_full`, `_decode_obj`,
`_decode_single_obj`, `_handle_key`, `_add_if`.  An iterator is the sequence of what is left; a
result says whether the call returned, raised the `CddlValidationError` that alternatives and
repetitions catch, or raised something that nobody catches.

**CddlXcoder** is how the code generator looks at an element: the conditions under which it gets
variables, a type and a function of its own, `num_backups`, `num_map_search_flags`,
`elem_needs_map_smart_search`.

**CddlCode** is the generated decoder.  An operator with the name of a method of
`CodeGenerator` (`xcode_list`, `xcode_union`, `repeated_xcode`, ...) is what the C code that this
method returns does to a machine of **ZcborState**: its calls to the library are the operators
of `ZcborDecode` and `ZcborPayload`, short-circuited as `&&` and `||` are, and `multi_decode`
and the map search are the loops of `zcbor_decode.c` on the bytes.  The machine keeps the
high-water marks of backups and flags.

**CddlPipeline** composes them: a description is parsed type by type in the order of the file
(`parse_type`, with `flatten`), post-processed (`post_process`), and then any item may come
(`Judge`): the validator looks at it, the generated decoder decodes its bytes, with smart
search and without.  The state is `my_types`, as in Python, and the verdict.

Every `Bug...` operator is the definition that follows it with one plausible mistake; nothing
uses it.  `PROJECT.json` names, for each property of each run, the mistake that breaks it.

## The runs

Deadlock checking is on in the runs of the decoder (it can always go on or start afresh) and off
in those of the schema compiler, which ends, and of the encoder, whose payload may be full.

| Run | What it asks |
|---|---|
| `backup_flags` | Smart search, nested unordered and ordered maps, lists, unions, repetitions, 2 backups and 2 flag bytes of 2 flags: do the flags stay in the buffer (`FlagsInBounds`) and out of each other (`FlagsApart`), does everything saved stay as it was (`SavedStaysSaved`), can a union always go on (`RetryIsPossible`), is a rollback point all or nothing (`MarkIsAtomic`), is it all an implementation of `BackupStack` (`PromiseKept`)?  And with `stop_on_error`, which the decoder may set or not, does nothing move after the first error (`FirstErrorStops`)?  Does a cursor that skipping left behind the end of its section stay where it is, or go back to where one has been (`NothingReadBehind`)?  (`zcbor_elem_processed` itself makes no check; this decoder marks only what it has read.)  Do every alternative, and what follows a repetition that failed, have the cursor, the element count and the flags that were recorded when the union or repetition began (`RetriesStartAlike`)?  And what can leave a backup behind when it fails: only the end of a map with an unprocessed element and the start of one whose flags or count find no room (`OnlyMapsStrand`)? |
| `backup_moving` | Without smart search: CBOR in byte strings, in maps, of known order or not, whose elements the decoder marks and the library counts, with `zcbor_update_state` between any two reads: a section ends within the one around it (`SectionsNest`), the count of processed elements never passes the count of elements (`ProcessedWithinCount`), and no backup from before the update is ever restored with its payload (`PromiseKept`). |
| `map_search` | Smart search on maps of up to three pairs (values that are an array, a tagged value, a string, an unordered map that the decoder enters or skips; one key twice; the empty map), with sizes and with breaks, unions opened and rolled back anywhere: do `payload` and `elem_count` always tell of the same element (`CursorAligned`), do the flags in use and the saved ones tell what was processed (`FlagsTellProcessed`), is what is found right (`FoundIsRight`) and what is not found not there or processed already (`NotFoundIsGone`), and does the map end if and only if every pair was processed (`EndMeansAll`, `EndRefusesPart`)? |
| `map_counting` | Without `ZCBOR_MAP_SMART_SEARCH`, elements marked by the decoder (`manually_process_elem`), no key asked for again, as generated code does; payloads that are complete or miss bytes at the end: a count is enough there, a search fails in place (`FailsInPlace`) and ends (`SearchEnds`), the end of a complete map returns (`MapEndReturns`); what is not found is gone and what ends was processed (`NotFoundIsGone`, `EndMeansAll`). |
| `encode` | Numbers, tags, strings, lists, maps and CBOR byte strings in any order and nesting, with `ZCBOR_CANONICAL` and without, with size hints that are right, too small and too large, payload that runs out anywhere and payload that goes on in another section: is what was written what was asked for, with the shortest headers and nothing of what failed (`WrittenIsAsked`), can a container be ended whenever what it will be fits (`EndsIfItFits`), is nothing written behind the payload (`StaysInPayload`)? |
| `cddl_element` | Every element of up to three tokens over nine numbers and nine ranges, operators applied in every order: does it accept exactly the integers its text asks for (`MeansWhatIsAsked`), does the order not matter (`ModifiersCommute`), does an inequality never widen (`OnlyTightens`)? |
| `cddl_pipeline` | About 1250 descriptions (lists of two elements and maps of two members, with repetitions, options, unions, groups, tags, CBOR in strings, references to a second type), parsed in both orders, each against all data of its shape: does flattening keep the meaning (`FlattenKeepsMeaning`), do validator and decoder accept only what is meant (`ValidatorSound`, `DecoderSound`), and, with unordered maps, all that is meant in any order (`DecoderComplete`), do they agree (`DecoderAgrees`), are the backups and flags asked for enough (`BackupsSuffice`, `FlagsSuffice`), and does code that is allowed to do without smart search decode the same without (`CountingIsEnough`)? |

Five runs end in a violation, each a disagreement between the code and what the repository
says of it (`findings` in `PROJECT.json`):

* `union_after_map`: an unordered map with an unprocessed element as the first alternative of a
  union.  `zcbor_unordered_map_end_decode` fails *before* it consumes the map's backup
  (`list_map_end_decode` fails after), so the union restores the map's backup and the second
  alternative starts inside the map.
* `union_without_flags`: a build with smart search and a decoder without unordered maps, for which
  the generator writes `zcbor_entry_function`, with no flag memory.  `do_elem_state_backup` refuses
  when there is no flag pointer, before it looks whether there is any flag to save
  (`zcbor_common.c:34`), so no union can start; `zcbor_common.h:421` says that the memory "is only
  needed for unordered maps".
* `map_end_after_error`: `zcbor_unordered_map_end_decode` skips what is left of the map in a loop
  that does not look at the result of `zcbor_any_skip`.  After an error, with `stop_on_error`,
  nothing is skipped and the call never returns.  (`ZcborBackup`, whose actions are calls that
  return, has no such end.)  The same loop is why `MapEndReturns` speaks
  of complete maps only: a value that is cut off cannot be skipped either.
* `number_range`: the sizes of the ends of a range are those of their *headers*, 1, 2, 4 or 8
  bytes, and the smaller end is then raised to the least number of that many bytes.
  `0x10000..0x2000000` loses everything below `0x1000000`.
* `cddl_tags`: a tagged element that is repeated, optional or an alternative is decoded without its
  tag, as a bare function is enough for it in the eyes of `repeated_single_func_impl_condition`.

The first of them can happen to a CBOR byte string as well (`zcbor_bstr_end_decode`, which the
generated code calls on the way out of a failure too, fails with `PAYLOAD_NOT_CONSUMED` and
keeps its backup).  It is why several properties are about states that are not `Orphaned` (as many
backups as calls): once a call has left its backup behind, the union's promise is gone, which
is what the violation shows, and the other properties say what holds while it has not
happened.  `TypeOK` of `ZcborBackup`, `FlagsInBounds`, `MarkIsAtomic` and `ProcessedWithinCount`
hold in orphaned states too, and so does `NothingReadBehind`.  `FlagsApart` and `SectionsNest` do not: after a string was left
with contents unread, a search may go back to a map around it, and with it to a longer
section, while a backup from within the string is still in use.  `OnlyMapsStrand` says which calls are
the first to leave a backup behind; `PairsAreKept` proves which decoders never get there.

### What the passing runs leave out on purpose

The code does something else than what is meant in these places too.  They are left out of the
pools of the passing runs, which would otherwise say nothing of the rest:

* `zcbor_any_skip` compares the length of a string with the room from the string's *header* on,
  so it accepts a string that ends behind the payload by as much as header and tags are long
  (`zcbor_decode.c:1706`).  `ZcborBackup` has this, and its properties hold with it; the payloads of
  `ZcborMap` are not cut inside a string.
* `.size` with a range on `int` and `nint` (`NotSizedByRange`).  `set_size_range` makes bounds of the
  sizes of a `uint` only (`zcbor.py:1183`); for the others it stores `min_size` and `max_size`, which
  nothing reads of an integer, so `int .size (1..3)` takes every integer, although `int .size 3` does
  not.  `README.md:385` says that `.size` "Works for integers and strings".  `Asked` does ask it of
  every integer type: with `NotSizedByRange = {}` TLC finds `MeansWhatIsAsked` violated.
* A search for which the flag bytes run out leaves the cursor where it is
  (`zcbor_decode.c:1160`); `FailsInPlace` is checked in the build without flags.
* Tags, and CBOR in strings, of elements that are repeated, optional or alternatives
  (`Fragile` in `MCCddlPipeline`): the decoder forgets the tag, as `cddl_tags` shows; the string's
  failing end keeps its backup; the validator ends with an exception nobody catches when a
  tagged element comes after the last item (`zcbor.py:2306`).
* A tag on a reference, a group or a union, which the validator looks for in one place and the
  parser leaves in another (`zcbor.py:2304`).
* CBOR strings described by one optional element, and strings of no item or several: the
  validator looks at the wrong iterator in the end (`zcbor.py:2374`).
* Options of a reference (`zcbor.py:3703`): the referred type is decoded in place and nothing puts
  back what it read before it failed; `[? b, 1]` with `b = (1, uint) / (2, tstr)` refuses `[1]`.
* Members of an unordered map whose keys overlap (`README.md:635` asks for keys that can be told
  apart).
* Two bounds of an element that name the same number on the same side, one inclusive and one not
  (`IsEqualBound`): the first one processed counts, and the order is that of a set.  Two upper
  bounds of one element, of which one is beyond any integer of CBOR, and `.size` or `.eq` together
  with a bound: an error or not, depending on that order.
* `nint .lt -1`, which accepts -1: every `nint` has the upper bound -1 from the start
  (`zcbor.py:946`), and `set_max_value` returns without taking note that a bound of the same
  number excludes it (`zcbor.py:850`).  `README.md:268` promises that the generated code checks
  "all the restriction set in the CDDL description".  `Numbers` has no -1.
* Bounds of 0 from above: `range_checks` drops them (`zcbor.py:3556`).  Negative numbers for a
  `uint` without bounds, which the validator's type check takes.

* An encoder that goes on after a start of a container failed behind its backup.
  `list_map_start_encode` keeps the backup, so the caller is in a container without a header and
  can only give it up.  `zcbor_bstr_start_encode` drops its backup but does not restore it: the
  elements counted in the list around it so far are forgotten, and the size that list would get
  at its end is wrong.  The model lets the caller give up the list, or its own frame, and nothing
  else (`usable`).
* `result` of `zcbor_bstr_end_encode`, which points to the place the content had *before* the
  header was written: if the header is shorter than the one reserved the content has moved.  The
  model has no such result.

In these places `ZcborBackup` is coarser than the code, on the safe side: a skip may end anywhere that
some payload makes it end, whatever was read there before; one error stands for all that a skip may
report; a search key is one byte; the loop that skips the rest of a map, if a skip in it fails and
puts the cursor back, may end anywhere from there on.  After `zcbor_update_state` the model's
`payload_bak` keeps its number, which stands for a pointer into the piece before; the code does not
use it until the next value sets it.

### Bounds

`NumBackups` is 2: two nested rollback points, or a container inside a union, and the call that
finds none left. `FlagBytes = 2` with `BitsPerByte = 2` has room for a map of one or two pairs
*and* one copy of its flags (indefinite maps grow to that), or two nested maps, or one map of
three pairs and no copy: every outcome of every room check. `SIZE_MAX = 31` puts
`ZCBOR_LARGE_ELEM_COUNT = SIZE_MAX - 15` well above the counts used; with it a map of 15 pairs is
one whose elements cannot be counted.  `backup_moving` has 17, the least there may be, as the
count in a string runs down from `SIZE_MAX`. The payload has 3 bytes (4 in two of the runs that
end in a violation): a map with a pair in it in a container, and a failure on either side. A
cursor that skipping took behind the payload is at most as far behind it as the payload is long
(`MaxPayload`), which is no bound of the model but what the comparison allows. `Headers` has one
header of each kind the run is about. `StaleBytes` is one buffer with every flag set; a missing
initialisation or clear shows against it. `VIEW WhatIsRead` leaves out the error register while
`stop_on_error` is off, when no later call reads it, and else keeps whether it holds an error,
which is all that `zcbor_check_error` looks at; `payload_bak` is kept, as a failed skip goes back
to it.

In the runs of `ZcborMap` the payload is fixed, so what matters is the documents: up to three
pairs make a search start before, at and behind what it looks for, wrap around, and start at
the very end; three pairs need two flag bytes of two flags, the last one partly unused; the
empty map and the map in which a key is there twice are the two ends of "once".  `FlagBytes = 4`
leaves room for the flags of such a map and one copy, or for a map in a map and a copy of
each, so that unions both start and fail to.
`SIZE_MAX = 63` leaves the counts of an indefinite map (from `ZCBOR_LARGE_ELEM_COUNT` = 48 down)
apart from those of a definite one.  `Keys` has a key for each pair and one that is in no pair
of the smaller maps.

The constants `ManuallyProcess`, `MapKinds`, `MovesPayload` and `Headers` say what the decoder
does; `SmartSearch`, `HasFlags` and `EnforceCanonical` are build and start-up choices of the
library.  `stop_on_error` is a field of the machine, as it is of the constant state:
`zcbor_new_state` clears it and the caller sets it to a member of `StopModes`.

`encode`: headers are of one byte up to 1, of two up to 3, of three beyond (`SmallLimits`), so that
a list of two, or a CBOR byte string with one number in it, has another header than the hint or
the room reserved for it; `Hints` has one that is too small and one that is too large for most
lists, and right for some.  Sections have 3 or 6 bytes and all of the payload at most 6
(`MaxBytes`): a container in a container with an element before it, one byte too few for any of
them, and a container that begins in one section and ends in the next.  `NumBackups = 2` is two
containers open at a time; `MaxDepth` bounds the same where lists take no backup.  The view
leaves out cells that will be overwritten before they are read, and what lies outside every open
container except whether it is as it should be.

`cddl_element`: bytes of one bit and integers of up to four of them (`Byte = 2`, `MaxSize = 4`,
`InlineMax = 0`) make every size from 0 to the largest come up among the numbers -5 to 16, the
ones between header sizes (three bytes) included.  Three tokens are a value or type and two
operators, or a quantifier, a type and `.default`.  `Window` reaches past the largest number in
both directions, so two sets of integers that differ differ in it.

`cddl_pipeline`: two elements in a list or map are what can be in each other's way, as an element
looks at what the one before left.  Lists have up to four items, so that repetitions of two or
three stop in the middle; `MaxQty = 4` is more often than anything repeats.  Maps have up to
three pairs out of six, in every order.  `NumBackups = 12` and `FlagBytes = 16` are more than any
of the descriptions needs, and the marks are compared with what the generator asks for;
`FlagsInByte = 2` makes rounding to bytes matter.

### Fairness

`ZcborBackup` assumes none: its properties are safety properties, and a decoder may stop at
any time.  `ZcborMap` assumes weak fairness of `SearchTurn` and `EndTurn` only, the turns of the
two loops inside the library: there is one thread, a loop waits for nothing, and once the call
was made nothing but the next turn can happen.  Of the decoder, which chooses what to call,
nothing is assumed.

## What is proved

`ZcborBackupProofs` proves for every payload length, number of backups, size of the flag
buffer, flags per byte, header set and mode:

| Theorem | Says |
|---|---|
| `TypeCorrect` | `Spec => []TypeOK`: no count wraps, none of a map exceeds half of `SIZE_MAX`, no section ends behind the payload and no cursor is further behind it than it is long, no more backups are in use than exist |
| `FlagsStayInBounds` | `Spec => []FlagsInBounds` |
| `RetryStaysPossible` | `Spec => []RetryIsPossible` |
| `MarkStaysAtomic` | `Spec => []MarkIsAtomic` |

Its assumptions are the named ones of the modules: sizes are natural numbers, a byte has at
least one flag, `SIZE_MAX > 16`, no flag bytes without a flag pointer, headers have their
types.

None of these is inductive by itself.  `FlagsInBounds` fails to be because committing a
rollback point moves the *active* flags down to the address of the *saved* ones and checks
nothing: that this stays in the buffer needs the active flags to start no lower than the saved
ones, and, because the next commit goes to the backup below, all starts to be ordered as the
backups are.  `RetryIsPossible` needs each backup that saved its flags to have room for a copy
behind them, which the dry run before the backup is taken establishes and nothing disturbs, as
backups do not change.  `IInv` is these facts (`FlagsSound`) with the types.  It makes no
difference between orphaned and other states: the order of the flags survives a call that
left its backup behind.

The proof goes operator by operator: a machine that is `Good` stays `Good` through each C
function, whatever it returns (`GoodResult`); then one lemma per group of actions.  The
arithmetic of flags and bytes (`FlagsToBytesExact`, `FlagsToBytesAbove`) is needed where a map
outgrows the buffer and its count is cut to what the buffer holds.

`ZcborBackupSteps` says of every call of the library what it does to the backups and to the flags
they own, as one of a few relations between two machines: it works on the innermost map and
leaves what lies below (`Worked`), takes a backup (`StateSaved`, `Opened`), goes back to one
(`Retried`, `RolledBack`), gives one up (`Committed`, `Closed`), or keeps one it should not have
(`Spilled`).  `ZcborBackupOrder` turns that into a relation on the specification: every step is
one of nine kinds (`Effect`: `Working`, `Marking`, `Opening`, `Retrying`, `RollingBack`,
`Committing`, `Closing`, `Moving`, `Stranding`), and the theorems are proved kind by kind, not
action by action:

| Theorem | Says |
|---|---|
| `OrderInvariance` | `Spec => []OInv`, the inductive invariant below |
| `FlagsStayApart` | `Spec => []FlagsApart` |
| `SectionsStayNested` | `Spec => []SectionsNest` |
| `BackupsStaySaved` | `Spec => SavedStaysSaved`: no step changes a backup or the flags it owns until it is removed |
| `ProcessedStaysWithin` | `Spec => []ProcessedWithinCount` |
| `PromiseIsKept` (`ZcborBackupRefines`) | `Spec => PromiseKept`: the shared buffer implements `BackupStack` |

They need no assumption that `ZcborBackupProofs` does not.  `FlagsApart` is not inductive: what a
map may add flags to, and where a retry restores them to, depends on which calls the backups
belong to.  `OInv` is `IInv` with three facts more.  `Paired`: there are at least as many backups
as calls.  `Searching`: a search runs in an unordered map and began within the section of the
state.  `InOrder`: while nothing is orphaned, `Ordered` relates backups and calls one by one:
the backups of unions and repetitions are the ones that own flags; each backup, and the state,
has its flags above those of all backups below (`Over`), its `map_start_backup_num` is the number
of the innermost list or map it is in, and its section ends where the sections around it do, or
earlier if a byte string lies between.  The map number is there because a
search that begins again at the start of its map restores the backup of that number
(`map_restart`), the *equality* of sections because this restore takes the end of the section
from the backup.  TLC checked `OInv` on complete instances before it was proved, and
found what the proof could not do without: that `FlagsApart` and `SectionsNest` end with the first
orphan.

`PromiseIsKept` goes through the kinds of steps once more (`EffectRefines`): the snapshot of a
backup depends on its own interval of the buffer only, which the order keeps out of reach, and a
copy (`Marking`) or a move (`Committing`) carries an interval over whole.  `Stranding` maps to the step by which `BackupStack` gives its promise up.

`ZcborBackupSchemas` proves what holds for the decoders of some schemas only, and of retries in any:

| Theorem | For | Says |
|---|---|---|
| `FirstErrorEnds` | `NoStrings` | `Spec => FirstErrorStops` |
| `OnlyMapsLeaveBackups` | `KeepsPlaces` | `Spec => OnlyMapsStrand`: as long as `stop_on_error` is off, nothing but a map leaves a backup behind |
| `PairsAreKept` | `KeepsPairs` | `Spec => []NoOrphans`: calls and backups stay paired through every failure |
| `RetriesGoBack` | any | `RecordedSpec => RetriesStartAlike` |
| `UnionsRetryFromStart` | `KeepsPairs` | `RecordedSpec => AlternativesStartAlike` |

* `NoStrings`: no header announces a byte string.  With one, an end of the string that fails is
  not noticed by the code around it, a search goes on, and its restart clears `counting_map_elems`
  in spite of the error.
* `KeepsPlaces`: no byte strings, and all of the payload in one piece.  The end of a string whose
  contents were not all read keeps its backup.
* `KeepsPairs`: no byte strings, no maps in unordered form, all of the payload in one piece, no
  `stop_on_error`, and no definite map with a count of `SIZE_MAX / 2` pairs or more (the start of
  such a map fails behind its backup).  Drop any one of the five, and TLC finds an orphan: they
  are what the code needs, not what the proof does.

`FirstErrorEnds` needs that each call reports to the decoder the error it leaves in the register
(`ErrorSeen`: the library goes on, or the decoder is failing), which says of every function that
one which succeeds leaves the register as it was (`Quiet`).  The two theorems on paired calls go
by `InStep`: with the machine able to go on, each end of a list or rollback removes its backup
before it can fail, and each start takes its backup last, or gives it up.  For that the pieces of the
payload that backups remember must be the piece in use (`Placed`, `Together`); the rest is which
errors the starts and ends of maps fail with behind their backup (`MapsInStep`).
The two theorems on retries go by `StartsKept`: while nothing is orphaned, the snapshot of the
backup of each union and repetition, the flags it owns included, is what `starts` recorded.  The step
kinds of `ZcborBackupOrder` say that nothing changes it before it is restored, and that what is
restored is the backup of this call.

`ZcborEncodeProofs` proves for all lengths of headers (one to five of them), payload sections, numbers
of backups, inputs and hints, and for both builds:

| Theorem | Says |
|---|---|
| `EncoderStaysInPayload` | `Spec => []StaysInPayload`: nothing is written behind the end of the payload, by calls that succeed and calls that fail |

The assumptions are that the inputs are natural numbers, that there are at most five lengths of a
header and that no section is longer than `MaxBytes`.  `StaysInPayload` is not inductive: the end of
a container restores a backup, and with it the backup's own `payload_end`, so the invariant says
that every backup has the end that the state has (which `zcbor_update_state` keeps up for all of
them at once) and lies before it.  The rest is that a body which moves was inside the payload
before, and is checked to be after; what the caller keeps (`asked`) is not needed, not even that
containers end in the order in which they began.  A string length that wraps around (a byte string
that is ended before its reserved header) is refused, which the invariant needs too.

`ZcborEncodeFrames` proves, from the same assumptions, what the payload holds:

| Theorem | Says |
|---|---|
| `WhatIsWrittenIsAsked` | `Spec => []WrittenIsAsked`: over all sections the payload is what the calls that succeeded asked for, finished lists with the shortest header |
| `ContainersEndIfTheyFit` | `Spec => []EndsIfItFits`: a container that can be reached can be ended if and only if its finished form fits |

`WrittenIsAsked` is not inductive: the end of a container restores a backup, measures the body from
where that backup says the container begins, counts what the restored state counts and moves the
body to fit a header that may be longer or shorter than the one reserved.  `WInv` adds to the
invariant of `ZcborEncodeProofs` how the machine corresponds to the *frames* of the caller, the
members of `asked` (`Corresponds`):

* the sections sent, and the section in use up to the cursor, are what the frames hold, one behind
  the other (this is `WrittenIsAsked`);
* each frame that should have a backup has one, in the same order (`Owning`), and as long as
  the start of the frame is in the section in use (`payload_moved` is not set) the backup says where
  that is, and the header reserved for a byte string is the one that its end will reckon from the
  room that was left (`zcbor_remaining_str_len`);
* `elem_count` of the state, and of the backup that will restore it, is the number of items in the
  innermost list or map (`CountsFor`), which chooses the header at its end.

The last two are claimed while the machine accepts calls.  With `stop_on_error` a fatal error may
leave a backup behind, but then nothing is written again; the first is claimed always.

The proof describes each call by what it does to the payload and the backups: it adds to them
(`Wrote`, `Opened`), ends the last (`Closed`), drops it (`Abandoned`), refuses (`Refused`), or
changes nothing (`Idle`); then shows once for each that the frames, changed as the caller
changes them, correspond again.  `LimitAssumption` enters where a byte string ends: the
header reserved from the room that is left is never shorter than the one its contents turn out to
need (`NoLongerHeader`), because the limits of the header lengths are further apart than the
headers are long, as 24, 256, 65536 and 2^32 are.  Depth, sections and payload are unbounded, so the facts about `FlattenSeq` need
induction.  It is had as a fact about sets, from the library's theorem that `<` on the naturals is
well-founded: a set of naturals that holds 0, and with each member the next, holds all (`Induct`).

`CddlElementProofs` proves for every set of numbers, ranges and combinations of operators, every
size of a byte and of the largest integer, and any number of tokens:

| Theorem | Says |
|---|---|
| `ElementTypeCorrect` | `Spec => []TypeOK`: bounds, sizes and values of an element are integers or absent |
| `InequalitiesOnlyTighten` | `Spec => OnlyTightens`: an inequality that is applied never gives back an integer that an earlier bound took away |
| `OperatorsCommute` | `BoundedOnce`, `NegativesFit`: `Spec => []ModifiersCommute`: `process_modifiers()` may take the operators in any order that a set of Python has; the element is the same, or an error either way |
| `BoundsMeanWhatIsAsked` | `SizedAlone`, `NotBelowLast`, `NoSizeBelowOne`, `SignedNotSizedByRange`, `HeaderFits`, `EvenByte`: `Spec => []MeansWhatIsAsked`: of the integers of its type, a finished element accepts those that every modifier of its text asks for, and no other |

The assumptions are that literals and ranges are integers, that a byte has at least two values, and
`PowerAssumption` and `PowerSteps`, what the operator `^` is, which the provers do not know.  `TypeOK` is not inductive: what an operator writes into the bounds comes from
its operand, which was noted long before, so the invariant says of every operator that is noted
that its operand is one (`Noted`), and that `process_modifiers()` has only noted ones left to apply;
for the latter no operator may forget another (`ModProcessorsAddModifiers`).  The second theorem
needs that the size which follows a bound (`set_min_size` calls back into `set_min_value`) either
raises the bound further or leaves it, and that a cap by size comes only where there is no upper
bound.

The hypotheses of the third are about the text, and each is needed: TLC finds an order that matters
when one is dropped.  `BoundedOnce`: an operator bounds an element above, sizes it or gives it its
value, and no second one does; one that is valued or sized by an operator has no `.gt` or `.ge`
either.  `NegativesFit`: no negative number of the text is below what an integer of CBOR can be;
as a lower bound such a number is an error if its turn comes before the other bound's, and is
overlooked afterwards.  Two lower bounds may come, and a bound on each side, and a default with
any of them.  The invariant (`OInv`) adds to type correctness that the operators noted on an element occur
together in a text and that the bounds of one side name different numbers (`ControlsSound`), which
no token and no operator forgets (`Kept`, `Worked`).  From there it is a computation: what
`set_min_value` and `set_max_value`, which call each other through the sizes, make of an element is
put in closed form (`SetMinValueIs`, `SetMaxValueIs`), and two of these forms commute
(`LowersCommute`, `SidesCommute`).  They compare lengths of numbers in bytes, which `ByteLength` gives
as the least that is enough; that there is one needs the well-founded order of the naturals again
(`LeastOfLength`), and that a larger number is not shorter follows (`LongerIsLonger`).

The fourth theorem is the one that says what all of this is for.  Its hypotheses describe the texts
of which it is true; the code does something else with any other, and the instance that TLC checks
satisfies all of them:

* `SizedAlone`: `.size` and `.eq` are the only operator that bounds their element.  `set_size`
  overwrites a bound that is there, and a value next to a bound keeps the closer of the two.
* `NotBelowLast`: no `.lt -1`.  The upper bound of a NINT is -1 from the start, `set_max_value` finds
  that the new one is no closer, and -1 stays in.
* `NoSizeBelowOne`: no `.size (0...1)`, whose last size is 0: `set_max_size` takes that for no bound.
* `SignedNotSizedByRange`: no `int` or `nint` has `.size` with a range, which bounds nothing there
  (`zcbor.py:1183`, see what the passing runs leave out).
* `HeaderFits`: no range starts at a number with fewer bytes than its field in a header, such as three,
  which takes four.  This is the disagreement that the run `number_range` shows.
* `EvenByte`: a byte has an even number of values, so that half of the signed ones are negative.

The invariant (`MInv`) speaks of the modifiers that have had their effect: while the text is read, those that
no operator defers, then those that have left `todo`.  Of all integers of its type the element
accepts what these ask for (`Means`), and each bound is that of one of them, or there is none
(`Sourced`): without the latter one could not tell that an inequality that `set_max_value` overlooks
asks for nothing new.  Before the type the element is as `__init__` left it (`Blank`), a value is
set as it is noted (`Valued`), and after a range no operator comes.  One lemma for each kind of
operator carries this over a turn (`InequalityTurn`, `SizeTurn`, `EqualTurn`, `DefaultTurn`), one for each kind of
token over the reading (`TypeAloneMeans`, `NumberMeans`, `RangeMeans`, `NotedMeans`).  What has to be
shown for a bound is that the size that follows it changes nothing that is asked for: the least
integer of as many bytes is never above the number itself (`MinSizeLeavesBounds`), and the
sizes from one to another together are the integers from the least of the one to the last of the
other (`SizesCover`), for which the powers of a byte must grow (`PowersGrow`).

Only model-checked: all properties of `ZcborMap`, which depend on what `zcbor_any_skip`, a recursive
function on the bytes, computes for the encoding of a document; and those of `CddlPipeline`, whose
definitions are `RECURSIVE` operators over a tree, about which the prover says nothing.  `NothingReadBehind` is
model-checked too.  `FirstErrorStops`, `OnlyMapsStrand` and `RetriesStartAlike` are proved, under the
hypotheses above, and checked on an instance that satisfies them, with unordered maps and smart
search.  `AlternativesStartAlike` is proved for the decoders of `KeepsPairs` and refuted, by
`union_after_map`, for one that is none of them; `NoOrphans` is proved only.
Liveness is out of the prover's reach and stays with TLC.

## What is done and what is left

Done, in the order in which it was planned: the core (`ZcborState`, `ZcborDecode`,
`ZcborBackup`, `BackupStack`) and its proofs; the search on maps with known contents
(`ZcborPayload`, `ZcborMap`); the schema compiler, which is most of the code: an element
(`CddlElement`), trees (`CddlTree`), the validator (`CddlValidate`), what the generator asks for
and the code it writes (`CddlXcoder`, `CddlCode`), composed with the library in `CddlPipeline`; the encoder (`ZcborEncode`) and what
is proved of it: that it stays in the payload, writes what was asked for, and ends what fits.

Left:

* *Fragments*: strings across payload sections, composed with `zcbor_update_state`; abstract
  specification a string and a position in it.
* *Round trip*: the code generated for encoding, composed with the generated decoder.
* Proofs of the invariants of `ZcborMap`, which need by induction what `zcbor_any_skip` makes of an
  encoded document.
* *Numbers*: integers at each width, half floats, against reference definitions.

## Not modelled

* In `ZcborMap` a start of a map that fails ends the decode; what may follow one is in
  `ZcborBackup`.  Its keys are small numbers, and a payload holds one map and one byte more.
* Of the values, `CddlCode` has small integers, the lengths of strings (all text of one length is
  the same text), booleans, nil and undefined.  Floats, `.bits` and numbers of more than one byte
  are left out there.
* `ZCBOR_FRAGMENTS` and the fragment functions: the modules describe a build without it.
* The encoder in the generated code and in the translator; in the library negative numbers, floats
  and simple values, which are headers like any other, `zcbor_multi_encode` and fragments.
* The text of CDDL: the regular expressions that cut it into tokens and the recursion over
  parentheses.  `CddlElement` begins with tokens and `CddlPipeline` with the elements that
  `parse_one()` returns.  Sockets, `&(...)` enumerations, `~` and imports are left out.
* Names: of types, members and defines, and their uniqueness; what the translator returns
  (namedtuples), YAML and JSON; `list_counts`, `depends_on` and the sorting of types.
* Rendering, the command line, the scripts: text and files.
* Printing: changes no state.
* `max_elem_count` of `zcbor_process_backup_num` is taken to be `ZCBOR_MAX_ELEM_COUNT`, which is
  what every caller in the library passes.
* A `constant_state` that is NULL: such a state has no backups, no flags and no error register;
  the functions that need one refuse with `CONSTANT_STATE_MISSING`.
