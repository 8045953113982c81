---------------------------- MODULE ZcborUnions ----------------------------
(***************************************************************************)
(* What the alternatives of a union, and a repetition that is undone, go   *)
(* back to: ZcborBackup with a history of where each call began.           *)
(*                                                                         *)
(* starts[i] is the cursor, with its element count and its flags, as it    *)
(* was before the call calls[i] was entered.  It is told from the calls    *)
(* and the cursor alone, without a look at the backups, and no action of   *)
(* ZcborBackup depends on it.                                              *)
(***************************************************************************)
EXTENDS ZcborBackup

VARIABLE starts         \* history: where each call the decoder is in began

history == << zs, calls, failing, search, starts >>

RecordedInit == Init /\ starts = << >>

RecordStart ==
    starts' = [i \in DOMAIN calls' |-> IF i \in DOMAIN calls THEN starts[i]
                                       ELSE Snapshot(zs, zs.state)]

RecordedNext == Next /\ RecordStart

RecordedSpec == RecordedInit /\ [][RecordedNext]_history

-----------------------------------------------------------------------------
(* Properties.                                                             *)

\* A union goes on with another alternative, or a repetition that failed is
\* given up, where it began.
BackAtStart == Snapshot(zs', zs'.state) = starts[Len(calls)]

\* Every alternative of a union finds the cursor, the count of elements and the
\* flags of the map around it as the union found them, whatever the alternatives
\* before it did: nothing else than the end of an unordered map leaves a backup
\* behind for zcbor_union_elem_code to restore.
AlternativesStartAlike == [][UnionElem /\ ~failing' => BackAtStart]_history

\* So does every alternative and every repetition in any decoder, as long as the
\* backups are those of the calls it is in: with maps searched, copied flags
\* discarded and restored, and flags growing while a map is counted.
RetriesStartAlike ==
    [][~Orphaned /\ (UnionElem \/ IterationFails) /\ ~failing' => BackAtStart]_history

=============================================================================
