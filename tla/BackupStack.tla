---------------------------- MODULE BackupStack ----------------------------
(***************************************************************************)
(* What the backup list promises a decoder, without the buffer its flags   *)
(* live in: a stack of snapshots, each with flags of its own.              *)
(*                                                                         *)
(* A snapshot is [payload, elem_count, flags]; flags tells for each element*)
(* of the current map whether it is still to be found.  orphaned says that *)
(* some call failed and left its own backup behind; from then on, until a  *)
(* new start, nothing is promised.  A snapshot taken before the payload was*)
(* replaced has no position to go back to: its payload is Outdated.        *)
(***************************************************************************)
EXTENDS Integers, Sequences

CONSTANT Payloads      \* positions in the payload

VARIABLES cur, saved, orphaned

vars == << cur, saved, orphaned >>

Outdated == -1

Init == saved = << >> /\ orphaned = FALSE /\ cur.flags = << >>

Top == saved[Len(saved)]
Popped == SubSeq(saved, 1, Len(saved) - 1)

\* Decoding within the current map: flags are cleared, never set again, and
\* flags of newly seen elements are added behind the ones there are.
Work ==
    /\ UNCHANGED saved
    /\ DOMAIN cur.flags \subseteq DOMAIN cur'.flags
    /\ \A i \in DOMAIN cur.flags : cur'.flags[i] => cur.flags[i]

\* A rollback point: decoding goes on from the very snapshot taken.
Mark == saved' = Append(saved, cur) /\ UNCHANGED cur

\* Entering a list, map or string: its flags are its own, and the enclosing
\* map's wait in the snapshot, taken behind the header.
Open ==
    \E payload \in Payloads :
        saved' = Append(saved, [cur EXCEPT !.payload = payload, !.elem_count = @ - 1])

\* Try again from the rollback point, which stays.
Retry == saved # << >> /\ Top.payload # Outdated /\ cur' = Top /\ UNCHANGED saved

\* Give up: back to the rollback point, which goes.
RollBack == saved # << >> /\ Top.payload # Outdated /\ cur' = Top /\ saved' = Popped

\* The rollback point is no longer needed; what was decoded since stays.
Commit == saved # << >> /\ UNCHANGED cur /\ saved' = Popped

\* Leaving a list, map or string: everything as it was, the payload aside.
Close ==
    /\ saved # << >>
    /\ \E payload \in Payloads : cur' = [Top EXCEPT !.payload = payload]
    /\ saved' = Popped

\* Another piece of payload.
Move ==
    /\ \E payload \in Payloads : cur' = [cur EXCEPT !.payload = payload]
    /\ saved' = [i \in DOMAIN saved |-> [saved[i] EXCEPT !.payload = Outdated]]

Next ==
    \/ /\ ~orphaned /\ ~orphaned'
       /\ Work \/ Mark \/ Open \/ Retry \/ RollBack \/ Commit \/ Close \/ Move
    \/ orphaned'
    \/ /\ orphaned \/ saved = << >>                                \* a new start
       /\ saved' = << >> /\ orphaned' = FALSE

Spec == Init /\ [][Next]_vars

=============================================================================
