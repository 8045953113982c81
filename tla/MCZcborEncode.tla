--------------------------- MODULE MCZcborEncode ---------------------------
(* ZcborEncode with headers that grow early: the values of its constants. *)
EXTENDS ZcborEncode

\* Headers of 1, 2 and 3 bytes, for values up to 1, 3 and beyond.
SmallLimits == << 1, 3 >>

\* What a later call may read or move.  Left out: the error register (without
\* stop_on_error), the cells from the next one to be written on, up to the end
\* of the payload, and what lies outside every open container.  The latter is
\* right or wrong for good, so whether it is right is kept instead.
Inside == Len(FlattenSeq([i \in 1 .. Len(asked) - 1 |-> asked[i + 1].header \o asked[i + 1].body]))

WhatIsRead ==
    << [m EXCEPT !.error = IF m.stop_on_error THEN @ ELSE "SUCCESS",
                 !.bytes = [a \in DOMAIN @ |->
                     IF \/ a \in m.state.payload - Inside .. m.state.payload - 1
                        \/ a >= m.state.payload_end
                     THEN @[a] ELSE Untouched]],
       canonical, [asked EXCEPT ![1].body = << >>], Len(FlattenSeq(sent)), WrittenIsAsked >>

=============================================================================
