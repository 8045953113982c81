----------------------------- MODULE MCZcborMap -----------------------------
(* ZcborMap on small documents: the values of its constants. *)
EXTENDS ZcborMap

Pair(key, value) == [key |-> << key >>, value |-> value, inner |-> << >>]
Nested(key, d)   == [key |-> << key >>, value |-> MapBytes(d), inner |-> << d >>]
Document(pairs, indefinite) == [pairs |-> pairs, indefinite |-> indefinite]

\* {1: 7, 2: [1, 2], 3: 16(7)}, {1: 7, 1: h'07', 2: {_ 1: 7}} and smaller ones.
Three == << Pair(1, << 7 >>), Pair(2, << 130, 1, 2 >>), Pair(3, << 208, 7 >>) >>
Twice == << Pair(1, << 7 >>), Pair(1, << 65, 7 >>), Pair(2, << 191, 1, 7, 255 >>) >>
Flat  == { Document(p, i) : p \in { << >>, Three, Twice }, i \in BOOLEAN }

\* {1: {2: 7, 1: 7}, 2: 7}, with sizes in front or with breaks.
Deep == { Document(<< Nested(1, Document(<< Pair(2, << 7 >>), Pair(1, << 7 >>) >>, j)),
                      Pair(2, << 7 >>) >>, i) : i, j \in BOOLEAN }

Whole == Flat \cup Deep

\* Keys of which each is there once.
Plain == { Document(Three, i) : i \in BOOLEAN } \cup Deep

\* Maps that may be cut: within a nested map, behind a tag, before a break.
Tagged   == << Pair(2, << 130, 1, 2 >>), Pair(1, << 208, 7 >>) >>
Cuttable == { Document(p, i) : p \in { Twice, Tagged }, i \in BOOLEAN }

\* One string, which may be cut.
Text == { Document(<< Pair(1, << 7 >>), Pair(2, << 97, 7 >>) >>, FALSE) }

\* Only with stop_on_error does a call read the error register.
WhatIsRead == << document, bytes, [zs EXCEPT !.error = IF zs.stop_on_error THEN @ ELSE "SUCCESS"], calls, call, ret, failing, seen >>

=============================================================================
