--------------------------- MODULE MCZcborBackup ---------------------------
(* ZcborBackup on small payloads: the values of its constants. *)
EXTENDS ZcborBackup

Header(major, additional, value) ==
    [major |-> major, additional |-> additional, value |-> value, minimal |-> TRUE]

\* A number, a list, and maps of three pairs, of unknown length, and of more pairs
\* than a size_t counts the elements of.
MapHeaders == {Header(PINT, 0, 0), Header(LIST, 1, 1), Header(MAP, 3, 3),
               Header(MAP, INDEFINITE, 0), Header(MAP, 15, 15)}

\* What a schema without unordered maps and CBOR in strings reads.
ListHeaders == {Header(PINT, 0, 0), Header(LIST, 1, 1), Header(LIST, INDEFINITE, 0),
                Header(MAP, 0, 0), Header(MAP, 1, 1)}

\* Strings that hold CBOR, and maps.
StringHeaders == {Header(BSTR, 1, 1), Header(BSTR, 2, 2), Header(MAP, 1, 1)}

\* Stale bytes with every flag set: those a missing initialisation would
\* leave standing, and a missing clear would show.
AllSet == {Bit}

\* No later call reads the error register, but with stop_on_error whether there
\* is an error at all.
WhatIsRead ==
    << [zs EXCEPT !.error = zs.stop_on_error => @ = "SUCCESS"],
       calls, failing, search >>

=============================================================================
