--------------------------- MODULE MCCddlElement ---------------------------
(* CddlElement with bytes of one bit: the values of its constants. *)
EXTENDS CddlElement

Numbers == {-5, -2, 0, 1, 2, 3, 4, 9, 16}

\* Each side of an element is bounded by operators, a size or a value.  Not
\* two at the upper side: a number that no integer reaches is an error there if
\* its turn comes first, and overlooked if it comes last.
BoundedOneWay ==
    { {".gt", ".ge"}, {".gt", ".lt", ".default"}, {".ge", ".le"}, {".gt", ".le"}, {".ge", ".lt"},
      {".size", ".cbor", ".default"}, {".cborseq", ".default"}, {".eq", ".default"},
      {".size", ".bits"} }

\* Ranges whose smaller end has as many bytes in a header as it has by itself.
PlainRanges == { << 1, 3, TRUE >>, << 0, 2, FALSE >>, << -5, 3, TRUE >>, << -5, -1, TRUE >>,
                 << 8, 9, FALSE >>, << 3, 3, TRUE >>, << 3, 3, FALSE >>, << 2, 1, TRUE >>,
                 << 1, 16, TRUE >> }

\* A range that starts at a number of three bytes, which takes four in a header.
ThreeByteRange == { << 4, 9, TRUE >> }

Nothing == { {} }

\* The types whose bounds a range of sizes does not reach, and none.
SignedTypes == {"INT", "NINT"}
NoTypes == {}

=============================================================================
