------------------------------ MODULE CborItem ------------------------------
(* CBOR data items as cbor2 hands them to zcbor.py, and their bytes.  An item
   is [k, n, sub]: its kind, a number and the items inside it.

     uint, nint    n is the number                 tag    n is its number,
     tstr          n is how many bytes                    sub is << item >>
     bstr          sub are the items it holds      map    sub are its pairs
     bool          n is 0 or 1                     pair   sub is << key, value >>
     nil, undef                                    list   sub are its elements

   All text of the same length is the same text.  Numbers are small enough for
   headers of one byte. *)
EXTENDS Integers, SequencesExt

Item(k, n, sub) == [k |-> k, n |-> n, sub |-> sub]
Uint(n)  == Item("uint", n, << >>)
Nint(n)  == Item("nint", n, << >>)
Tstr(n)  == Item("tstr", n, << >>)
Bstr(items) == Item("bstr", 0, items)
Nil      == Item("nil", 0, << >>)
Bool(n)  == Item("bool", n, << >>)
List(items) == Item("list", 0, items)
Map(pairs)  == Item("map", 0, pairs)
Pair(key, value) == Item("pair", 0, << key, value >>)
Tag(n, item) == Item("tag", n, << item >>)

Header(major, n) == << 32 * major + n >>
Letter == 97

RECURSIVE Encode(_)
EncodeAll(items) == FlattenSeq([i \in DOMAIN items |-> Encode(items[i])])

Encode(x) ==
    LET inside == EncodeAll(x.sub)
    IN  CASE x.k = "uint"  -> Header(0, x.n)
          [] x.k = "nint"  -> Header(1, -1 - x.n)
          [] x.k = "bstr"  -> Header(2, Len(inside)) \o inside
          [] x.k = "tstr"  -> Header(3, x.n) \o [i \in 1 .. x.n |-> Letter]
          [] x.k = "list"  -> Header(4, Len(x.sub)) \o inside
          [] x.k = "map"   -> Header(5, Len(x.sub)) \o inside
          [] x.k = "pair"  -> inside
          [] x.k = "tag"   -> Header(6, x.n) \o inside
          [] x.k = "bool"  -> Header(7, 20 + x.n)
          [] x.k = "nil"   -> Header(7, 22)
          [] x.k = "undef" -> Header(7, 23)

\* len(obj)
Length(x) == IF x.k = "tstr" THEN x.n ELSE Len(EncodeAll(x.sub))

=============================================================================
