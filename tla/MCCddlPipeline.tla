--------------------------- MODULE MCCddlPipeline ---------------------------
(* CddlPipeline on all small descriptions of a few shapes, and all small data
   of the same shapes: the values of its constants. *)
EXTENDS CddlPipeline

\* Elements as parse_one() leaves them.
Noted(e, m) == [e EXCEPT !.modifiers = [x \in DOMAIN @ \cup {m} |-> IF x \in DOMAIN @ THEN @[x] ELSE None]]
E(type)     == [NewElement EXCEPT !.type = Some(type)]
N(v)        == Noted([E("UINT") EXCEPT !.value = Some(v), !.min_value = Some(v), !.max_value = Some(v)], "value")
C(type, kids)  == Noted([E(type) EXCEPT !.kids = kids], "value")
Q(min, max, e) == Noted([e EXCEPT !.min_qty = min, !.max_qty = max], "quantifier")
K(key, e)   == Noted([e EXCEPT !.key = Some([key EXCEPT !.is_key = TRUE])], "key")
T(n, e)     == Noted([C("GROUP", << e >>) EXCEPT !.tags = << n >>], "tag")
R(name)     == Noted([E("OTHER") EXCEPT !.ref = Some(name)], "value")
B(e)        == Noted([E("BSTR") EXCEPT !.cbor = Some(e)], ".cbor")
L(kids) == C("LIST", kids)
M(kids) == C("MAP", kids)
G(kids) == C("GROUP", kids)
U(kids) == C("UNION", kids)
Opt(e)  == Q(0, 1, e)
Star(e) == Q(0, Many, e)

uint == E("UINT")
tstr == E("TSTR")

D(default, e) == [e EXCEPT !.modifiers = [x \in DOMAIN @ \cup {".default"} |->
                              IF x = ".default" THEN Some(default) ELSE @[x]]]
AtMost(n) == [E("UINT") EXCEPT !.max_value = Some(n)]

\* a, which refers to b or not.
One(a)    == [n \in {"a"} |-> a]
Two(a, b) == [n \in {"a", "b"} |-> IF n = "a" THEN a ELSE b]
UpTo(n, S) == UNION { [1 .. k -> S] : k \in 0 .. n }

-----------------------------------------------------------------------------
(* Lists. *)

Terminals == { uint, N(1), tstr, AtMost(1) }
Unions    == { U(<< N(1), tstr >>), U(<< uint, tstr >>), U(<< L(<< uint >>), L(<< tstr >>) >>),
               U(<< G(<< N(1), uint >>), G(<< N(2), tstr >>) >>) }
Parts     == Terminals \cup Unions \cup { L(<< uint >>), G(<< uint, tstr >>) }

\* Neither repeated nor in a union: there the code does not do what is meant.
Fragile   == { T(5, uint), B(uint) }

\* What flatten() takes apart, or refuses.
Wrapped   == { Opt(G(<< uint >>)), Star(G(<< G(<< uint, tstr >>) >>)), U(<< U(<< uint, E("NIL") >>), G(<< tstr >>) >>),
               G(<< Opt(uint), tstr >>), Opt(G(<< U(<< G(<< uint, tstr >>), N(1) >>) >>)),
               G(<< T(5, uint) >>), Opt(G(<< Star(uint) >>)) }

\* What process_modifiers() and post_validate() look at.
Checked == { Opt(D(N(1), uint)), D(N(1), uint), Opt(D(tstr, uint)), Opt(D(R("b"), U(<< N(1), N(2) >>))),
              Opt(D(N(1), U(<< N(1), Q(2, 2, R("b")) >>))), Opt(D(N(1), U(<< Q(2, 2, R("b")), N(1) >>))),
              K(N(1), uint), M(<< uint >>), Star(E("ANY")), B(Opt(D(N(1), tstr))) }

Repeated  == Parts \cup { Opt(e) : e \in Parts } \cup { Star(e) : e \in Parts } \cup { Q(2, 3, e) : e \in Unions }
ListsOfTwo == { One(L(<< x, y >>)) : x \in Repeated \cup Fragile \cup Wrapped,
                                     y \in { uint, N(1), tstr, U(<< N(1), tstr >>), L(<< uint >>), G(<< uint, tstr >>) }
                                           \cup Fragile \cup { Opt(uint), Star(tstr) } }
References == { Two(L(<< x, N(1) >>), b) :
                  x \in { R("b"), Star(R("b")), U(<< R("b"), tstr >>) } \cup Checked, b \in Parts }

Atoms == { Uint(1), Uint(2), Tstr(1), Nil, Tag(5, Uint(1)), Bstr(<< Uint(1) >>), Bstr(<< Tstr(1) >>), List(<< Uint(1) >>) }
Lists == { List(s) : s \in UpTo(2, Atoms) \cup UpTo(4, { Uint(1), Tstr(1) }) }

-----------------------------------------------------------------------------
(* Maps. *)

Singles == { K(N(1), uint), K(N(2), tstr), K(tstr, uint), K(uint, tstr), K(N(3), M(<< K(N(1), tstr) >>)) }
Doubles == { U(<< K(N(1), uint), K(N(2), uint) >>), U(<< K(N(1), uint), K(tstr, uint) >>),
             G(<< K(N(1), uint), K(N(2), tstr) >>), R("b") }
Named   == { G(<< K(N(2), uint), K(N(3), tstr) >>), U(<< K(N(2), tstr), K(N(3), uint) >>) }
Members == LET once == Singles \cup Doubles
           IN  once \cup { Opt(e) : e \in once } \cup { Star(e) : e \in Doubles \cup { K(uint, tstr) } }

\* The keys of e, of which every text is 0; b has the keys 2 and 3.
KeysOf(e) == LET parts == IF IsSome(e.key) THEN << e >> ELSE e.kids
                 Keys(k) == IF IsType(k, {"TSTR"}) THEN {0} ELSE IF IsSome(k.value) THEN Range(k.value) ELSE 1 .. 3
             IN  IF IsOther(e) THEN {2, 3} ELSE UNION { Keys(parts[i].key[1]) : i \in DOMAIN parts }

\* No two members have a key in common: README.md:635 restricts the ambiguity
\* between keys, and what is meant is found in any order then.
PairsOfMembers == { p \in Members \X Members : KeysOf(p[1]) \cap KeysOf(p[2]) = {} }
Refers(p) == \E i \in DOMAIN p : IsOther(p[i])
MapsOfTwo == { One(M(p)) : p \in { q \in PairsOfMembers : ~Refers(q) } }
               \cup { Two(M(p), b) : p \in { q \in PairsOfMembers : Refers(q) }, b \in Named }

SomePairs == { Pair(Uint(1), Uint(1)), Pair(Uint(2), Tstr(1)), Pair(Uint(2), Uint(1)), Pair(Uint(3), Tstr(1)),
               Pair(Tstr(1), Uint(1)), Pair(Uint(3), Map(<< Pair(Uint(1), Tstr(1)) >>)) }
Maps == { Map(s) : s \in { t \in UpTo(3, SomePairs) : \A i, j \in DOMAIN t : i # j => t[i].sub[1] # t[j].sub[1] } }

-----------------------------------------------------------------------------
TheCases == { << d, FALSE >> : d \in ListsOfTwo \cup References } \cup { << d, u >> : d \in MapsOfTwo, u \in BOOLEAN }
TheData == Lists \cup Maps

\* A tag on what is repeated, optional or in a union.
TaggedLists == { << One(L(<< x >>)), FALSE >> :
                   x \in { Star(T(5, uint)), Opt(T(5, uint)), U(<< T(5, uint), tstr >>) } }

=============================================================================
