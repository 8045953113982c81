---------------------------- MODULE CddlMeaning ----------------------------
(* What a CDDL element means, by the rules of CDDL (RFC 8610) and not by any
   code: the yardstick of the validator, of the generated decoder and of
   flatten().  A sequence of items, or of the pairs of a map, is matched from
   position i on; the answer is the set of positions where a match may end, so
   that every choice of a union and every number of repetitions is in it. *)
EXTENDS CddlTree, CborItem

IsInside(option, n, is_min, inclusive) ==
    IF option = None THEN TRUE
    ELSE \/ inclusive /\ n = option[1]
         \/ IF is_min THEN n > option[1] ELSE n < option[1]

BoundsHold(e, n) == /\ e.value \in {None, Some(n)}
                    /\ IsInside(e.min_value, n, TRUE, e.min_value_inclusive)
                    /\ IsInside(e.max_value, n, FALSE, e.max_value_inclusive)

SizeHolds(e, n) == /\ e.value \in {None, Some(n)}
                   /\ IsInside(e.min_size, n, TRUE, TRUE)
                   /\ IsInside(e.max_size, n, FALSE, TRUE)

Permutation(s) == {[i \in DOMAIN s |-> s[p[i]]] :
                     p \in {q \in [DOMAIN s -> DOMAIN s] : \A i, j \in DOMAIN s : q[i] = q[j] => i = j}}

RECURSIVE Ends(_, _, _), OnceEnds(_, _, _), InTurn(_, _, _)

\* The elements es, one after the other.
InTurn(es, s, i) ==
    IF es = << >> THEN {i} ELSE UNION {InTurn(Tail(es), s, j) : j \in Ends(Head(es), s, i)}

MatchesAll(es, s) == Len(s) + 1 \in InTurn(es, s, 1)

Alone(e) == [e EXCEPT !.min_qty = 1, !.max_qty = 1]
IsOne(e, x) == 2 \in OnceEnds(Alone(e), << x >>, 1)

\* An item that is neither a pair nor under a tag of the element.
HasType(e, x) ==
    CASE e.type = Some("ANY")   -> TRUE
      [] e.type = Some("UINT")  -> x.k = "uint" /\ BoundsHold(e, x.n)
      [] e.type = Some("NINT")  -> x.k = "nint" /\ BoundsHold(e, x.n)
      [] e.type = Some("INT")   -> x.k \in {"uint", "nint"} /\ BoundsHold(e, x.n)
      [] e.type = Some("TSTR")  -> x.k = "tstr" /\ SizeHolds(e, x.n)
      [] e.type = Some("BOOL")  -> x.k = "bool" /\ e.value \in {None, Some(x.n)}
      [] e.type = Some("NIL")   -> x.k = "nil"
      [] e.type = Some("UNDEF") -> x.k = "undef"
      [] e.type = Some("BSTR")  -> x.k = "bstr" /\ SizeHolds(e, Length(x)) /\ (IsSome(e.cbor) => MatchesAll(e.cbor, x.sub))
      [] e.type = Some("LIST")  -> x.k = "list" /\ MatchesAll(e.kids, x.sub)
      [] e.type = Some("MAP")   -> x.k = "map" /\ \E s \in Permutation(x.sub) : MatchesAll(e.kids, s)

OnceEnds(e, s, i) ==
    LET inside == i <= Len(s)
        isPair == inside /\ s[i].k = "pair"
        next(b) == IF b THEN {i + 1} ELSE {}
    IN  IF IsSome(e.key)
          THEN next(isPair /\ IsOne(e.key[1], s[i].sub[1]) /\ IsOne([e EXCEPT !.key = None], s[i].sub[2]))
        ELSE IF e.tags # << >>
          THEN next(inside /\ s[i].k = "tag" /\ s[i].n = Head(e.tags)
                    /\ IsOne([e EXCEPT !.tags = Tail(@)], s[i].sub[1]))
        ELSE IF IsOther(e) THEN Ends(Ref(e), s, i)
        ELSE IF e.type = Some("GROUP") THEN InTurn(e.kids, s, i)
        ELSE IF e.type = Some("UNION") THEN UNION {Ends(e.kids[j], s, i) : j \in DOMAIN e.kids}
        ELSE next(inside /\ ~isPair /\ HasType(e, s[i]))

\* min_qty to max_qty times; more often than there are items adds nothing new.
Ends(e, s, i) ==
    LET most == IF e.max_qty = Many THEN e.min_qty + Len(s) ELSE e.max_qty
        After[n \in 0 .. most] == IF n = 0 THEN {i} ELSE UNION {OnceEnds(e, s, j) : j \in After[n - 1]}
    IN  IF IsOnce(e) THEN OnceEnds(e, s, i) ELSE UNION {After[n] : n \in e.min_qty .. most}

Matches(e, x) == 2 \in Ends(e, << x >>, 1)

=============================================================================
