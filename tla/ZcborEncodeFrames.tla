------------------------- MODULE ZcborEncodeFrames -------------------------
(***************************************************************************)
(* Proofs about ZcborEncode: what was written is what the caller asked for, *)
(* and a container can be ended if and only if its finished form fits.      *)
(*                                                                         *)
(* The invariant WInv relates the machine to the frames of the caller.      *)
(* What is in the payload, behind the sections that were sent, is what the  *)
(* frames hold, one behind the other; each frame that keeps a backup has    *)
(* one, in the order of the frames, and as long as that backup is in the    *)
(* section in use it says where the frame begins; and what a list counts is *)
(* what its frame holds.  A step is one call: the first lemmas say what the *)
(* call does to the payload and to the backups (Wrote, Opened, Closed,      *)
(* Abandoned, Refused, Idle), the later ones that this is what the frames   *)
(* of the caller become (Corresponds).                                     *)
(*                                                                         *)
(* The frames have any number and the payload any length, so that the       *)
(* lemmas about FlattenSeq need induction: it is taken from the fact that   *)
(* every set of naturals that is not empty has a least member.              *)
(***************************************************************************)
EXTENDS ZcborEncodeProofs, WellFoundedInduction

-----------------------------------------------------------------------------
(* Induction, as a fact about sets.                                        *)

LEMMA Least ==
    ASSUME NEW T, T \subseteq Nat, T # {}
    PROVE  \E n \in T : \A k \in T : n <= k
<1>1. IsWellFoundedOn(OpToRel(<, Nat), Nat)
  BY NatLessThanWellFounded
<1>2. PICK n \in T : \A k \in T : ~ (<< k, n >> \in OpToRel(<, Nat))
  BY <1>1, WFMin
<1>3. ASSUME NEW k \in T, k < n PROVE FALSE
  <2>1. << k, n >> \in Nat \X Nat
    BY <1>2
  <2>2. << k, n >>[1] < << k, n >>[2]
    BY <1>3
  <2>3. << k, n >> \in OpToRel(<, Nat)
    BY <2>1, <2>2, Zenon DEF OpToRel
  <2> QED BY <1>2, <2>3, Zenon
<1> QED BY <1>3

LEMMA Induct ==
    ASSUME NEW T, 0 \in T, \A n \in Nat : n \in T => n + 1 \in T
    PROVE  Nat \subseteq T
<1> SUFFICES ASSUME Nat \ T # {} PROVE FALSE
  OBVIOUS
<1>1. PICK n \in Nat \ T : \A k \in Nat \ T : n <= k
  BY Least
<1>2. n - 1 \in Nat
  BY <1>1
<1> QED BY <1>1, <1>2

-----------------------------------------------------------------------------
(* One sequence behind the other.                                          *)

\* f[i] is the first i members of s, one behind the other.
Chained(f, s, n) == f = [i \in 1 .. n |-> IF i = 1 THEN s[i] ELSE f[i - 1] \o s[i]]

LEMMA ChainedAt ==
    ASSUME NEW s, NEW n \in Nat, NEW f, Chained(f, s, n)
    PROVE  \A i \in 1 .. n : f[i] = IF i = 1 THEN s[i] ELSE f[i - 1] \o s[i]
<1>1. f = [i \in 1 .. n |-> IF i = 1 THEN s[i] ELSE f[i - 1] \o s[i]]
  BY DEF Chained
<1> DEFINE g == [i \in 1 .. n |-> IF i = 1 THEN s[i] ELSE f[i - 1] \o s[i]]
<1>2. \A i \in 1 .. n : g[i] = IF i = 1 THEN s[i] ELSE f[i - 1] \o s[i]
  OBVIOUS
<1>3. f = g
  BY <1>1
<1> HIDE DEF g
<1> QED BY <1>2, <1>3

LEMMA ChainedExists ==
    ASSUME NEW s, NEW n \in Nat
    PROVE  \E f : Chained(f, s, n)
<1> DEFINE T == {k \in Nat : \E f : Chained(f, s, k)}
<1>1. 0 \in T
  <2> DEFINE f == [i \in 1 .. 0 |-> s[i]]
  <2>1. f = [i \in 1 .. 0 |-> IF i = 1 THEN s[i] ELSE f[i - 1] \o s[i]]
    OBVIOUS
  <2>2. Chained(f, s, 0)
    BY <2>1 DEF Chained
  <2> HIDE DEF f
  <2> QED BY <2>2
<1>2. ASSUME NEW k \in Nat, k \in T PROVE k + 1 \in T
  <2>1. PICK f : Chained(f, s, k)
    BY <1>2
  <2> DEFINE g == [i \in 1 .. k + 1 |-> IF i <= k THEN f[i]
                     ELSE IF i = 1 THEN s[i] ELSE f[i - 1] \o s[i]]
  <2>2. \A i \in 1 .. k : g[i] = f[i]
    OBVIOUS
  <2>3. g[k + 1] = IF k + 1 = 1 THEN s[k + 1] ELSE f[k] \o s[k + 1]
    OBVIOUS
  <2>4. \A i \in 1 .. k + 1 : i - 1 \in 1 .. k \/ i = 1
    OBVIOUS
  <2>5. \A i \in 1 .. k + 1 : g[i] = IF i = 1 THEN s[i] ELSE g[i - 1] \o s[i]
    <3>1. \A i \in 1 .. k : f[i] = IF i = 1 THEN s[i] ELSE f[i - 1] \o s[i]
      BY <2>1, ChainedAt
    <3> HIDE DEF g
    <3> SUFFICES ASSUME NEW i \in 1 .. k + 1
                 PROVE  g[i] = IF i = 1 THEN s[i] ELSE g[i - 1] \o s[i]
      OBVIOUS
    <3>2. CASE i \in 1 .. k
      BY <2>2, <2>4, <3>1, <3>2
    <3>3. CASE i = k + 1
      BY <2>2, <2>3, <2>4, <3>3
    <3> QED BY <3>2, <3>3
  <2>6. DOMAIN g = 1 .. k + 1 /\ g = [i \in 1 .. k + 1 |-> g[i]]
    OBVIOUS
  <2> HIDE DEF g
  <2>7. Chained(g, s, k + 1)
    BY <2>5, <2>6 DEF Chained
  <2> QED BY <2>7
<1> HIDE DEF T
<1>3. Nat \subseteq T
  BY <1>1, <1>2, Induct
<1> QED BY <1>3 DEF T

SameTo(s, t, n) == \A i \in 1 .. n : s[i] = t[i]

\* The chain of a sequence begins with the chains of its beginnings.
LEMMA ChainedAgree ==
    ASSUME NEW n \in Nat, NEW k \in Nat, n <= k,
           NEW s, NEW t, SameTo(s, t, n),
           NEW f, Chained(f, s, n), NEW g, Chained(g, t, k)
    PROVE  SameTo(f, g, n)
<1>1. /\ \A i \in 1 .. n : f[i] = IF i = 1 THEN s[i] ELSE f[i - 1] \o s[i]
      /\ \A i \in 1 .. k : g[i] = IF i = 1 THEN t[i] ELSE g[i - 1] \o t[i]
  BY ChainedAt
<1> DEFINE T == {i \in Nat : i \in 1 .. n => f[i] = g[i]}
<1>2. 0 \in T
  OBVIOUS
<1>3. ASSUME NEW i \in Nat, i \in T PROVE i + 1 \in T
  <2> SUFFICES ASSUME i + 1 \in 1 .. n PROVE f[i + 1] = g[i + 1]
    OBVIOUS
  <2>1. i + 1 \in 1 .. k /\ s[i + 1] = t[i + 1]
    BY DEF SameTo
  <2>2. CASE i = 0
    BY <1>1, <2>1, <2>2
  <2>3. CASE i # 0
    <3>1. i \in 1 .. n /\ (i + 1) - 1 = i /\ i + 1 # 1
      BY <2>3
    <3>2. f[i] = g[i]
      BY <1>3, <3>1
    <3> QED BY <1>1, <2>1, <3>1, <3>2
  <2> QED BY <2>2, <2>3
<1> HIDE DEF T
<1>4. Nat \subseteq T
  BY <1>2, <1>3, Induct
<1> QED BY <1>4 DEF T, SameTo

\* FlattenSeq is the end of that chain.
LEMMA FlattenIs ==
    ASSUME NEW s, Len(s) \in Nat, Len(s) # 0
    PROVE  \E f : Chained(f, s, Len(s)) /\ FlattenSeq(s) = f[Len(s)]
<1> DEFINE n == Len(s)
           F == CHOOSE f : f = [i \in 1 .. n |-> IF i = 1 THEN s[i] ELSE f[i - 1] \o s[i]]
<1>1. FlattenSeq(s) = F[n]
  BY DEF FlattenSeq
<1>2. \E f : Chained(f, s, n)
  BY ChainedExists
<1>3. Chained(F, s, n)
  BY <1>2 DEF Chained
<1> HIDE DEF F
<1> QED BY <1>1, <1>3

LEMMA FlattenNone == ASSUME NEW s, Len(s) = 0 PROVE FlattenSeq(s) = s
BY DEF FlattenSeq

\* What more there is in t than in s comes last.
LEMMA FlattenMore ==
    ASSUME NEW n \in Nat, NEW s, Len(s) = n, NEW t, Len(t) = n + 1,
           SameTo(s, t, n)
    PROVE  FlattenSeq(t) = IF n = 0 THEN t[1] ELSE FlattenSeq(s) \o t[n + 1]
<1>1. PICK g : Chained(g, t, n + 1) /\ FlattenSeq(t) = g[n + 1]
  BY FlattenIs
<1>2. g[n + 1] = IF n + 1 = 1 THEN t[n + 1] ELSE g[n] \o t[n + 1]
  BY <1>1, ChainedAt
<1>3. CASE n = 0
  BY <1>1, <1>2, <1>3
<1>4. CASE n # 0
  <2>1. PICK f : Chained(f, s, n) /\ FlattenSeq(s) = f[n]
    BY <1>4, FlattenIs
  <2>2. Chained(f, s, n) /\ Chained(g, t, n + 1) /\ n + 1 \in Nat /\ n <= n + 1
    BY <1>1, <2>1
  <2>3. SameTo(f, g, n)
    <3> DEFINE k == n + 1
    <3>1. k \in Nat /\ n <= k /\ Chained(g, t, k)
      BY <2>2
    <3> HIDE DEF k
    <3> QED BY <2>2, <3>1, ChainedAgree
  <2>4. FlattenSeq(t) = g[n] \o t[n + 1]
    <3>1. n + 1 # 1
      BY <1>4
    <3> QED BY <1>1, <1>2, <3>1
  <2>5. FlattenSeq(s) = f[n] /\ n \in 1 .. n
    BY <1>4, <2>1
  <2> QED BY <1>4, <2>3, <2>4, <2>5 DEF SameTo
<1> QED BY <1>3, <1>4

LEMMA FlattenType ==
    ASSUME NEW S, NEW s, Len(s) \in Nat, \A i \in 1 .. Len(s) : s[i] \in Seq(S),
           Len(s) = 0 => s = << >>
    PROVE  FlattenSeq(s) \in Seq(S)
<1>1. CASE Len(s) = 0
  <2>1. FlattenSeq(s) = s /\ s = << >>
    BY <1>1, FlattenNone
  <2> QED BY <2>1, EmptySeq
<1>2. CASE Len(s) # 0
  <2>1. PICK f : Chained(f, s, Len(s)) /\ FlattenSeq(s) = f[Len(s)]
    BY <1>2, FlattenIs
  <2>2. \A i \in 1 .. Len(s) : f[i] = IF i = 1 THEN s[i] ELSE f[i - 1] \o s[i]
    BY <2>1, ChainedAt
  <2> DEFINE T == {i \in Nat : i \in 1 .. Len(s) => f[i] \in Seq(S)}
  <2>3. 0 \in T
    OBVIOUS
  <2>4. ASSUME NEW i \in Nat, i \in T PROVE i + 1 \in T
    <3> SUFFICES ASSUME i + 1 \in 1 .. Len(s) PROVE f[i + 1] \in Seq(S)
      OBVIOUS
    <3>1. CASE i = 0
      BY <2>2, <3>1
    <3>2. CASE i # 0
      <4>1. i \in 1 .. Len(s) /\ (i + 1) - 1 = i /\ i + 1 # 1
        BY <3>2
      <4>2. f[i] \in Seq(S) /\ s[i + 1] \in Seq(S)
        BY <2>4, <4>1
      <4>3. f[i + 1] = f[i] \o s[i + 1]
        BY <2>2, <4>1
      <4> QED BY <4>2, <4>3, ConcatProperties
    <3> QED BY <3>1, <3>2
  <2> HIDE DEF T
  <2>5. Nat \subseteq T
    BY <2>3, <2>4, Induct
  <2> QED BY <1>2, <2>1, <2>5 DEF T
<1> QED BY <1>1, <1>2

-----------------------------------------------------------------------------
(* What the caller's containers have to do with the machine.               *)

\* The outermost frame is the payload itself.
Kinds == {LIST, MAP, BSTR}
FrameType == [kind : Kinds \cup {SIMPLE}, header : Seq(Cell), size_hint : Nat,
              body : Seq(Cell), elems : Nat, usable : BOOLEAN]

Cells(f) == f.header \o f.body

\* What the first k containers of the caller are in the payload.
Outer(frames, k) == FlattenSeq([i \in 1 .. k |-> Cells(frames[i])])

\* The bytes at an address, and those of the section in use.
Stretch(bytes, from, len) == [i \in 1 .. len |-> bytes[from + i - 1]]
InPayload(mc)             == Stretch(mc.bytes, 0, mc.state.payload)

\* The container keeps a backup.
Backed(can, f) == f.kind = BSTR \/ (can /\ f.kind \in {LIST, MAP})

\* What is counted is what the caller has put into its list or map.
CountsFor(can, c, f) ==
    can /\ f.kind \in {LIST, MAP} /\ f.usable => c.elem_count = f.elems

\* The header at the start of an open list or map.
Reserved(can, f) ==
    f.usable /\ f.kind \in {LIST, MAP} =>
        f.header = IF can THEN Header(f.kind, f.size_hint)
                   ELSE HeaderByte(f.kind, INDEFINITE)

\* The backup b was taken where the caller's container k begins, after so many
\* bytes in earlier sections.
Begins(can, b, frames, k, before) ==
    /\ CountsFor(can, b, frames[k - 1])
    /\ ~b.payload_moved =>
         /\ before + b.payload = Len(Outer(frames, k - 1))
         /\ frames[k].kind = BSTR =>
              frames[k].header = Header(BSTR, zcbor_remaining_str_len(b))

\* Each container that keeps a backup has one, in the order of the containers.
Owned(can, owner, list, frames, before) ==
    /\ owner \in [1 .. Len(list) -> 2 .. Len(frames)]
    /\ \A i, j \in 1 .. Len(list) : i < j => owner[i] < owner[j]
    /\ \A k \in 2 .. Len(frames) :
          Backed(can, frames[k]) <=> \E i \in 1 .. Len(list) : owner[i] = k
    /\ \A i \in 1 .. Len(list) : Begins(can, list[i], frames, owner[i], before)

Owning(can, list, frames, before) == \E owner : Owned(can, owner, list, frames, before)

Framed(can, frames) ==
    /\ frames \in Seq(FrameType) /\ frames # << >>
    /\ frames[1].kind = SIMPLE
    /\ \A k \in 2 .. Len(frames) : frames[k].kind \in Kinds
    /\ \A k \in 1 .. Len(frames) : Reserved(can, frames[k])

\* The machine, behind what was sent before, is what the caller has put into
\* frames.  A machine that refuses every call may have lost track of its backups.
Corresponds(can, before, frames, mc) ==
    /\ Framed(can, frames)
    /\ before \o InPayload(mc) = Outer(frames, Len(frames))
    /\ zcbor_check_error(mc) =>
         /\ Owning(can, mc.backup_list, frames, Len(before))
         /\ CountsFor(can, mc.state, Last(frames))

WInv ==
    /\ IInv
    /\ canonical \in BOOLEAN /\ sent \in Seq(Seq(Cell))
    /\ Corresponds(canonical, FlattenSeq(sent), asked, m)

-----------------------------------------------------------------------------
(* The caller's containers.                                                *)

LEMMA FrameFields ==
    ASSUME NEW frames \in Seq(FrameType), NEW k \in 1 .. Len(frames)
    PROVE  /\ frames[k] \in FrameType
           /\ frames[k].header \in Seq(Cell) /\ frames[k].body \in Seq(Cell)
           /\ Cells(frames[k]) \in Seq(Cell)
           /\ Len(Cells(frames[k])) = Len(frames[k].header) + Len(frames[k].body)
<1>1. frames[k] \in FrameType
  BY ElementOfSeq
<1>2. frames[k].header \in Seq(Cell) /\ frames[k].body \in Seq(Cell)
  BY <1>1 DEF FrameType
<1> QED BY <1>1, <1>2, ConcatProperties DEF Cells

LEMMA OuterType ==
    ASSUME NEW frames \in Seq(FrameType), NEW k \in 0 .. Len(frames)
    PROVE  Outer(frames, k) \in Seq(Cell) /\ Len(Outer(frames, k)) \in Nat
<1> DEFINE s == [i \in 1 .. k |-> Cells(frames[i])]
<1>1. k \in Nat /\ k <= Len(frames)
  BY LenProperties
<1>2. ASSUME NEW i \in 1 .. k PROVE Cells(frames[i]) \in Seq(Cell)
  <2>1. i \in 1 .. Len(frames)
    BY <1>1, LenProperties
  <2> QED BY <2>1, FrameFields
<1>3. s \in Seq(Seq(Cell)) /\ Len(s) = k
  <2> SUFFICES s \in [1 .. k -> Seq(Cell)]
    BY <1>1, LenProperties, SeqDef
  <2> QED BY <1>2
<1>4. \A i \in 1 .. k : s[i] \in Seq(Cell)
  BY <1>2
<1>5. k = 0 => s = << >>
  BY <1>3, EmptySeq
<1>6. Outer(frames, k) = FlattenSeq(s)
  BY DEF Outer
<1> HIDE DEF s
<1>7. FlattenSeq(s) \in Seq(Cell)
  BY <1>1, <1>3, <1>4, <1>5, FlattenType
<1> QED BY <1>6, <1>7, LenProperties

\* One container more.
LEMMA OuterMore ==
    ASSUME NEW frames \in Seq(FrameType), NEW k \in 1 .. Len(frames)
    PROVE  Outer(frames, k) = Outer(frames, k - 1) \o Cells(frames[k])
<1> DEFINE n == k - 1
           s == [i \in 1 .. n |-> Cells(frames[i])]
           t == [i \in 1 .. k |-> Cells(frames[i])]
<1> SUFFICES Outer(frames, k) = Outer(frames, n) \o Cells(frames[k])
  OBVIOUS
<1>1. n \in Nat /\ n + 1 = k /\ n \in 0 .. Len(frames) /\ k \in Nat
  BY LenProperties
<1>2. Len(s) = n /\ Len(t) = n + 1
  BY <1>1
<1>3. SameTo(s, t, n) /\ t[n + 1] = Cells(frames[k])
  BY <1>1 DEF SameTo
<1>4. Outer(frames, n) = FlattenSeq(s) /\ Outer(frames, k) = FlattenSeq(t)
  BY DEF Outer
<1>5. n = 0 => s = << >>
  BY <1>1
<1> HIDE DEF s, t, n
<1>6. FlattenSeq(t) = IF n = 0 THEN t[1] ELSE FlattenSeq(s) \o t[n + 1]
  BY <1>1, <1>2, <1>3, FlattenMore
<1>7. CASE n = 0
  <2>1. FlattenSeq(s) = << >>
    BY <1>2, <1>5, <1>7, FlattenNone
  <2>2. Cells(frames[k]) \in Seq(Cell)
    BY FrameFields
  <2>3. << >> \o Cells(frames[k]) = Cells(frames[k])
    BY <2>2, ConcatEmptySeq
  <2> QED BY <1>3, <1>4, <1>6, <1>7, <2>1, <2>3
<1>8. CASE n # 0
  BY <1>3, <1>4, <1>6, <1>8
<1> QED BY <1>7, <1>8

LEMMA OuterSame ==
    ASSUME NEW k \in Nat, NEW frames, NEW gs, SameTo(frames, gs, k)
    PROVE  \A i \in 0 .. k : Outer(gs, i) = Outer(frames, i)
<1> SUFFICES ASSUME NEW i \in 0 .. k PROVE Outer(gs, i) = Outer(frames, i)
  OBVIOUS
<1>1. [j \in 1 .. i |-> Cells(gs[j])] = [j \in 1 .. i |-> Cells(frames[j])]
  <2>1. \A j \in 1 .. i : frames[j] = gs[j]
    BY DEF SameTo
  <2> QED BY <2>1
<1> QED BY <1>1 DEF Outer

\* The caller puts more into its innermost container, or cannot use it any more.
Changed(fs, ds) ==
    LET n == Len(fs) IN
    /\ ds \in Seq(FrameType) /\ ds # << >> /\ Len(ds) = n
    /\ SameTo(fs, ds, n - 1)
    /\ ds[n].kind = fs[n].kind /\ ds[n].header = fs[n].header
    /\ ds[n].size_hint = fs[n].size_hint /\ (ds[n].usable => fs[n].usable)

LEMMA FrameBounds ==
    ASSUME NEW fs, fs \in Seq(FrameType), fs # << >>
    PROVE  /\ Len(fs) \in Nat \ {0} /\ Len(fs) \in 1 .. Len(fs)
           /\ fs[Len(fs)] \in FrameType /\ Last(fs) = fs[Len(fs)]
           /\ Len(fs) - 1 \in Nat /\ Len(fs) - 1 \in 0 .. Len(fs)
<1>1. Len(fs) \in Nat \ {0}
  BY EmptySeq
<1>2. Len(fs) \in 1 .. Len(fs)
  BY <1>1
<1> QED BY <1>1, <1>2, ElementOfSeq DEF Last

LEMMA ChangedFramed ==
    ASSUME NEW can, NEW fs, Framed(can, fs), NEW ds, Changed(fs, ds)
    PROVE  Framed(can, ds)
<1> DEFINE n == Len(fs)
<1>1. n \in Nat \ {0} /\ Len(ds) = n
  BY FrameBounds DEF Framed, Changed
<1>2. \A k \in 1 .. n - 1 : ds[k] = fs[k]
  BY DEF Changed, SameTo
<1>3. ASSUME NEW k \in 1 .. n
      PROVE  ds[k].kind = fs[k].kind /\ Reserved(can, ds[k])
  <2>1. Reserved(can, fs[k])
    BY <1>3 DEF Framed
  <2>2. CASE k # n
    <3>1. k \in 1 .. n - 1
      BY <1>1, <1>3, <2>2
    <3> QED BY <1>2, <2>1, <3>1
  <2>3. CASE k = n
    BY <2>1, <2>3 DEF Changed, Reserved
  <2> QED BY <2>2, <2>3
<1>4. 1 \in 1 .. n /\ \A k \in 2 .. n : k \in 1 .. n
  BY <1>1
<1> QED BY <1>1, <1>3, <1>4 DEF Framed, Changed

\* Added, cell by cell.
LEMMA AddedFrames ==
    ASSUME NEW can, NEW fs, Framed(can, fs), NEW cells \in Seq(Cell), NEW e \in Nat
    PROVE  LET ds == Added(fs, cells, e)
               n == Len(fs)
           IN  /\ Changed(fs, ds)
               /\ ds[n].elems = fs[n].elems + e /\ ds[n].usable = fs[n].usable
               /\ Outer(ds, n) = Outer(fs, n) \o cells
<1> DEFINE ds == Added(fs, cells, e)
           n == Len(fs)
           f == fs[n]
           g == [f EXCEPT !.body = @ \o cells, !.elems = @ + e]
           front == SubSeq(fs, 1, n - 1)
<1>1. /\ n \in Nat \ {0} /\ n \in 1 .. n /\ f \in FrameType /\ Last(fs) = f /\ fs \in Seq(FrameType)
      /\ fs # << >>
  BY FrameBounds DEF Framed
<1>2. f.header \in Seq(Cell) /\ f.body \in Seq(Cell) /\ f.elems \in Nat /\ f.body \o cells \in Seq(Cell)
  BY <1>1, ConcatProperties DEF FrameType
<1>3. /\ g \in FrameType /\ g.kind = f.kind /\ g.header = f.header /\ g.usable = f.usable
      /\ g.size_hint = f.size_hint /\ g.body = f.body \o cells /\ g.elems = f.elems + e
  <2> DEFINE body == f.body \o cells
             elems == f.elems + e
  <2>1. body \in Seq(Cell) /\ elems \in Nat
    BY <1>2
  <2>2. g = [f EXCEPT !.body = body, !.elems = elems]
    BY <1>1 DEF FrameType
  <2> HIDE DEF body, elems, f, g
  <2>3. /\ g \in FrameType /\ g.kind = f.kind /\ g.header = f.header /\ g.usable = f.usable
        /\ g.size_hint = f.size_hint /\ g.body = body /\ g.elems = elems
    BY <1>1, <2>1, <2>2 DEF FrameType
  <2> QED BY <2>3 DEF body, elems
<1>4. front \in Seq(FrameType) /\ Len(front) = n - 1 /\ \A i \in 1 .. n - 1 : front[i] = fs[i]
  <2>1. \A i \in 1 .. n - 1 : fs[i] \in FrameType
    BY <1>1, ElementOfSeq
  <2>2. n \in Nat \ {0} /\ 1 \in Int /\ n - 1 \in Int
    BY <1>1
  <2> HIDE DEF n, f, g
  <2> QED BY <2>1, <2>2, SubSeqProperties
<1>5. ds = Append(front, g)
  BY <1>1 DEF Added, Front
<1> HIDE DEF front, g, ds
<1>6. /\ ds \in Seq(FrameType) /\ ds # << >> /\ Len(ds) = n
      /\ \A i \in 1 .. n - 1 : ds[i] = fs[i]
      /\ ds[n] = g
  BY <1>1, <1>3, <1>4, <1>5, AppendProperties
<1>7. SameTo(fs, ds, n - 1)
  BY <1>6 DEF SameTo
<1>8. Changed(fs, ds) /\ ds[n].elems = fs[n].elems + e /\ ds[n].usable = fs[n].usable
  BY <1>3, <1>6, <1>7 DEF Changed
<1>9. Outer(ds, n - 1) = Outer(fs, n - 1) /\ Outer(fs, n - 1) \in Seq(Cell)
  BY <1>1, <1>7, OuterSame, OuterType
<1>10. Outer(ds, n) = Outer(ds, n - 1) \o Cells(g) /\ Outer(fs, n) = Outer(fs, n - 1) \o Cells(f)
  BY <1>1, <1>6, OuterMore
<1> HIDE DEF f
<1>11. Cells(f) \in Seq(Cell) /\ Cells(g) = Cells(f) \o cells
  <2>1. (f.header \o f.body) \o cells = f.header \o (f.body \o cells)
    <3> DEFINE h == f.header
               b == f.body
    <3>1. h \in Seq(Cell) /\ b \in Seq(Cell)
      BY <1>2
    <3> HIDE DEF h, b
    <3>2. (h \o b) \o cells = h \o (b \o cells)
      BY <3>1, ConcatAssociative
    <3> QED BY <3>2 DEF h, b
  <2>2. f.header \o f.body \in Seq(Cell)
    BY <1>2, ConcatProperties
  <2> QED BY <1>3, <2>1, <2>2 DEF Cells
<1>12. Outer(ds, n) = Outer(fs, n) \o cells
  <2> DEFINE o == Outer(fs, n - 1)
             c == Cells(f)
  <2>1. o \in Seq(Cell) /\ c \in Seq(Cell)
    BY <1>9, <1>11
  <2>2. Outer(ds, n) = o \o (c \o cells) /\ Outer(fs, n) = o \o c
    BY <1>9, <1>10, <1>11
  <2> HIDE DEF o, c
  <2>3. (o \o c) \o cells = o \o (c \o cells)
    BY <2>1, ConcatAssociative
  <2> QED BY <2>2, <2>3
<1> QED BY <1>8, <1>12 DEF ds

\* A new container in the others.
LEMMA PushedFrames ==
    ASSUME NEW can, NEW fs, Framed(can, fs), NEW f \in FrameType, f.kind \in Kinds, Reserved(can, f)
    PROVE  LET ds == Append(fs, f)
               n == Len(fs)
           IN  /\ Framed(can, ds) /\ Len(ds) = n + 1 /\ SameTo(fs, ds, n) /\ ds[n + 1] = f
               /\ Outer(ds, n) = Outer(fs, n)
               /\ Outer(ds, n + 1) = Outer(fs, n) \o Cells(f)
<1> DEFINE ds == Append(fs, f)
           n == Len(fs)
<1>1. n \in Nat \ {0} /\ fs \in Seq(FrameType)
  BY FrameBounds DEF Framed
<1>2. /\ ds \in Seq(FrameType) /\ ds # << >> /\ Len(ds) = n + 1
      /\ \A i \in 1 .. n : ds[i] = fs[i]
      /\ ds[n + 1] = f
  BY <1>1, AppendProperties
<1> HIDE DEF ds
<1>3. SameTo(fs, ds, n)
  BY <1>2 DEF SameTo
<1>4. Framed(can, ds)
  <2>1. \A k \in 1 .. n + 1 : k \in 1 .. n \/ k = n + 1
    BY <1>1
  <2>2. \A k \in 1 .. n + 1 : Reserved(can, ds[k])
    BY <1>2, <2>1 DEF Framed
  <2>3. ASSUME NEW k \in 2 .. n + 1 PROVE ds[k].kind \in Kinds
    <3>1. k \in 2 .. n \/ k = n + 1
      BY <1>1
    <3>2. k \in 2 .. n => k \in 1 .. n /\ fs[k].kind \in Kinds
      BY DEF Framed
    <3> QED BY <1>2, <3>1, <3>2
  <2>4. ds[1].kind = SIMPLE
    BY <1>1, <1>2 DEF Framed
  <2> QED BY <1>2, <2>2, <2>3, <2>4 DEF Framed
<1>5. Outer(ds, n) = Outer(fs, n)
  BY <1>1, <1>3, OuterSame
<1>6. Outer(ds, n + 1) = Outer(ds, n) \o Cells(f)
  <2>1. n + 1 \in 1 .. Len(ds) /\ (n + 1) - 1 = n
    BY <1>1, <1>2
  <2> DEFINE k == n + 1
  <2>2. k \in 1 .. Len(ds) /\ k - 1 = n /\ ds[k] = f
    BY <1>2, <2>1
  <2> HIDE DEF k
  <2>3. Outer(ds, k) = Outer(ds, n) \o Cells(f)
    BY <1>2, <2>2, OuterMore
  <2> QED BY <2>3 DEF k
<1> QED BY <1>2, <1>3, <1>4, <1>5, <1>6 DEF ds

\* The innermost container goes.
LEMMA PoppedFrames ==
    ASSUME NEW can, NEW fs, Framed(can, fs), Len(fs) > 1
    PROVE  LET ds == Front(fs)
               n == Len(fs)
           IN  /\ Framed(can, ds) /\ Len(ds) = n - 1 /\ SameTo(fs, ds, n - 1)
               /\ Outer(ds, n - 1) = Outer(fs, n - 1)
<1> DEFINE ds == Front(fs)
           n == Len(fs)
<1>1. n \in Nat /\ n > 1 /\ fs \in Seq(FrameType)
  BY FrameBounds DEF Framed
<1>2. ds \in Seq(FrameType) /\ Len(ds) = n - 1 /\ \A i \in 1 .. n - 1 : ds[i] = fs[i]
  <2>1. \A i \in 1 .. n - 1 : fs[i] \in FrameType
    BY <1>1, ElementOfSeq
  <2> QED BY <1>1, <2>1, SubSeqProperties DEF Front
<1> HIDE DEF ds
<1>3. SameTo(fs, ds, n - 1)
  BY <1>2 DEF SameTo
<1>4. ds # << >>
  <2>1. Len(ds) # 0
    BY <1>1, <1>2
  <2> QED BY <2>1, EmptySeq
<1>5. Framed(can, ds)
  <2>1. 1 \in 1 .. n - 1 /\ \A k \in 1 .. n - 1 : k \in 1 .. n
    BY <1>1
  <2>2. \A k \in 2 .. n - 1 : k \in 2 .. n /\ k \in 1 .. n - 1
    BY <1>1
  <2>3. \A k \in 1 .. n - 1 : Reserved(can, ds[k])
    BY <1>2, <2>1 DEF Framed
  <2>4. \A k \in 2 .. n - 1 : ds[k].kind \in Kinds
    BY <1>2, <2>2 DEF Framed
  <2>5. ds[1].kind = SIMPLE
    BY <1>2, <2>1 DEF Framed
  <2> QED BY <1>2, <1>4, <2>3, <2>4, <2>5 DEF Framed
<1>6. Outer(ds, n - 1) = Outer(fs, n - 1)
  BY <1>1, <1>3, OuterSame
<1> QED BY <1>2, <1>3, <1>5, <1>6 DEF ds

-----------------------------------------------------------------------------
(* Bytes.                                                                  *)

\* Two halves that are as long as each other are the same halves.
LEMMA SameHalves ==
    ASSUME NEW S, NEW a \in Seq(S), NEW b \in Seq(S), NEW c \in Seq(S), NEW d \in Seq(S),
           a \o b = c \o d, Len(a) = Len(c)
    PROVE  a = c /\ b = d
<1>1. /\ Len(a) \in Nat /\ Len(b) \in Nat /\ Len(d) \in Nat
      /\ Len(a \o b) = Len(a) + Len(b) /\ Len(c \o d) = Len(c) + Len(d)
  BY LenProperties, ConcatProperties
<1>2. Len(b) = Len(d)
  BY <1>1
<1>3. a = c
  <2>1. \A i \in 1 .. Len(a) : a[i] = (a \o b)[i] /\ c[i] = (c \o d)[i]
    BY ConcatProperties
  <2> QED BY <2>1, SeqEqual
<1>4. b = d
  <2> SUFFICES ASSUME NEW i \in 1 .. Len(b) PROVE b[i] = d[i]
    BY <1>2, SeqEqual
  <2>1. Len(a) + i \in Len(a) + 1 .. Len(a) + Len(b) /\ (Len(a) + i) - Len(a) = i
    BY <1>1
  <2> DEFINE k == Len(a) + i
  <2>2. k \in Len(a) + 1 .. Len(a) + Len(b) /\ k - Len(a) = i
    BY <2>1
  <2> HIDE DEF k
  <2>3. (a \o b)[k] = b[k - Len(a)] /\ (c \o d)[k] = d[k - Len(a)]
    BY <1>2, <2>2, ConcatProperties
  <2> QED BY <2>2, <2>3
<1> QED BY <1>3, <1>4

LEMMA StretchType ==
    ASSUME NEW bytes \in [Room -> Cell], NEW from \in Nat, NEW len \in Nat, from + len <= MaxBytes
    PROVE  /\ Stretch(bytes, from, len) \in Seq(Cell)
           /\ Len(Stretch(bytes, from, len)) = len
           /\ \A i \in 1 .. len : Stretch(bytes, from, len)[i] = bytes[from + i - 1]
<1>1. \A i \in 1 .. len : from + i - 1 \in Room
  BY InputAssumption DEF Room
<1>2. Stretch(bytes, from, len) \in [1 .. len -> Cell]
  BY <1>1 DEF Stretch
<1>3. Stretch(bytes, from, len) \in Seq(Cell) /\ Len(Stretch(bytes, from, len)) = len
  BY <1>2, FunctionSeq
<1> QED BY <1>3 DEF Stretch

\* A stretch is one beginning of it and what follows.
LEMMA StretchSplit ==
    ASSUME NEW bytes \in [Room -> Cell], NEW from \in Nat, NEW p \in Nat, NEW q \in Nat,
           from + p + q <= MaxBytes
    PROVE  Stretch(bytes, from, p + q) = Stretch(bytes, from, p) \o Stretch(bytes, from + p, q)
<1> DEFINE s == Stretch(bytes, from, p + q)
           a == Stretch(bytes, from, p)
           b == Stretch(bytes, from + p, q)
<1>1. /\ p + q \in Nat /\ from + (p + q) <= MaxBytes /\ from + p \in Nat /\ (from + p) + q <= MaxBytes
      /\ from + p <= MaxBytes
  BY InputAssumption
<1>2. s \in Seq(Cell) /\ Len(s) = p + q /\ \A i \in 1 .. p + q : s[i] = bytes[from + i - 1]
  <2> DEFINE l == p + q
  <2>1. l \in Nat /\ from + l <= MaxBytes
    BY <1>1
  <2> SUFFICES /\ Stretch(bytes, from, l) \in Seq(Cell) /\ Len(Stretch(bytes, from, l)) = l
               /\ \A i \in 1 .. l : Stretch(bytes, from, l)[i] = bytes[from + i - 1]
    OBVIOUS
  <2> HIDE DEF l
  <2> QED BY <2>1, StretchType
<1>3. a \in Seq(Cell) /\ Len(a) = p /\ \A i \in 1 .. p : a[i] = bytes[from + i - 1]
  BY <1>1, StretchType
<1>4. b \in Seq(Cell) /\ Len(b) = q /\ \A i \in 1 .. q : b[i] = bytes[(from + p) + i - 1]
  <2> DEFINE f == from + p
  <2>1. f \in Nat /\ f + q <= MaxBytes
    BY <1>1
  <2> SUFFICES /\ Stretch(bytes, f, q) \in Seq(Cell) /\ Len(Stretch(bytes, f, q)) = q
               /\ \A i \in 1 .. q : Stretch(bytes, f, q)[i] = bytes[f + i - 1]
    OBVIOUS
  <2> HIDE DEF f
  <2> QED BY <2>1, StretchType
<1> SUFFICES s = a \o b
  OBVIOUS
<1> HIDE DEF s, a, b
<1>5. /\ a \o b \in Seq(Cell) /\ Len(a \o b) = p + q
      /\ \A i \in 1 .. p + q : (a \o b)[i] = IF i <= p THEN a[i] ELSE b[i - p]
  BY <1>3, <1>4, ConcatProperties
<1>6. ASSUME NEW i \in 1 .. p + q PROVE s[i] = (a \o b)[i]
  <2>1. CASE i <= p
    <3>1. i \in 1 .. p
      BY <2>1
    <3>2. (a \o b)[i] = a[i]
      BY <1>5, <2>1
    <3> QED BY <1>2, <1>3, <3>1, <3>2
  <2>2. CASE i > p
    <3>1. i \in p + 1 .. p + q /\ i - p \in 1 .. q
      BY <2>2
    <3>2. (from + p) + (i - p) - 1 = from + i - 1
      BY <2>2
    <3>3. b[i - p] = bytes[from + i - 1]
      BY <1>4, <3>1, <3>2
    <3>4. (a \o b)[i] = b[i - p]
      BY <1>5, <2>2
    <3> QED BY <1>2, <3>3, <3>4
  <2>3. i <= p \/ i > p
    OBVIOUS
  <2> QED BY <2>1, <2>2, <2>3, Zenon
<1> QED BY <1>2, <1>5, <1>6, SeqEqual

\* The stretches before and behind so many bytes, or before an address, are as
\* they were.
SameOutside(w, bytes, at, n) ==
    \A from, len \in Nat :
        /\ from + len <= MaxBytes
        /\ from + len <= at \/ from >= at + n
        => Stretch(w, from, len) = Stretch(bytes, from, len)

SameBelow(w, bytes, to) ==
    \A from, len \in Nat : from + len <= to => Stretch(w, from, len) = Stretch(bytes, from, len)

\* What is written is there afterwards; the rest is as it was.
LEMMA StretchWritten ==
    ASSUME NEW bytes \in [Room -> Cell], NEW at \in Nat, NEW cells \in Seq(Cell),
           at + Len(cells) <= MaxBytes
    PROVE  LET w == Written(bytes, at, cells) IN
           /\ w \in [Room -> Cell]
           /\ Stretch(w, at, Len(cells)) = cells
           /\ SameOutside(w, bytes, at, Len(cells))
<1> DEFINE w == Written(bytes, at, cells)
           n == Len(cells)
<1>1. n \in Nat /\ DOMAIN cells = 1 .. n
  BY LenProperties
<1>2. w \in [Room -> Cell]
  BY InputAssumption, WrittenType
<1>3. \A a \in Room : w[a] = IF a - at + 1 \in 1 .. n THEN cells[a - at + 1] ELSE bytes[a]
  BY <1>1 DEF Written
<1>4. MaxBytes \in Nat /\ Room = 0 .. MaxBytes + 9
  BY InputAssumption DEF Room
<1> HIDE DEF w
<1>5. Stretch(w, at, n) = cells
  <2>1. ASSUME NEW i \in 1 .. n PROVE w[at + i - 1] = cells[i]
    <3>1. at + i - 1 \in Room /\ (at + i - 1) - at + 1 = i
      BY <1>1, <1>4
    <3> DEFINE a == at + i - 1
    <3>2. a \in Room /\ a - at + 1 = i
      BY <3>1
    <3> HIDE DEF a
    <3>3. w[a] = cells[i]
      BY <1>3, <3>2
    <3> QED BY <3>3 DEF a
  <2>2. Stretch(w, at, n) \in Seq(Cell) /\ Len(Stretch(w, at, n)) = n
    BY <1>1, <1>2, StretchType
  <2>3. \A i \in 1 .. n : Stretch(w, at, n)[i] = cells[i]
    BY <2>1 DEF Stretch
  <2> QED BY <1>1, <2>2, <2>3, SeqEqual
<1>6. ASSUME NEW from \in Nat, NEW len \in Nat, from + len <= MaxBytes,
             from + len <= at \/ from >= at + n
      PROVE  Stretch(w, from, len) = Stretch(bytes, from, len)
  <2>1. ASSUME NEW i \in 1 .. len PROVE w[from + i - 1] = bytes[from + i - 1]
    <3>1. from + i - 1 \in Room /\ ~((from + i - 1) - at + 1 \in 1 .. n)
      BY <1>1, <1>4, <1>6
    <3> DEFINE a == from + i - 1
    <3>2. a \in Room /\ ~(a - at + 1 \in 1 .. n)
      BY <3>1
    <3> HIDE DEF a
    <3>3. w[a] = bytes[a]
      BY <1>3, <3>2
    <3> QED BY <3>3 DEF a
  <2> QED BY <2>1 DEF Stretch
<1> QED BY <1>2, <1>5, <1>6 DEF w, SameOutside

\* So is what is moved; nothing before it is touched.
LEMMA StretchMoved ==
    ASSUME NEW bytes \in [Room -> Cell], NEW to \in Nat, NEW from \in Nat, NEW len \in Nat,
           to + len <= MaxBytes, from + len <= MaxBytes
    PROVE  LET w == Memmove(bytes, to, from, len) IN
           /\ w \in [Room -> Cell]
           /\ Stretch(w, to, len) = Stretch(bytes, from, len)
           /\ SameBelow(w, bytes, to)
<1> DEFINE w == Memmove(bytes, to, from, len)
<1>1. w \in [Room -> Cell]
  BY InputAssumption, MovedType
<1>2. \A a \in Room : w[a] = IF a \in to .. to + len - 1 THEN bytes[a - to + from] ELSE bytes[a]
  BY DEF Memmove
<1>3. MaxBytes \in Nat /\ Room = 0 .. MaxBytes + 9
  BY InputAssumption DEF Room
<1> HIDE DEF w
<1>4. ASSUME NEW i \in 1 .. len PROVE w[to + i - 1] = bytes[from + i - 1]
  <2>1. /\ to + i - 1 \in Room /\ to + i - 1 \in to .. to + len - 1
        /\ (to + i - 1) - to + from = from + i - 1
    BY <1>3
  <2> DEFINE a == to + i - 1
  <2>2. a \in Room /\ a \in to .. to + len - 1 /\ a - to + from = from + i - 1
    BY <2>1
  <2> HIDE DEF a
  <2>3. w[a] = bytes[from + i - 1]
    BY <1>2, <2>2
  <2> QED BY <2>3 DEF a
<1>5. ASSUME NEW f \in Nat, NEW l \in Nat, f + l <= to
      PROVE  Stretch(w, f, l) = Stretch(bytes, f, l)
  <2>1. ASSUME NEW i \in 1 .. l PROVE w[f + i - 1] = bytes[f + i - 1]
    <3>1. f + i - 1 \in Room /\ ~(f + i - 1 \in to .. to + len - 1)
      BY <1>3, <1>5
    <3> DEFINE a == f + i - 1
    <3>2. a \in Room /\ ~(a \in to .. to + len - 1)
      BY <3>1
    <3> HIDE DEF a
    <3>3. w[a] = bytes[a]
      BY <1>2, <3>2
    <3> QED BY <3>3 DEF a
  <2> QED BY <2>1 DEF Stretch
<1>6. Stretch(w, to, len) = Stretch(bytes, from, len)
  BY <1>4 DEF Stretch
<1> QED BY <1>1, <1>5, <1>6 DEF w, SameBelow

\* The payload is after, cells long, what it was before.
LEMMA PayloadGrows ==
    ASSUME NEW bytes \in [Room -> Cell], NEW w \in [Room -> Cell], NEW at \in Nat,
           NEW cells \in Seq(Cell), at + Len(cells) <= MaxBytes,
           Stretch(w, at, Len(cells)) = cells, Stretch(w, 0, at) = Stretch(bytes, 0, at)
    PROVE  Stretch(w, 0, at + Len(cells)) = Stretch(bytes, 0, at) \o cells
<1> DEFINE n == Len(cells)
           o == 0
<1>1. n \in Nat /\ o \in Nat /\ o + at + n <= MaxBytes /\ o + at = at
  BY LenProperties
<1> SUFFICES Stretch(w, o, at + n) = Stretch(w, o, at) \o Stretch(w, at, n)
  OBVIOUS
<1> HIDE DEF n, o
<1>2. Stretch(w, o, at + n) = Stretch(w, o, at) \o Stretch(w, o + at, n)
  BY <1>1, StretchSplit
<1> QED BY <1>1, <1>2

-----------------------------------------------------------------------------
(* The lengths of headers.                                                 *)

\* Longer headers begin a limit later.
LEMMA LimitsApart ==
    /\ Len(HeaderLimits) \in 0 .. 4
    /\ \A i \in 1 .. Len(HeaderLimits) : HeaderLimits[i] \in Nat
    /\ \A i \in 1 .. Len(HeaderLimits) : \A j \in 1 .. Len(HeaderLimits) :
         i < j => HeaderLimits[i] + HeaderBytes[j + 1] - 1 <= HeaderLimits[j]
<1> DEFINE n == Len(HeaderLimits)
<1>1. n \in 0 .. 4 /\ \A i \in 1 .. n : HeaderLimits[i] \in Nat
  <2>1. HeaderLimits \in Seq(Nat \ {0}) /\ n <= 4 /\ n \in Nat
    BY LimitAssumption
  <2>2. \A i \in 1 .. n : HeaderLimits[i] \in Nat \ {0}
    BY <2>1, ElementOfSeq
  <2>3. n \in 0 .. 4
    <3> HIDE DEF n
    <3> QED BY <2>1
  <2> QED BY <2>2, <2>3
<1>2. \A i \in 1 .. n - 1 : HeaderLimits[i + 1] - HeaderLimits[i] >= HeaderBytes[i + 2] - 1
  BY LimitAssumption
<1>3. n >= 2 => HeaderLimits[2] - HeaderLimits[1] >= 2
  BY <1>1, <1>2 DEF HeaderBytes
<1>4. n >= 3 => HeaderLimits[3] - HeaderLimits[2] >= 4
  BY <1>1, <1>2 DEF HeaderBytes
<1>5. n >= 4 => HeaderLimits[4] - HeaderLimits[3] >= 8
  BY <1>1, <1>2 DEF HeaderBytes
<1>6. /\ n >= 1 => HeaderLimits[1] \in Nat
      /\ n >= 2 => HeaderLimits[2] \in Nat
      /\ n >= 3 => HeaderLimits[3] \in Nat
      /\ n >= 4 => HeaderLimits[4] \in Nat
  BY <1>1
<1>7. ASSUME NEW i \in 1 .. n, NEW j \in 1 .. n, i < j
      PROVE  HeaderLimits[i] + HeaderBytes[j + 1] - 1 <= HeaderLimits[j]
  <2>1. HeaderBytes[3] = 3 /\ HeaderBytes[4] = 5 /\ HeaderBytes[5] = 9
    BY DEF HeaderBytes
  <2>2. CASE j = 2
    <3>1. i = 1 /\ n >= 2
      BY <1>1, <1>7, <2>2
    <3> QED BY <1>3, <1>6, <2>1, <2>2, <3>1
  <2>3. CASE j = 3
    <3>1. (i = 1 \/ i = 2) /\ n >= 3
      BY <1>1, <1>7, <2>3
    <3>2. n >= 2 /\ n >= 1
      BY <1>1, <3>1
    <3> QED BY <1>3, <1>4, <1>6, <2>1, <2>3, <3>1, <3>2
  <2>4. CASE j = 4
    <3>1. (i = 1 \/ i = 2 \/ i = 3) /\ n >= 4
      BY <1>1, <1>7, <2>4
    <3>2. n >= 3 /\ n >= 2 /\ n >= 1
      BY <1>1, <3>1
    <3> DEFINE h1 == HeaderLimits[1]
               h2 == HeaderLimits[2]
               h3 == HeaderLimits[3]
               h4 == HeaderLimits[4]
    <3>3. /\ h1 \in Nat /\ h2 \in Nat /\ h3 \in Nat /\ h4 \in Nat
          /\ h2 - h1 >= 2 /\ h3 - h2 >= 4 /\ h4 - h3 >= 8
      BY <1>3, <1>4, <1>5, <1>6, <3>1, <3>2
    <3>4. HeaderBytes[j + 1] = 9 /\ HeaderLimits[j] = h4
      BY <2>1, <2>4
    <3>5. HeaderLimits[i] = h1 \/ HeaderLimits[i] = h2 \/ HeaderLimits[i] = h3
      BY <3>1
    <3> DEFINE hi == HeaderLimits[i]
    <3> HIDE DEF h1, h2, h3, h4
    <3>6. hi + 9 - 1 <= h4
      <4>1. hi = h1 \/ hi = h2 \/ hi = h3
        BY <3>5
      <4> HIDE DEF hi
      <4> QED BY ONLY <3>3, <4>1
    <3> QED BY <3>4, <3>6
  <2>5. j = 2 \/ j = 3 \/ j = 4
    BY <1>1, <1>7
  <2> QED BY <2>2, <2>3, <2>4, <2>5
<1> QED BY <1>1, <1>7

\* a limits are exceeded: the first a.
Exceeds(value, a) ==
    /\ \A i \in 1 .. a : value > HeaderLimits[i]
    /\ \A i \in 1 .. Len(HeaderLimits) : i > a => value <= HeaderLimits[i]

LEMMA HeaderLenIs ==
    ASSUME NEW value \in Int
    PROVE  \E a \in 0 .. Len(HeaderLimits) :
              Exceeds(value, a) /\ zcbor_header_len(value) = HeaderBytes[a + 1]
<1> DEFINE n == Len(HeaderLimits)
           T == {k \in 0 .. n : \A i \in 1 .. n : i > k => value <= HeaderLimits[i]}
<1>1. /\ n \in 0 .. 4 /\ \A i \in 1 .. n : HeaderLimits[i] \in Nat
      /\ \A i \in 1 .. n : \A j \in 1 .. n : i < j => HeaderLimits[i] <= HeaderLimits[j]
  <2>1. /\ n \in 0 .. 4 /\ \A i \in 1 .. n : HeaderLimits[i] \in Nat
        /\ \A i \in 1 .. n : \A j \in 1 .. n :
             i < j => HeaderLimits[i] + HeaderBytes[j + 1] - 1 <= HeaderLimits[j]
    BY LimitsApart
  <2>2. \A j \in 1 .. n : HeaderBytes[j + 1] \in Nat /\ HeaderBytes[j + 1] >= 1
    <3> SUFFICES ASSUME NEW j \in 1 .. n PROVE HeaderBytes[j + 1] \in Nat /\ HeaderBytes[j + 1] >= 1
      OBVIOUS
    <3>1. j = 1 \/ j = 2 \/ j = 3 \/ j = 4
      <4>1. n \in 0 .. 4 /\ j \in 1 .. n
        BY <2>1
      <4> HIDE DEF n
      <4> QED BY <4>1
    <3> QED BY <3>1 DEF HeaderBytes
  <2> HIDE DEF n
  <2> QED BY <2>1, <2>2
<1>2. T \subseteq Nat /\ T # {}
  <2>1. n \in T
    BY <1>1
  <2> QED BY <1>1, <2>1
<1>3. PICK a \in T : \A k \in T : a <= k
  BY <1>2, Least
<1>4. a \in 0 .. n /\ \A i \in 1 .. n : i > a => value <= HeaderLimits[i]
  OBVIOUS
<1>5. \A i \in 1 .. a : value > HeaderLimits[i]
  <2> SUFFICES ASSUME NEW i \in 1 .. a PROVE value > HeaderLimits[i]
    OBVIOUS
  <2>1. a - 1 \in 0 .. n /\ a - 1 \notin T /\ a \in 1 .. n /\ i \in 1 .. n
    <3>1. n \in 0 .. 4 /\ a \in 0 .. n /\ i \in 1 .. a
      BY <1>1, <1>4
    <3>2. \A k \in T : a <= k
      BY <1>3
    <3> HIDE DEF n, T
    <3>3. a - 1 \in 0 .. n /\ a \in 1 .. n /\ i \in 1 .. n /\ ~(a <= a - 1)
      BY <3>1
    <3> QED BY <3>2, <3>3
  <2>2. PICK j \in 1 .. n : j > a - 1 /\ ~(value <= HeaderLimits[j])
    BY <2>1
  <2>3. j = a
    BY <1>1, <1>4, <2>2
  <2>4. HeaderLimits[i] <= HeaderLimits[a] /\ HeaderLimits[i] \in Nat /\ HeaderLimits[a] \in Nat
    <3>1. i < a \/ i = a
      BY <2>1
    <3>2. HeaderLimits[i] \in Nat /\ HeaderLimits[a] \in Nat
      BY <1>1, <2>1
    <3>3. i < a => HeaderLimits[i] <= HeaderLimits[a]
      BY <1>1, <2>1
    <3> QED BY <3>1, <3>2, <3>3
  <2> QED BY <2>2, <2>3, <2>4
<1>6. {i \in DOMAIN HeaderLimits : value > HeaderLimits[i]} = 1 .. a
  <2>1. DOMAIN HeaderLimits = 1 .. n
    BY LimitAssumption
  <2>2. \A i \in 1 .. n : i \in 1 .. a <=> value > HeaderLimits[i]
    <3> SUFFICES ASSUME NEW i \in 1 .. n PROVE i \in 1 .. a <=> value > HeaderLimits[i]
      OBVIOUS
    <3>1. HeaderLimits[i] \in Nat
      BY <1>1
    <3>2. i \in 1 .. a \/ i > a
      BY <1>1, <1>4
    <3> QED BY <1>4, <1>5, <3>1, <3>2
  <2>3. 1 .. a \subseteq 1 .. n
    BY <1>1, <1>4
  <2> HIDE DEF T
  <2> QED BY <2>1, <2>2, <2>3
<1>7. Cardinality(1 .. a) = a
  <2>1. a \in Nat
    BY <1>1, <1>4
  <2>2. Cardinality(1 .. a) = IF 1 > a THEN 0 ELSE a - 1 + 1
    BY <2>1, FS_Interval
  <2> QED BY <2>1, <2>2
<1>8. zcbor_header_len(value) = HeaderBytes[1 + a]
  BY <1>6, <1>7 DEF zcbor_header_len
<1>9. 1 + a = a + 1
  BY <1>1, <1>4
<1> QED BY <1>4, <1>5, <1>8, <1>9 DEF Exceeds

LEMMA HeaderBytesAre ==
    /\ \A a \in 0 .. 4 : HeaderBytes[a + 1] \in Nat /\ HeaderBytes[a + 1] >= 1
    /\ \A a, b \in 0 .. 4 : a < b => HeaderBytes[a + 1] < HeaderBytes[b + 1]
<1>1. HeaderBytes[1] = 1 /\ HeaderBytes[2] = 2 /\ HeaderBytes[3] = 3 /\ HeaderBytes[4] = 5 /\ HeaderBytes[5] = 9
  BY DEF HeaderBytes
<1>2. \A a \in 0 .. 4 : a = 0 \/ a = 1 \/ a = 2 \/ a = 3 \/ a = 4
  OBVIOUS
<1>3. ASSUME NEW a \in 0 .. 4 PROVE HeaderBytes[a + 1] \in Nat /\ HeaderBytes[a + 1] >= 1
  BY <1>1, <1>2
<1>4. ASSUME NEW a \in 0 .. 4, NEW b \in 0 .. 4, a < b PROVE HeaderBytes[a + 1] < HeaderBytes[b + 1]
  <2>1. CASE a = 0
    BY <1>1, <1>2, <1>4, <2>1
  <2>2. CASE a = 1
    BY <1>1, <1>2, <1>4, <2>2
  <2>3. CASE a = 2
    BY <1>1, <1>2, <1>4, <2>3
  <2>4. CASE a = 3
    BY <1>1, <1>2, <1>4, <2>4
  <2>5. a # 4
    BY <1>4
  <2> QED BY <1>2, <2>1, <2>2, <2>3, <2>4, <2>5
<1> QED BY <1>3, <1>4

\* A string that fits behind its header is no longer, as to its header, than
\* the string that the header was reserved for: what moves, moves down.
LEMMA NoLongerHeader ==
    ASSUME NEW s, s.payload \in Nat, s.payload_end \in Nat, s.payload <= s.payload_end,
           NEW len \in Nat, s.payload + zcbor_header_len(len) + len <= s.payload_end
    PROVE  zcbor_header_len(len) <= zcbor_header_len(zcbor_remaining_str_len(s))
<1> DEFINE n == Len(HeaderLimits)
           max == s.payload_end - s.payload
           hmax == zcbor_header_len(max)
           min == zcbor_header_len(max - hmax)
           x == max - min
           hx == zcbor_header_len(x)
           rest == max - hx
           hlen == zcbor_header_len(len)
           hrest == zcbor_header_len(rest)
<1>1. /\ hmax \in Nat /\ min \in Nat \ {0} /\ hx \in Nat /\ hlen \in Nat \ {0} /\ hrest \in Nat
      /\ max \in Nat
  BY HeaderLen
<1>2. max # 0 /\ hlen + len <= max
  BY <1>1
<1>3. zcbor_remaining_str_len(s) = rest
  BY <1>2 DEF zcbor_remaining_str_len
<1>4. x \in Int /\ rest \in Int /\ x <= max - 1
  BY <1>1
<1> SUFFICES hlen <= hrest
  BY <1>3
<1>5. n \in 0 .. 4
  BY LimitsApart
<1>6. PICK a \in 0 .. n : Exceeds(len, a) /\ hlen = HeaderBytes[a + 1]
  BY HeaderLenIs
<1>7. PICK b \in 0 .. n : Exceeds(rest, b) /\ hrest = HeaderBytes[b + 1]
  BY <1>4, HeaderLenIs
<1>8. PICK c \in 0 .. n : Exceeds(x, c) /\ hx = HeaderBytes[c + 1]
  BY <1>4, HeaderLenIs
<1> HIDE DEF n, max, hmax, min, hx, hlen, hrest
<1>9. a \in 0 .. 4 /\ b \in 0 .. 4 /\ c \in 0 .. 4
  BY <1>5, <1>6, <1>7, <1>8
<1> SUFFICES ASSUME hlen > hrest PROVE FALSE
  BY <1>1
<1>10. b < a
  BY <1>1, <1>6, <1>7, <1>9, HeaderBytesAre
<1> DEFINE i == b + 1
<1>11. i \in 1 .. n /\ i > b /\ i <= a /\ i \in 1 .. a /\ HeaderLimits[i] \in Nat
  BY <1>5, <1>6, <1>7, <1>10, LimitsApart DEF n
<1> HIDE DEF i
<1>12. rest <= HeaderLimits[i] /\ HeaderLimits[i] < len
  <2>1. len > HeaderLimits[i]
    BY <1>6, <1>11 DEF Exceeds
  <2> HIDE DEF rest
  <2>2. rest <= HeaderLimits[i]
    BY <1>7, <1>11 DEF Exceeds, n
  <2> QED BY <1>11, <2>1, <2>2
<1>13. hlen < hx
  BY <1>1, <1>2, <1>11, <1>12
<1>14. a < c
  BY <1>1, <1>6, <1>8, <1>9, <1>13, HeaderBytesAre
<1>15. c \in 1 .. n /\ c \in 1 .. c /\ i < c /\ HeaderLimits[c] \in Nat
  BY <1>5, <1>8, <1>9, <1>11, <1>14, LimitsApart DEF n
<1>16. x > HeaderLimits[c]
  <2> HIDE DEF x
  <2> QED BY <1>8, <1>15 DEF Exceeds
<1>17. HeaderLimits[i] + hx - 1 <= HeaderLimits[c]
  BY <1>8, <1>11, <1>15, LimitsApart DEF n
<1> QED BY <1>1, <1>4, <1>11, <1>12, <1>15, <1>16, <1>17

-----------------------------------------------------------------------------
(* Which backup is whose.                                                  *)

LEMMA BeginsSame ==
    ASSUME NEW can, NEW b, NEW before, NEW fs, NEW ds, NEW k \in Nat, k >= 2,
           SameTo(fs, ds, k - 1), ds[k].kind = fs[k].kind, ds[k].header = fs[k].header,
           Begins(can, b, fs, k, before)
    PROVE  Begins(can, b, ds, k, before)
<1>1. k - 1 \in Nat /\ k - 1 \in 1 .. k - 1 /\ k - 1 \in 0 .. k - 1
  OBVIOUS
<1>2. ds[k - 1] = fs[k - 1]
  BY <1>1 DEF SameTo
<1>3. Outer(ds, k - 1) = Outer(fs, k - 1)
  <2> DEFINE n == k - 1
  <2>1. n \in Nat /\ n \in 0 .. n /\ SameTo(fs, ds, n)
    BY <1>1
  <2> SUFFICES Outer(ds, n) = Outer(fs, n)
    OBVIOUS
  <2> HIDE DEF n
  <2> QED BY <2>1, OuterSame
<1> QED BY <1>2, <1>3 DEF Begins

\* The same containers keep the same backups.
LEMMA OwningChanged ==
    ASSUME NEW can, NEW list, Len(list) \in Nat, NEW before,
           NEW fs, Framed(can, fs), NEW ds, Changed(fs, ds), Owning(can, list, fs, before)
    PROVE  Owning(can, list, ds, before)
<1> DEFINE n == Len(fs)
<1>1. n \in Nat \ {0} /\ Len(ds) = n
  BY FrameBounds DEF Framed, Changed
<1>2. PICK owner : Owned(can, owner, list, fs, before)
  BY DEF Owning
<1>3. \A k \in 1 .. n - 1 : ds[k] = fs[k]
  BY DEF Changed, SameTo
<1>4. \A k \in 2 .. n : ds[k].kind = fs[k].kind /\ ds[k].header = fs[k].header
  <2> SUFFICES ASSUME NEW k \in 2 .. n
               PROVE  ds[k].kind = fs[k].kind /\ ds[k].header = fs[k].header
    OBVIOUS
  <2>1. k \in 1 .. n - 1 \/ k = n
    BY <1>1
  <2> QED BY <1>3, <2>1 DEF Changed
<1>5. ASSUME NEW i \in 1 .. Len(list) PROVE Begins(can, list[i], ds, owner[i], before)
  <2> DEFINE k == owner[i]
  <2>1. k \in 2 .. n /\ Begins(can, list[i], fs, k, before)
    BY <1>2 DEF Owned
  <2> SUFFICES Begins(can, list[i], ds, k, before)
    OBVIOUS
  <2> HIDE DEF k
  <2>2. k \in Nat /\ k >= 2
    BY <1>1, <2>1
  <2>3. SameTo(fs, ds, k - 1)
    <3>1. \A j \in 1 .. k - 1 : j \in 1 .. n - 1
      BY <1>1, <2>1
    <3> QED BY <1>3, <3>1 DEF SameTo
  <2> QED BY <1>4, <2>1, <2>2, <2>3, BeginsSame
<1>6. \A k \in 2 .. n : Backed(can, ds[k]) <=> Backed(can, fs[k])
  BY <1>4 DEF Backed
<1>7. Owned(can, owner, list, ds, before)
  <2>1. /\ owner \in [1 .. Len(list) -> 2 .. Len(ds)]
        /\ \A i, j \in 1 .. Len(list) : i < j => owner[i] < owner[j]
    BY <1>1, <1>2 DEF Owned
  <2>2. \A k \in 2 .. Len(ds) : Backed(can, ds[k]) <=> \E i \in 1 .. Len(list) : owner[i] = k
    BY <1>1, <1>2, <1>6 DEF Owned
  <2> QED BY <1>5, <2>1, <2>2 DEF Owned
<1> QED BY <1>7 DEF Owning

\* What is said of the containers that stay, when there is one more or less.
LEMMA StillBegins ==
    ASSUME NEW can, NEW b, NEW before, NEW fs, NEW ds, NEW n \in Nat, SameTo(fs, ds, n),
           NEW k \in 2 .. n, Begins(can, b, fs, k, before)
    PROVE  Begins(can, b, ds, k, before)
<1>1. k \in Nat /\ k >= 2
  OBVIOUS
<1>2. ds[k] = fs[k]
  BY DEF SameTo
<1>3. SameTo(fs, ds, k - 1)
  <2>1. \A j \in 1 .. k - 1 : j \in 1 .. n
    OBVIOUS
  <2> QED BY <2>1 DEF SameTo
<1> QED BY <1>1, <1>2, <1>3, BeginsSame

LEMMA SameToSym == ASSUME NEW fs, NEW ds, NEW n, SameTo(fs, ds, n) PROVE SameTo(ds, fs, n)
BY DEF SameTo

\* A container without a backup begins, or goes.
LEMMA OwningUnbacked ==
    ASSUME NEW can, NEW list, Len(list) \in Nat, NEW before,
           NEW fs, NEW n \in Nat \ {0}, Len(fs) = n,
           NEW ds, Len(ds) = n + 1, SameTo(fs, ds, n), ~Backed(can, ds[n + 1])
    PROVE  Owning(can, list, fs, before) <=> Owning(can, list, ds, before)
<1> DEFINE l == Len(list)
           k1 == n + 1
<1>1. /\ Len(ds) = k1 /\ ~Backed(can, ds[k1]) /\ k1 \notin 2 .. n /\ l \in Nat
      /\ \A k \in 2 .. k1 : k \in 2 .. n \/ k = k1
      /\ \A k \in 2 .. n : k \in 2 .. k1 /\ k \in 1 .. n
  OBVIOUS
<1>2. \A k \in 2 .. n : ds[k] = fs[k]
  BY DEF SameTo
<1> HIDE DEF k1
<1>3. ASSUME Owning(can, list, fs, before) PROVE Owning(can, list, ds, before)
  <2>1. PICK owner : Owned(can, owner, list, fs, before)
    BY <1>3 DEF Owning
  <2>2. owner \in [1 .. l -> 2 .. n] /\ \A i, j \in 1 .. l : i < j => owner[i] < owner[j]
    BY <2>1 DEF Owned
  <2>3. owner \in [1 .. l -> 2 .. k1]
    BY <1>1, <2>2
  <2>4. ASSUME NEW k \in 2 .. k1
        PROVE  Backed(can, ds[k]) <=> \E i \in 1 .. l : owner[i] = k
    <3>1. CASE k \in 2 .. n
      BY <1>2, <2>1, <3>1 DEF Owned
    <3>2. CASE k = k1
      BY <1>1, <2>2, <3>2
    <3> QED BY <1>1, <3>1, <3>2
  <2>5. ASSUME NEW i \in 1 .. l PROVE Begins(can, list[i], ds, owner[i], before)
    <3> DEFINE k == owner[i]
    <3>1. k \in 2 .. n /\ Begins(can, list[i], fs, k, before)
      BY <2>1 DEF Owned
    <3> SUFFICES Begins(can, list[i], ds, k, before)
      OBVIOUS
    <3> HIDE DEF k
    <3> QED BY <3>1, StillBegins
  <2>6. Owned(can, owner, list, ds, before)
    BY <1>1, <2>2, <2>3, <2>4, <2>5 DEF Owned
  <2> QED BY <2>6 DEF Owning
<1>4. ASSUME Owning(can, list, ds, before) PROVE Owning(can, list, fs, before)
  <2>1. PICK owner : Owned(can, owner, list, ds, before)
    BY <1>4 DEF Owning
  <2>2. owner \in [1 .. l -> 2 .. k1] /\ \A i, j \in 1 .. l : i < j => owner[i] < owner[j]
    BY <1>1, <2>1 DEF Owned
  <2>3. \A i \in 1 .. l : owner[i] # k1
    <3>1. k1 \in 2 .. k1
      <4>1. n >= 1
        OBVIOUS
      <4> QED BY <4>1 DEF k1
    <3> QED BY <1>1, <2>1, <3>1 DEF Owned
  <2>4. owner \in [1 .. l -> 2 .. n]
    BY <1>1, <2>2, <2>3
  <2>5. \A k \in 2 .. n : Backed(can, fs[k]) <=> \E i \in 1 .. l : owner[i] = k
    BY <1>1, <1>2, <2>1 DEF Owned
  <2>6. ASSUME NEW i \in 1 .. l PROVE Begins(can, list[i], fs, owner[i], before)
    <3> DEFINE k == owner[i]
    <3>1. k \in 2 .. n /\ Begins(can, list[i], ds, k, before)
      BY <2>1, <2>4 DEF Owned
    <3>2. SameTo(ds, fs, n)
      BY SameToSym
    <3> SUFFICES Begins(can, list[i], fs, k, before)
      OBVIOUS
    <3> HIDE DEF k
    <3> QED BY <3>1, <3>2, StillBegins
  <2>7. Owned(can, owner, list, fs, before)
    BY <2>2, <2>4, <2>5, <2>6 DEF Owned
  <2> QED BY <2>7 DEF Owning
<1> QED BY <1>3, <1>4

\* A container with a backup begins.
LEMMA OwningPushed ==
    ASSUME NEW can, NEW S, NEW list \in Seq(S), NEW b \in S, NEW before,
           NEW fs, NEW n \in Nat \ {0}, Len(fs) = n,
           NEW ds, Len(ds) = n + 1, SameTo(fs, ds, n), Backed(can, ds[n + 1]),
           Begins(can, b, ds, n + 1, before), Owning(can, list, fs, before)
    PROVE  Owning(can, Append(list, b), ds, before)
<1> DEFINE l == Len(list)
           l1 == l + 1
           k1 == n + 1
           more == Append(list, b)
<1>1. /\ Len(ds) = k1 /\ Backed(can, ds[k1]) /\ Begins(can, b, ds, k1, before)
      /\ k1 \notin 2 .. n /\ l \in Nat /\ k1 \in 2 .. k1
      /\ \A k \in 2 .. k1 : k \in 2 .. n \/ k = k1
      /\ \A k \in 2 .. n : k \in 2 .. k1 /\ k \in 1 .. n /\ k < k1
  BY LenProperties
<1>2. /\ \A i \in 1 .. l1 : i \in 1 .. l \/ i = l1
      /\ \A i \in 1 .. l : i \in 1 .. l1 /\ i # l1 /\ i < l1
      /\ l1 \in 1 .. l1
  BY <1>1
<1>3. \A k \in 2 .. n : ds[k] = fs[k]
  BY DEF SameTo
<1>4. /\ Len(more) = l1 /\ more[l1] = b /\ \A i \in 1 .. l : more[i] = list[i]
  BY AppendProperties
<1> HIDE DEF k1, l, l1, more
<1>5. PICK owner : Owned(can, owner, list, fs, before)
  BY DEF Owning
<1>6. owner \in [1 .. l -> 2 .. n] /\ \A i, j \in 1 .. l : i < j => owner[i] < owner[j]
  BY <1>5 DEF Owned, l
<1> DEFINE now == [i \in 1 .. l1 |-> IF i \in 1 .. l THEN owner[i] ELSE k1]
<1>7. /\ now \in [1 .. l1 -> 2 .. k1]
      /\ \A i \in 1 .. l : now[i] = owner[i] /\ now[i] \in 2 .. n
      /\ now[l1] = k1
  BY <1>1, <1>2, <1>6
<1> HIDE DEF now
<1>8. ASSUME NEW i \in 1 .. l1, NEW j \in 1 .. l1, i < j PROVE now[i] < now[j]
  <2>1. i \in 1 .. l
    BY <1>1, <1>2, <1>8 DEF l1
  <2>2. CASE j \in 1 .. l
    BY <1>6, <1>7, <1>8, <2>1, <2>2
  <2>3. CASE j = l1
    BY <1>1, <1>7, <2>1, <2>3
  <2> QED BY <1>2, <2>2, <2>3
<1>9. ASSUME NEW k \in 2 .. k1
      PROVE  Backed(can, ds[k]) <=> \E i \in 1 .. l1 : now[i] = k
  <2>1. CASE k \in 2 .. n
    <3>1. Backed(can, ds[k]) <=> \E i \in 1 .. l : owner[i] = k
      BY <1>3, <1>5, <2>1 DEF Owned, l
    <3>2. k # k1
      BY <1>1, <2>1
    <3> QED BY <1>2, <1>7, <3>1, <3>2
  <2>2. CASE k = k1
    BY <1>1, <1>2, <1>7, <2>2
  <2> QED BY <1>1, <2>1, <2>2
<1>10. ASSUME NEW i \in 1 .. l1 PROVE Begins(can, more[i], ds, now[i], before)
  <2>1. CASE i \in 1 .. l
    <3> DEFINE k == owner[i]
               c == list[i]
    <3>1. k \in 2 .. n /\ Begins(can, c, fs, k, before)
      BY <1>5, <1>6, <2>1 DEF Owned, l
    <3> SUFFICES Begins(can, c, ds, k, before)
      BY <1>4, <1>7, <2>1
    <3> HIDE DEF k, c
    <3> QED BY <3>1, StillBegins
  <2>2. CASE i = l1
    BY <1>1, <1>4, <1>7, <2>2
  <2> QED BY <1>2, <2>1, <2>2
<1>11. Owned(can, now, more, ds, before)
  BY <1>1, <1>4, <1>7, <1>8, <1>9, <1>10 DEF Owned
<1> QED BY <1>11 DEF Owning, more

\* That container goes, and its backup with it.
LEMMA OwningPopped ==
    ASSUME NEW can, NEW S, NEW list \in Seq(S), NEW before,
           NEW fs, NEW n \in Nat, n >= 2, Len(fs) = n, Backed(can, fs[n]),
           NEW ds, Len(ds) = n - 1, SameTo(fs, ds, n - 1), Owning(can, list, fs, before)
    PROVE  /\ list # << >> /\ Begins(can, list[Len(list)], fs, n, before)
           /\ Owning(can, SubSeq(list, 1, Len(list) - 1), ds, before)
<1> DEFINE l == Len(list)
           l0 == l - 1
           k0 == n - 1
           less == SubSeq(list, 1, l0)
<1>1. PICK owner : Owned(can, owner, list, fs, before)
  BY DEF Owning
<1>2. l \in Nat
  BY LenProperties
<1>3. /\ l >= 1 /\ owner[l] = n /\ Begins(can, list[l], fs, n, before)
      /\ \A i \in 1 .. l : owner[i] = n => i = l
  <2>1. owner \in [1 .. l -> 2 .. n] /\ \A i, j \in 1 .. l : i < j => owner[i] < owner[j]
    BY <1>1 DEF Owned
  <2>2. PICK i \in 1 .. l : owner[i] = n
    <3>1. n \in 2 .. n
      OBVIOUS
    <3> QED BY <1>1, <3>1 DEF Owned
  <2>3. l \in 1 .. l /\ l >= 1
    BY <1>2, <2>2
  <2>4. ASSUME NEW j \in 1 .. l, owner[j] = n PROVE j = l
    <3>1. owner[l] \in 2 .. n /\ (j < l => owner[j] < owner[l])
      BY <2>1, <2>3
    <3> QED BY <1>2, <2>4, <3>1
  <2>5. owner[l] = n
    BY <2>2, <2>4
  <2>6. Begins(can, list[l], fs, n, before)
    BY <1>1, <2>3, <2>5 DEF Owned
  <2> QED BY <2>3, <2>4, <2>5, <2>6
<1>4. list # << >>
  <2>1. l # 0
    BY <1>2, <1>3
  <2> QED BY <2>1, EmptySeq
<1>5. /\ Len(ds) = k0 /\ SameTo(fs, ds, k0) /\ k0 \in Nat
      /\ \A k \in 2 .. n : k # n => k \in 2 .. k0
      /\ \A k \in 2 .. k0 : k \in 2 .. n /\ k # n /\ k \in 1 .. k0
  OBVIOUS
<1>6. l0 \in Nat /\ \A i \in 1 .. l : (i # l => i \in 1 .. l0)
  BY <1>2, <1>3
<1>7. \A i \in 1 .. l0 : i \in 1 .. l /\ i # l
  BY <1>2
<1>8. Len(less) = l0 /\ \A i \in 1 .. l0 : less[i] = list[i]
  <2>1. \A i \in 1 .. l0 : list[i] \in S
    BY <1>7, ElementOfSeq
  <2>2. \A i \in 1 .. l0 : 1 + i - 1 = i
    BY <1>6
  <2> HIDE DEF l, l0
  <2> QED BY <1>6, <2>1, <2>2, SubSeqProperties
<1>9. owner \in [1 .. l -> 2 .. n] /\ \A i, j \in 1 .. l : i < j => owner[i] < owner[j]
  BY <1>1 DEF Owned
<1> HIDE DEF l0, k0, less
<1> DEFINE now == [i \in 1 .. l0 |-> owner[i]]
<1>10. \A i \in 1 .. l0 : owner[i] \in 2 .. k0
  <2> HIDE DEF l
  <2> QED BY <1>3, <1>5, <1>7, <1>9
<1>11. now \in [1 .. l0 -> 2 .. k0] /\ \A i \in 1 .. l0 : now[i] = owner[i]
  BY <1>10
<1> HIDE DEF now
<1>12. \A i, j \in 1 .. l0 : i < j => now[i] < now[j]
  BY <1>7, <1>9, <1>11
<1>13. \A k \in 2 .. k0 : ds[k] = fs[k]
  BY <1>5 DEF SameTo
<1>14. ASSUME NEW k \in 2 .. k0
       PROVE  Backed(can, ds[k]) <=> \E i \in 1 .. l0 : now[i] = k
  <2>1. k \in 2 .. n /\ k # n
    BY <1>5
  <2>2. Backed(can, ds[k]) <=> \E i \in 1 .. l : owner[i] = k
    BY <1>1, <1>13, <2>1 DEF Owned
  <2> HIDE DEF l
  <2>3. (\E i \in 1 .. l : owner[i] = k) <=> \E i \in 1 .. l0 : owner[i] = k
    BY <1>3, <1>6, <1>7, <2>1
  <2> QED BY <1>11, <2>2, <2>3
<1>15. ASSUME NEW i \in 1 .. l0 PROVE Begins(can, less[i], ds, now[i], before)
  <2> DEFINE k == owner[i]
             c == list[i]
  <2>1. k \in 2 .. k0 /\ Begins(can, c, fs, k, before)
    BY <1>1, <1>7, <1>10 DEF Owned
  <2> SUFFICES Begins(can, c, ds, k, before)
    BY <1>8, <1>11
  <2> HIDE DEF k, c
  <2> QED BY <1>5, <2>1, StillBegins
<1>16. Owned(can, now, less, ds, before)
  BY <1>5, <1>8, <1>11, <1>12, <1>14, <1>15 DEF Owned
<1>17. Owning(can, less, ds, before)
  BY <1>16 DEF Owning
<1> QED BY <1>3, <1>4, <1>17 DEF less, l0

\* In another section no backup says where its container begins.
LEMMA OwningMoved ==
    ASSUME NEW can, NEW list, NEW before, NEW fs, Owning(can, list, fs, before), NEW later,
           NEW more, Len(more) = Len(list),
           \A i \in 1 .. Len(list) : more[i].payload_moved /\ more[i].elem_count = list[i].elem_count
    PROVE  Owning(can, more, fs, later)
<1>1. PICK owner : Owned(can, owner, list, fs, before)
  BY DEF Owning
<1>2. ASSUME NEW i \in 1 .. Len(list) PROVE Begins(can, more[i], fs, owner[i], later)
  <2>1. CountsFor(can, list[i], fs[owner[i] - 1])
    BY <1>1 DEF Owned, Begins
  <2> QED BY <2>1 DEF Begins, CountsFor
<1>3. Owned(can, owner, more, fs, later)
  BY <1>1, <1>2 DEF Owned
<1> QED BY <1>3 DEF Owning

-----------------------------------------------------------------------------
(* What a call leaves.                                                     *)

\* Nothing, except that there may be an error now.
Idle(mc, n) ==
    /\ n.state = mc.state /\ n.backup_list = mc.backup_list /\ n.bytes = mc.bytes
    /\ zcbor_check_error(n) => zcbor_check_error(mc)

\* The payload with cells at its end, counted as so many elements.
Wrote(mc, n, cells, elems) ==
    /\ n.state.payload = mc.state.payload + Len(cells)
    /\ n.state.payload_end = mc.state.payload_end
    /\ n.state.elem_count = mc.state.elem_count + elems
    /\ n.backup_list = mc.backup_list /\ (zcbor_check_error(n) <=> zcbor_check_error(mc))
    /\ InPayload(n) = InPayload(mc) \o cells

LEMMA ErrIdle ==
    ASSUME NEW mc, Good(mc), NEW err
    PROVE  Idle(mc, Err(mc, err).m) /\ Err(mc, err).ok = FALSE
<1>1. CASE zcbor_check_error(mc)
  <2>1. Err(mc, err).m = [mc EXCEPT !.error = err]
    BY <1>1 DEF Err, Failure, zcbor_error
  <2> QED BY <1>1, <2>1, GoodType DEF Machine, Idle, Err, Failure
<1>2. CASE ~zcbor_check_error(mc)
  BY <1>2 DEF Err, Failure, zcbor_error, Idle
<1> QED BY <1>1, <1>2

LEMMA FailureIdle ==
    ASSUME NEW mc PROVE Idle(mc, Failure(mc).m) /\ Failure(mc).ok = FALSE
BY DEF Idle, Failure

\* Without an error register to say no, nothing happens.
LEMMA ErrDead ==
    ASSUME NEW mc, ~zcbor_check_error(mc), NEW err PROVE Err(mc, err) = Failure(mc)
BY DEF Err, zcbor_error

LEMMA PutWrites ==
    ASSUME NEW mc, Good(mc), NEW cells \in Seq(Cell),
           mc.state.payload + Len(cells) <= mc.state.payload_end
    PROVE  Wrote(mc, Put(mc, cells), cells, 0) /\ Put(mc, cells).bytes = Written(mc.bytes, mc.state.payload, cells)
<1> DEFINE bytes == Written(mc.bytes, mc.state.payload, cells)
           at == mc.state.payload
           put == Put(mc, cells)
<1>1. /\ at \in Nat /\ mc.bytes \in [Room -> Cell] /\ Len(cells) \in Nat
      /\ at + Len(cells) <= MaxBytes
  BY GoodType, LenProperties, InputAssumption
<1>2. /\ put.state.payload = at + Len(cells) /\ put.state.payload_end = mc.state.payload_end
      /\ put.state.elem_count = mc.state.elem_count
  BY PutGood
<1>3. /\ put.backup_list = mc.backup_list /\ put.bytes = bytes
      /\ put.error = mc.error /\ put.stop_on_error = mc.stop_on_error
  BY GoodType DEF Put, Machine, Cursor
<1>4. mc.state.elem_count + 0 = mc.state.elem_count
  BY GoodType
<1> HIDE DEF put
<1>5. InPayload(put) = InPayload(mc) \o cells
  <2>1. /\ bytes \in [Room -> Cell] /\ Stretch(bytes, at, Len(cells)) = cells
        /\ SameOutside(bytes, mc.bytes, at, Len(cells))
    <3> HIDE DEF at
    <3>1. at = mc.state.payload
      BY DEF at
    <3> QED BY <1>1, <3>1, StretchWritten
  <2>2. 0 \in Nat /\ 0 + at <= MaxBytes /\ 0 + at <= at
    BY <1>1, InputAssumption
  <2>3. Stretch(bytes, 0, at) = Stretch(mc.bytes, 0, at)
    BY <1>1, <2>1, <2>2 DEF SameOutside
  <2> HIDE DEF at, bytes
  <2>4. Stretch(bytes, 0, at + Len(cells)) = Stretch(mc.bytes, 0, at) \o cells
    BY <1>1, <2>1, <2>3, PayloadGrows
  <2> QED BY <1>2, <1>3, <2>4 DEF InPayload, at
<1> QED BY <1>2, <1>3, <1>4, <1>5 DEF Wrote, zcbor_check_error, put

LEMMA HeaderByteWrites ==
    ASSUME NEW mc, Good(mc), NEW major \in Int, NEW additional \in Int
    PROVE  LET r == encode_header_byte(mc, major, additional) IN
           /\ r.ok <=> zcbor_check_error(mc) /\ mc.state.payload < mc.state.payload_end
           /\ r.ok => Wrote(mc, r.m, HeaderByte(major, additional), 0)
           /\ ~r.ok => Idle(mc, r.m)
<1> DEFINE cells == HeaderByte(major, additional)
           r == encode_header_byte(mc, major, additional)
<1>0. mc.state.payload \in Nat /\ mc.state.payload_end \in Nat
  BY GoodType
<1>1. CASE ~zcbor_check_error(mc)
  <2>1. r = Failure(mc)
    BY <1>1 DEF encode_header_byte
  <2> QED BY <1>1, <2>1, FailureIdle
<1>2. CASE zcbor_check_error(mc) /\ mc.state.payload >= mc.state.payload_end
  <2>1. r = Err(mc, "NO_PAYLOAD")
    BY <1>2 DEF encode_header_byte
  <2>2. Idle(mc, r.m) /\ r.ok = FALSE
    BY <2>1, ErrIdle
  <2> QED BY <1>0, <1>2, <2>2
<1>3. CASE zcbor_check_error(mc) /\ ~(mc.state.payload >= mc.state.payload_end)
  <2>1. cells \in Seq(Cell) /\ Len(cells) = 1
    BY HeaderByteType
  <2>2. mc.state.payload + Len(cells) <= mc.state.payload_end
    BY <1>0, <1>3, <2>1
  <2>3. Wrote(mc, Put(mc, cells), cells, 0)
    BY <2>1, <2>2, PutWrites
  <2>4. r.ok = TRUE /\ r.m = Put(mc, cells)
    BY <1>3 DEF encode_header_byte, Success
  <2> HIDE DEF r, cells
  <2> QED BY <1>0, <1>3, <2>3, <2>4 DEF r, cells
<1> QED BY <1>1, <1>2, <1>3

\* Counting does not write.
LEMMA CountedWrites ==
    ASSUME NEW mc, NEW n, Good(n), NEW cells, NEW d \in Int, NEW e \in Int, Wrote(mc, n, cells, d),
           NEW elems, elems = d + e, mc.state.elem_count \in Int
    PROVE  Wrote(mc, [n EXCEPT !.state.elem_count = @ + e], cells, elems)
<1> DEFINE nn == [n EXCEPT !.state.elem_count = @ + e]
<1>0. n \in Machine /\ n.state \in Cursor
  BY GoodType
<1>1. /\ nn.state.payload = n.state.payload /\ nn.state.payload_end = n.state.payload_end
      /\ nn.state.elem_count = n.state.elem_count + e /\ nn.backup_list = n.backup_list
      /\ nn.bytes = n.bytes /\ nn.error = n.error /\ nn.stop_on_error = n.stop_on_error
  BY <1>0 DEF Machine, Cursor
<1> HIDE DEF nn
<1>2. (mc.state.elem_count + d) + e = mc.state.elem_count + elems
  OBVIOUS
<1> QED BY <1>1, <1>2 DEF Wrote, InPayload, zcbor_check_error, nn

LEMMA ValueWrites ==
    ASSUME NEW mc, Good(mc), NEW major \in Int, NEW value \in Int
    PROVE  LET r == value_encode(mc, major, value) IN
           /\ r.ok <=> /\ zcbor_check_error(mc)
                       /\ mc.state.payload + zcbor_header_len(value) <= mc.state.payload_end
           /\ r.ok => /\ Wrote(mc, r.m, Header(major, value), 1)
                      /\ r.m.bytes = Written(mc.bytes, mc.state.payload, Header(major, value))
           /\ ~r.ok => Idle(mc, r.m)
<1> DEFINE cells == Header(major, value)
           r == value_encode(mc, major, value)
           put == Put(mc, cells)
<1>0. /\ mc.state.payload \in Nat /\ mc.state.payload_end \in Nat /\ mc.state.elem_count \in Int
      /\ cells \in Seq(Cell) /\ Len(cells) = zcbor_header_len(value) /\ Len(cells) \in Nat
  BY GoodType, HeaderType, HeaderLen
<1>1. CASE mc.state.payload + Len(cells) > mc.state.payload_end
  <2>1. r = Err(mc, "NO_PAYLOAD")
    BY <1>1 DEF value_encode
  <2>2. Idle(mc, r.m) /\ r.ok = FALSE
    BY <2>1, ErrIdle
  <2> HIDE DEF r, cells
  <2> QED BY <1>0, <1>1, <2>2 DEF r
<1>2. CASE ~(mc.state.payload + Len(cells) > mc.state.payload_end) /\ ~zcbor_check_error(mc)
  <2>1. r = Failure(mc)
    BY <1>2 DEF value_encode
  <2>2. Idle(mc, r.m) /\ r.ok = FALSE
    BY <2>1, FailureIdle
  <2> HIDE DEF r, cells
  <2> QED BY <1>2, <2>2 DEF r
<1>3. CASE ~(mc.state.payload + Len(cells) > mc.state.payload_end) /\ zcbor_check_error(mc)
  <2>1. r.ok = TRUE /\ r.m = [put EXCEPT !.state.elem_count = @ + 1]
    BY <1>3 DEF value_encode, Success
  <2>2. mc.state.payload + Len(cells) <= mc.state.payload_end
    <3> HIDE DEF cells
    <3> QED BY <1>0, <1>3
  <2>3. Good(put) /\ Wrote(mc, put, cells, 0) /\ put.bytes = Written(mc.bytes, mc.state.payload, cells)
    BY <1>0, <2>2, PutGood, PutWrites
  <2> HIDE DEF r, put, cells
  <2>4. Wrote(mc, r.m, cells, 1)
    <3> DEFINE d == 0
               e == 1
    <3>1. /\ d \in Int /\ e \in Int /\ 1 = d + e /\ Wrote(mc, put, cells, d)
          /\ r.m = [put EXCEPT !.state.elem_count = @ + e]
      BY <2>1, <2>3
    <3> HIDE DEF d, e
    <3> QED BY <1>0, <2>3, <3>1, CountedWrites
  <2>5. r.m.bytes = put.bytes
    BY <2>1, <2>3, GoodType DEF Machine
  <2> QED BY <1>0, <1>3, <2>1, <2>2, <2>3, <2>4, <2>5 DEF r, cells
<1> QED BY <1>1, <1>2, <1>3

\* A tag is written, and no element.
LEMMA TagWrites ==
    ASSUME NEW mc, Good(mc), NEW tag \in Int
    PROVE  LET r == zcbor_tag_put(mc, tag) IN
           /\ r.ok => Wrote(mc, r.m, Header(TAG, tag), 0)
           /\ ~r.ok => Idle(mc, r.m)
<1> DEFINE v == value_encode(mc, TAG, tag)
           r == zcbor_tag_put(mc, tag)
<1>1. /\ GoodResult(v)
      /\ v.ok => Wrote(mc, v.m, Header(TAG, tag), 1)
      /\ ~v.ok => Idle(mc, v.m)
  BY ValueEncodeGood, ValueWrites DEF TAG
<1>2. CASE v.ok
  <2>1. r.ok = TRUE /\ r.m = [v.m EXCEPT !.state.elem_count = @ - 1]
    BY <1>2 DEF zcbor_tag_put, Success
  <2>2. v.m.state.elem_count - 1 = v.m.state.elem_count + (-1)
    BY <1>1, GoodType DEF GoodResult
  <2>3. r.m = [v.m EXCEPT !.state.elem_count = @ + (-1)]
    BY <2>1, <2>2
  <2> HIDE DEF v, r
  <2> DEFINE d == -1
  <2>4. d \in Int /\ 1 \in Int /\ 0 = 1 + d /\ r.m = [v.m EXCEPT !.state.elem_count = @ + d]
    BY <2>3
  <2> HIDE DEF d
  <2>5. Good(v.m) /\ Wrote(mc, v.m, Header(TAG, tag), 1) /\ mc.state.elem_count \in Int
    BY <1>1, <1>2, GoodType DEF GoodResult
  <2>6. Wrote(mc, r.m, Header(TAG, tag), 0)
    BY <2>4, <2>5, CountedWrites
  <2> QED BY <2>1, <2>6 DEF r
<1>3. CASE ~v.ok
  <2>1. r = v
    BY <1>3 DEF zcbor_tag_put
  <2> QED BY <1>1, <1>3, <2>1
<1> QED BY <1>1, <1>2, <1>3

\* What is written behind what was written.
LEMMA WroteMore ==
    ASSUME NEW mc, NEW n, Good(n), InPayload(mc) \in Seq(Cell), mc.state.payload \in Nat,
           NEW cells \in Seq(Cell), NEW e, Wrote(mc, n, cells, e),
           NEW body \in Seq(Cell), NEW bytes \in [Room -> Cell],
           n.state.payload + Len(body) <= n.state.payload_end,
           Stretch(bytes, n.state.payload, Len(body)) = body,
           Stretch(bytes, 0, n.state.payload) = InPayload(n)
    PROVE  Wrote(mc, Moved(n, bytes, n.state.payload + Len(body)), cells \o body, e)
<1> DEFINE at == n.state.payload
           to == at + Len(body)
           nn == Moved(n, bytes, to)
<1>0. /\ n \in Machine /\ n.state \in Cursor /\ at \in Nat /\ n.state.payload_end <= MaxBytes
      /\ MaxBytes \in Nat /\ n.state.payload_end \in Nat /\ n.bytes \in [Room -> Cell]
      /\ Len(body) \in Nat /\ Len(cells) \in Nat
  BY GoodType, InputAssumption, LenProperties
<1>1. /\ nn.state.payload = to /\ nn.state.payload_end = n.state.payload_end
      /\ nn.state.elem_count = n.state.elem_count /\ nn.backup_list = n.backup_list
      /\ nn.bytes = bytes /\ nn.error = n.error /\ nn.stop_on_error = n.stop_on_error
  <2> HIDE DEF to, at
  <2> QED BY <1>0 DEF Machine, Cursor, Moved
<1>2. to = mc.state.payload + Len(cells \o body)
  <2>1. Len(cells \o body) = Len(cells) + Len(body) /\ at = mc.state.payload + Len(cells)
    BY ConcatProperties DEF Wrote
  <2> HIDE DEF at
  <2> QED BY <1>0, <2>1
<1>3. Stretch(bytes, 0, to) = InPayload(n) \o body
  <2> DEFINE old == n.bytes
  <2>1. /\ at + Len(body) <= MaxBytes /\ Stretch(bytes, at, Len(body)) = body
        /\ Stretch(bytes, 0, at) = Stretch(old, 0, at)
        /\ InPayload(n) = Stretch(old, 0, at)
    BY <1>0 DEF InPayload
  <2>2. old \in [Room -> Cell] /\ bytes \in [Room -> Cell] /\ at \in Nat /\ body \in Seq(Cell)
    BY <1>0
  <2> HIDE DEF at, old
  <2>3. Stretch(bytes, 0, at + Len(body)) = Stretch(old, 0, at) \o body
    BY <2>1, <2>2, PayloadGrows
  <2> QED BY <2>1, <2>3
<1>4. InPayload(n) \o body = InPayload(mc) \o (cells \o body)
  <2> DEFINE p == InPayload(mc)
  <2>1. InPayload(n) = p \o cells
    BY DEF Wrote
  <2>2. p \in Seq(Cell) /\ cells \in Seq(Cell) /\ body \in Seq(Cell)
    OBVIOUS
  <2> HIDE DEF p
  <2>3. (p \o cells) \o body = p \o (cells \o body)
    BY <2>2, ConcatAssociative
  <2> QED BY <2>1, <2>3 DEF p
<1>5. InPayload(nn) = InPayload(mc) \o (cells \o body)
  BY <1>1, <1>3, <1>4 DEF InPayload
<1> HIDE DEF nn, to
<1>6. /\ n.state.payload_end = mc.state.payload_end /\ n.state.elem_count = mc.state.elem_count + e
      /\ n.backup_list = mc.backup_list /\ (zcbor_check_error(n) <=> zcbor_check_error(mc))
  BY DEF Wrote
<1>7. zcbor_check_error(nn) <=> zcbor_check_error(n)
  BY <1>1 DEF zcbor_check_error
<1>8. Wrote(mc, nn, cells \o body, e)
  BY <1>1, <1>2, <1>5, <1>6, <1>7 DEF Wrote
<1> QED BY <1>8 DEF nn, to

LEMMA PayloadType ==
    ASSUME NEW mc, Good(mc)
    PROVE  InPayload(mc) \in Seq(Cell) /\ Len(InPayload(mc)) = mc.state.payload
<1> DEFINE z == 0
           p == mc.state.payload
<1>1. mc.bytes \in [Room -> Cell] /\ z \in Nat /\ p \in Nat /\ z + p <= MaxBytes
  BY GoodType, InputAssumption
<1> SUFFICES Stretch(mc.bytes, z, p) \in Seq(Cell) /\ Len(Stretch(mc.bytes, z, p)) = p
  BY DEF InPayload
<1> HIDE DEF z, p
<1> QED BY <1>1, StretchType

\* The string follows its header; one that is in the payload already must not
\* begin before that.
LEMMA StringWrites ==
    ASSUME NEW mc, Good(mc), NEW value \in Int, NEW len \in Int, NEW major \in Int,
           value = External \/ (value \in Nat /\ value + len <= mc.state.payload_end)
    PROVE  LET r == str_encode(mc, value, len, major)
               body == IF value = External THEN Content(len) ELSE Stretch(mc.bytes, value, len)
           IN
           /\ r.ok <=> /\ zcbor_check_error(mc) /\ len >= 0
                       /\ mc.state.payload + zcbor_header_len(len) + len <= mc.state.payload_end
           /\ r.ok /\ (value # External => mc.state.payload + zcbor_header_len(len) <= value)
                => Wrote(mc, r.m, Header(major, len) \o body, 1)
           /\ ~r.ok => Idle(mc, r.m)
<1> DEFINE h     == value_encode(mc, major, len)
           at    == h.m.state.payload
           bytes == IF value = External THEN Written(h.m.bytes, at, Content(len))
                    ELSE Memmove(h.m.bytes, at, value, len)
           done  == [h.m EXCEPT !.bytes = bytes, !.state.payload = @ + len]
           r     == str_encode(mc, value, len, major)
           cells == Header(major, len)
           body  == IF value = External THEN Content(len) ELSE Stretch(mc.bytes, value, len)
           p     == mc.state.payload
           end   == mc.state.payload_end
           hl    == zcbor_header_len(len)
<1>1. /\ p \in Nat /\ end \in Nat /\ end <= MaxBytes /\ MaxBytes \in Nat /\ mc.bytes \in [Room -> Cell]
      /\ hl \in Nat /\ hl >= 1 /\ cells \in Seq(Cell) /\ Len(cells) = hl
  <2>1. hl \in Nat \ {0}
    BY HeaderLen
  <2>2. cells \in Seq(Cell) /\ Len(cells) = hl
    BY HeaderType
  <2>3. p \in Nat /\ end \in Nat /\ end <= MaxBytes /\ MaxBytes \in Nat /\ mc.bytes \in [Room -> Cell]
    BY GoodType, InputAssumption
  <2> HIDE DEF hl, cells, p, end
  <2> QED BY <2>1, <2>2, <2>3
<1>2. /\ GoodResult(h)
      /\ h.ok <=> zcbor_check_error(mc) /\ p + hl <= end
      /\ h.ok => Wrote(mc, h.m, cells, 1) /\ h.m.bytes = Written(mc.bytes, p, cells)
      /\ ~h.ok => Idle(mc, h.m)
  BY ValueEncodeGood, ValueWrites
<1>3. r = IF p >= end THEN Err(mc, "NO_PAYLOAD")
          ELSE IF len < 0 \/ p + hl + len > end THEN Err(mc, "NO_PAYLOAD")
          ELSE IF ~h.ok THEN h ELSE Success(done)
  BY DEF str_encode
<1> SUFFICES /\ r.ok <=> zcbor_check_error(mc) /\ len >= 0 /\ p + hl + len <= end
             /\ r.ok /\ (value # External => p + hl <= value) => Wrote(mc, r.m, cells \o body, 1)
             /\ ~r.ok => Idle(mc, r.m)
  OBVIOUS
<1> HIDE DEF r, h, cells, p, end, hl
<1>4. CASE p >= end \/ len < 0 \/ p + hl + len > end
  <2>1. Idle(mc, r.m) /\ r.ok = FALSE
    BY <1>3, <1>4, ErrIdle
  <2>2. ~(len >= 0 /\ p + hl + len <= end)
    BY <1>1, <1>4
  <2> QED BY <2>1, <2>2
<1>5. CASE ~(p >= end \/ len < 0 \/ p + hl + len > end)
  <2>1. r = IF ~h.ok THEN h ELSE Success(done)
    BY <1>3, <1>5
  <2>2. len \in Nat /\ p + hl + len <= end /\ p + hl <= end
    BY <1>1, <1>5
  <2>3. CASE ~h.ok
    BY <1>2, <2>1, <2>2, <2>3
  <2>4. CASE h.ok
    <3>1. r.ok = TRUE /\ r.m = done
      BY <2>1, <2>4, ResultGood DEF Success
    <3>2. Good(h.m) /\ at = p + hl /\ h.m.state.payload_end = end /\ h.m.bytes = Written(mc.bytes, p, cells)
      BY <1>1, <1>2, <2>4 DEF GoodResult, Wrote, p, end
    <3>3. /\ at \in Nat /\ at + len <= end /\ at + len <= MaxBytes /\ h.m.bytes \in [Room -> Cell]
          /\ h.m \in Machine /\ h.m.state \in Cursor /\ 0 + at <= at /\ at <= MaxBytes
      BY <1>1, <2>2, <3>2, GoodType
    <3> HIDE DEF done
    <3>4. ASSUME value # External => p + hl <= value
          PROVE  Wrote(mc, r.m, cells \o body, 1)
      <4>1. /\ body \in Seq(Cell) /\ Len(body) = len /\ bytes \in [Room -> Cell]
            /\ Stretch(bytes, at, len) = body
            /\ Stretch(bytes, 0, at) = Stretch(h.m.bytes, 0, at)
        <5> HIDE DEF at
        <5>1. CASE value = External
          <6>1. body = Content(len) /\ bytes = Written(h.m.bytes, at, body)
            BY <5>1
          <6>2. body \in Seq(Cell) /\ Len(body) = len
            BY <2>2, <6>1, ContentType
          <6> HIDE DEF body, bytes
          <6>3. /\ bytes \in [Room -> Cell] /\ Stretch(bytes, at, len) = body
                /\ SameOutside(bytes, h.m.bytes, at, len)
            <7> DEFINE old == h.m.bytes
            <7>1. old \in [Room -> Cell] /\ at \in Nat /\ at + Len(body) <= MaxBytes /\ bytes = Written(old, at, body)
              BY <3>3, <6>1, <6>2
            <7> HIDE DEF old
            <7>2. /\ bytes \in [Room -> Cell] /\ Stretch(bytes, at, Len(body)) = body
                  /\ SameOutside(bytes, old, at, Len(body))
              BY <6>2, <7>1, StretchWritten
            <7> QED BY <6>2, <7>2 DEF old
          <6>4. 0 \in Nat /\ 0 + at <= MaxBytes
            BY <3>3
          <6> QED BY <3>3, <6>2, <6>3, <6>4 DEF SameOutside
        <5>2. CASE value # External
          <6>1. body = Stretch(mc.bytes, value, len) /\ bytes = Memmove(h.m.bytes, at, value, len)
            BY <5>2
          <6>2. value \in Nat /\ value + len <= MaxBytes /\ value >= p + Len(cells) /\ p + Len(cells) <= MaxBytes
            BY <1>1, <2>2, <3>4, <5>2 DEF end
          <6>3. body \in Seq(Cell) /\ Len(body) = len
            BY <1>1, <2>2, <6>1, <6>2, StretchType
          <6> HIDE DEF body, bytes
          <6>4. Stretch(h.m.bytes, value, len) = body
            <7>1. SameOutside(h.m.bytes, mc.bytes, p, Len(cells))
              BY <1>1, <3>2, <6>2, StretchWritten
            <7> QED BY <2>2, <6>1, <6>2, <7>1 DEF SameOutside
          <6>5. /\ bytes \in [Room -> Cell] /\ Stretch(bytes, at, len) = Stretch(h.m.bytes, value, len)
                /\ SameBelow(bytes, h.m.bytes, at)
            BY <2>2, <3>3, <6>1, <6>2, StretchMoved
          <6>6. 0 \in Nat
            OBVIOUS
          <6> QED BY <3>3, <6>3, <6>4, <6>5, <6>6 DEF SameBelow
        <5> QED BY <5>1, <5>2
      <4> HIDE DEF body, bytes
      <4>2. done = Moved(h.m, bytes, at + Len(body))
        BY <3>3, <4>1 DEF done, Moved, Machine, Cursor
      <4>3. /\ InPayload(mc) \in Seq(Cell) /\ mc.state.payload \in Nat /\ Wrote(mc, h.m, cells, 1)
            /\ h.m.state.payload + Len(body) <= h.m.state.payload_end
            /\ Stretch(bytes, h.m.state.payload, Len(body)) = body
            /\ Stretch(bytes, 0, h.m.state.payload) = InPayload(h.m)
        BY <1>2, <2>4, <3>2, <3>3, <4>1, PayloadType, GoodType DEF InPayload
      <4>4. Wrote(mc, Moved(h.m, bytes, h.m.state.payload + Len(body)), cells \o body, 1)
        BY <1>1, <3>2, <4>1, <4>3, WroteMore
      <4> QED BY <3>1, <4>2, <4>4
    <3> QED BY <1>2, <2>2, <2>4, <3>1, <3>4
  <2> QED BY <2>3, <2>4
<1> QED BY <1>4, <1>5

\* The backup that is taken where a container starts.
Start(mc) == [mc.state EXCEPT !.payload_moved = FALSE,
                              !.decode_state.elem_state_backed_up = FALSE]

LEMMA StartIs ==
    ASSUME NEW mc, Good(mc)
    PROVE  /\ Start(mc) \in Cursor /\ Start(mc).payload_moved = FALSE
           /\ Start(mc).payload = mc.state.payload /\ Start(mc).payload_end = mc.state.payload_end
           /\ Start(mc).elem_count = mc.state.elem_count
<1>1. mc.state \in Cursor
  BY GoodType
<1> QED BY <1>1 DEF Start, Cursor, DecodeState

LEMMA BackupPushes ==
    ASSUME NEW mc, Good(mc)
    PROVE  LET r == zcbor_new_backup(mc, 0) IN
           /\ r.ok => /\ r.m.backup_list = Append(mc.backup_list, Start(mc)) /\ r.m.bytes = mc.bytes
                      /\ r.m.state.payload = mc.state.payload
                      /\ r.m.state.payload_end = mc.state.payload_end
                      /\ r.m.state.elem_count = 0
                      /\ zcbor_check_error(mc) /\ zcbor_check_error(r.m)
           /\ ~r.ok => Idle(mc, r.m)
<1> DEFINE r == zcbor_new_backup(mc, 0)
           start == Start(mc)
           state == [start EXCEPT !.elem_count = 0]
<1>1. CASE ~zcbor_check_error(mc)
  <2>1. r = Failure(mc)
    BY <1>1 DEF zcbor_new_backup, zcbor_new_backup_w_elem_state
  <2> QED BY <2>1, FailureIdle
<1>2. CASE zcbor_check_error(mc) /\ Len(mc.backup_list) >= NumBackups
  <2>1. r = Err(mc, "NO_BACKUP_MEM")
    BY <1>2 DEF zcbor_new_backup, zcbor_new_backup_w_elem_state
  <2> QED BY <2>1, ErrIdle
<1>3. CASE zcbor_check_error(mc) /\ ~(Len(mc.backup_list) >= NumBackups)
  <2>1. r = Success(Pushed(mc, 0, FALSE))
    <3>1. (SmartSearch /\ FALSE) = FALSE
      OBVIOUS
    <3> QED BY <1>3, <3>1 DEF zcbor_new_backup, zcbor_new_backup_w_elem_state
  <2>2. mc \in Machine /\ mc.state \in Cursor
    BY GoodType
  <2>3. Pushed(mc, 0, FALSE) = [mc EXCEPT !.backup_list = Append(mc.backup_list, start), !.state = state]
    BY <2>2 DEF Pushed, Machine, Start
  <2>4. r.ok = TRUE /\ r.m = [mc EXCEPT !.backup_list = Append(mc.backup_list, start), !.state = state]
    <3> DEFINE pushed == Pushed(mc, 0, FALSE)
    <3>0. r = Success(pushed)
      BY <2>1
    <3> HIDE DEF r, pushed
    <3>1. r.ok = TRUE /\ r.m = pushed
      BY <3>0 DEF Success
    <3> USE DEF pushed
    <3> QED BY <2>3, <3>1, Zenon
  <2> HIDE DEF r, start
  <2>5. /\ state.payload = start.payload /\ state.payload_end = start.payload_end
        /\ state.elem_count = 0
    BY StartIs DEF Cursor, start
  <2> HIDE DEF state
  <2>6. /\ r.m.state = state /\ r.m.backup_list = Append(mc.backup_list, start) /\ r.m.bytes = mc.bytes
        /\ r.m.error = mc.error /\ r.m.stop_on_error = mc.stop_on_error
    BY <2>2, <2>4 DEF Machine
  <2>7. zcbor_check_error(r.m)
    BY <1>3, <2>6 DEF zcbor_check_error
  <2> QED BY <1>3, <2>4, <2>5, <2>6, <2>7, StartIs DEF start, r
<1> QED BY <1>1, <1>2, <1>3

Uppermost(mc) == mc.backup_list[Len(mc.backup_list)]

\* The uppermost backup goes.
Popped(mc, n) ==
    /\ n.backup_list = SubSeq(mc.backup_list, 1, Len(mc.backup_list) - 1)
    /\ n.bytes = mc.bytes /\ (zcbor_check_error(n) <=> zcbor_check_error(mc))

LEMMA DroppedPopped ==
    ASSUME NEW mc, Good(mc), NEW state
    PROVE  LET n == Dropped([mc EXCEPT !.state = state]) IN Popped(mc, n) /\ n.state = state
<1>1. mc \in Machine
  BY GoodType
<1> QED BY <1>1 DEF Popped, Dropped, Machine, zcbor_check_error

LEMMA BackupPops ==
    ASSUME NEW mc, Good(mc), NEW flags \in UsedFlags
    PROVE  LET r == zcbor_process_backup(mc, flags)
               top == Uppermost(mc)
           IN
           /\ r.ok <=> /\ zcbor_check_error(mc) /\ mc.backup_list # << >>
                       /\ ~("RESTORE" \in flags /\ "KEEP_PAYLOAD" \notin flags /\ top.payload_moved)
           /\ r.ok => /\ Popped(mc, r.m)
                      /\ r.m.state = IF "RESTORE" \notin flags THEN mc.state
                                     ELSE IF "KEEP_PAYLOAD" \in flags
                                     THEN [top EXCEPT !.payload = mc.state.payload] ELSE top
           /\ ~r.ok => Idle(mc, r.m)
<1> DEFINE n == Len(mc.backup_list)
           top == Uppermost(mc)
           restored == [mc EXCEPT !.state = top]
           r == zcbor_process_backup(mc, flags)
<1>0. /\ "CONSUME" \in flags /\ "KEEP_DECODE_STATE" \notin flags
      /\ "KEEP_PAYLOAD" \in flags => "RESTORE" \in flags
  BY DEF UsedFlags
<1>1. CASE mc.backup_list = << >>
  <2>1. r = Err(mc, "NO_BACKUP_ACTIVE")
    BY <1>1 DEF zcbor_process_backup
  <2>2. Idle(mc, r.m) /\ r.ok = FALSE
    BY <2>1, ErrIdle
  <2> QED BY <1>1, <2>2
<1>2. CASE mc.backup_list # << >>
  <2>1. n \in Nat \ {0} /\ n \in 1 .. n /\ ~(n > n) /\ mc \in Machine
    BY <1>2, GoodType, EmptySeq
  <2>2. r = zcbor_process_backup_num(mc, flags, n)
    BY <1>2 DEF zcbor_process_backup
  <2>3. top \in Cursor /\ top.decode_state.elem_state_backed_up = FALSE
    BY <2>1, GoodType DEF Cursor, DecodeState, Uppermost
  <2>4. /\ Popped(mc, Dropped(restored)) /\ Dropped(restored).state = top
    BY DroppedPopped
  <2>5. Dropped(mc) = Dropped([mc EXCEPT !.state = mc.state])
    BY <2>1 DEF Machine
  <2>6. Popped(mc, Dropped(mc)) /\ Dropped(mc).state = mc.state
    BY <2>5, DroppedPopped
  <2>7. RestoreFrom(mc, top, "CONSUME" \in flags) = Success(restored)
    BY <1>0 DEF RestoreFrom
  <2>8. "RESTORE" \in flags => ConsumeTop(restored, top, "RESTORE" \in flags) = Dropped(restored)
    BY DEF ConsumeTop, Dropped
  <2>9. "RESTORE" \notin flags => ConsumeTop(mc, top, "RESTORE" \in flags) = Dropped(mc)
    BY <2>3 DEF ConsumeTop, Dropped
  <2>10. n = Len(mc.backup_list) /\ top = mc.backup_list[n]
    BY DEF Uppermost
  <2>11. Good(restored)
    BY <2>1, <2>10, RestoredGood
  <2>12. Good(Dropped(restored))
    BY <1>2, <2>1, <2>11, DroppedGood DEF Machine
  <2> HIDE DEF n, top, restored, r
  <2>13. ~(\/ n = 0 \/ n > Len(mc.backup_list)
           \/ "CONSUME" \in flags /\ ("KEEP_DECODE_STATE" \in flags \/ n # Len(mc.backup_list)))
    BY <1>0, <2>1, <2>10
  <2> DEFINE res  == IF "RESTORE" \in flags THEN RestoreFrom(mc, top, "CONSUME" \in flags)
                     ELSE Success(mc)
             kept == IF "CONSUME" \in flags THEN ConsumeTop(res.m, top, "RESTORE" \in flags)
                     ELSE res.m
  <2>14. "RESTORE" \in flags => res.ok = TRUE /\ kept = Dropped(restored)
    <3>1. "RESTORE" \in flags => res.ok = TRUE /\ res.m = restored
      BY <2>7 DEF Success
    <3> HIDE DEF res
    <3> QED BY <1>0, <2>8, <3>1
  <2> HIDE DEF res, kept
  <2>15. CASE ~zcbor_check_error(mc)
    <3>1. r = Failure(mc)
      BY <2>2, <2>15 DEF zcbor_process_backup_num
    <3>2. Idle(mc, r.m) /\ r.ok = FALSE
      BY <3>1, FailureIdle
    <3> QED BY <2>15, <3>2 DEF r
  <2>16. CASE /\ zcbor_check_error(mc) /\ "RESTORE" \in flags /\ "KEEP_PAYLOAD" \notin flags
              /\ top.payload_moved
    <3>1. r = Err(mc, "PAYLOAD_OUTDATED")
      BY <2>2, <2>10, <2>13, <2>16 DEF zcbor_process_backup_num
    <3>2. Idle(mc, r.m) /\ r.ok = FALSE
      BY <3>1, ErrIdle
    <3> QED BY <2>16, <3>2 DEF r, top
  <2>17. CASE /\ zcbor_check_error(mc) /\ "RESTORE" \in flags /\ "KEEP_PAYLOAD" \notin flags
              /\ ~top.payload_moved
    <3>1. r = Success(Dropped(restored))
      BY <1>0, <2>2, <2>10, <2>13, <2>14, <2>17 DEF zcbor_process_backup_num, res, kept
    <3>2. r.ok = TRUE /\ r.m = Dropped(restored)
      BY <3>1 DEF Success
    <3> QED BY <1>2, <2>4, <2>17, <3>2 DEF r, top
  <2>18. CASE zcbor_check_error(mc) /\ "RESTORE" \in flags /\ "KEEP_PAYLOAD" \in flags
    <3> DEFINE d == Dropped(restored)
               s == Stepped(d, mc.state.payload)
    <3>1. r = Success(s)
      BY <1>0, <2>2, <2>10, <2>13, <2>14, <2>18
         DEF zcbor_process_backup_num, Stepped, res, kept
    <3>2. r.ok = TRUE /\ r.m = s
      BY <3>1 DEF Success
    <3>3. d \in Machine /\ d.state = top /\ Popped(mc, d)
      BY <2>4, <2>12, GoodType
    <3> HIDE DEF d
    <3>4. s.state = [top EXCEPT !.payload = mc.state.payload] /\ Popped(mc, s)
      BY <3>3 DEF Stepped, Machine, Popped, zcbor_check_error
    <3> QED BY <1>2, <2>18, <3>2, <3>4 DEF r, top
  <2>19. CASE zcbor_check_error(mc) /\ "RESTORE" \notin flags
    <3>1. r = Success(Dropped(mc))
      BY <1>0, <2>2, <2>9, <2>10, <2>13, <2>19 DEF zcbor_process_backup_num, Success
    <3>2. r.ok = TRUE /\ r.m = Dropped(mc)
      BY <3>1 DEF Success
    <3> QED BY <1>2, <2>6, <2>19, <3>2 DEF r
  <2> QED BY <2>15, <2>16, <2>17, <2>18, <2>19
<1> QED BY <1>1, <1>2

\* A container is started: behind a backup its header.
Opened(mc, n, cells) ==
    /\ n.backup_list = Append(mc.backup_list, Start(mc))
    /\ InPayload(n) = InPayload(mc) \o cells
    /\ zcbor_check_error(mc)

\* What is in the payload does not change; without an error register that says
\* no, the list of backups is the same.
Refused(mc, n) ==
    /\ InPayload(n) = InPayload(mc)
    /\ zcbor_check_error(n) => zcbor_check_error(mc) /\ n.backup_list = mc.backup_list

LEMMA IdleRefused == ASSUME NEW mc, NEW n, Idle(mc, n) PROVE Refused(mc, n)
BY DEF Idle, Refused, InPayload

LEMMA RemainingIs ==
    ASSUME NEW s, NEW t, s.payload = t.payload, s.payload_end = t.payload_end
    PROVE  zcbor_remaining_str_len(s) = zcbor_remaining_str_len(t)
BY DEF zcbor_remaining_str_len

LEMMA RemainingInt ==
    ASSUME NEW s, s.payload \in Int, s.payload_end \in Int
    PROVE  zcbor_remaining_str_len(s) \in Int
<1>1. \A value : zcbor_header_len(value) \in Int
  BY HeaderLen
<1> QED BY <1>1 DEF zcbor_remaining_str_len

LEMMA BstrStartOpens ==
    ASSUME NEW mc, Good(mc)
    PROVE  LET r == zcbor_bstr_start_encode(mc) IN
           /\ r.ok => Opened(mc, r.m, Header(BSTR, zcbor_remaining_str_len(mc.state)))
           /\ ~r.ok => Refused(mc, r.m)
<1> DEFINE b == zcbor_new_backup(mc, 0)
           len == zcbor_remaining_str_len(b.m.state)
           h == value_encode(b.m, BSTR, len)
           p == zcbor_process_backup(h.m, {"CONSUME"})
           r == zcbor_bstr_start_encode(mc)
<1>1. r = IF ~b.ok THEN b ELSE IF ~h.ok THEN Failure(p.m) ELSE h
  BY DEF zcbor_bstr_start_encode
<1>2. /\ GoodResult(b)
      /\ b.ok => /\ b.m.backup_list = Append(mc.backup_list, Start(mc)) /\ b.m.bytes = mc.bytes
                 /\ b.m.state.payload = mc.state.payload
                 /\ b.m.state.payload_end = mc.state.payload_end
                 /\ zcbor_check_error(mc) /\ zcbor_check_error(b.m)
      /\ ~b.ok => Idle(mc, b.m)
  BY NewBackupGood, BackupPushes
<1> HIDE DEF b
<1>3. len \in Int
  BY <1>2, GoodType, RemainingInt DEF GoodResult
<1>4. b.ok => len = zcbor_remaining_str_len(mc.state)
  BY <1>2, RemainingIs
<1> HIDE DEF len
<1>5. /\ GoodResult(h)
      /\ h.ok => Wrote(b.m, h.m, Header(BSTR, len), 1)
      /\ ~h.ok => Idle(b.m, h.m)
  <2>1. Good(b.m) /\ BSTR \in Int
    BY <1>2 DEF GoodResult, BSTR
  <2>2. GoodResult(h)
    BY <1>3, <2>1, ValueEncodeGood
  <2> QED BY <1>3, <2>1, <2>2, ValueWrites
<1> HIDE DEF h
<1>6. /\ p.ok <=> zcbor_check_error(h.m) /\ h.m.backup_list # << >>
      /\ p.ok => Popped(h.m, p.m) /\ p.m.state = h.m.state
      /\ ~p.ok => Idle(h.m, p.m)
  BY <1>5, BackupPops DEF GoodResult, UsedFlags
<1> HIDE DEF p, r
<1>7. b.ok => InPayload(b.m) = InPayload(mc)
  BY <1>2 DEF InPayload
<1>8. CASE ~b.ok
  BY <1>1, <1>2, <1>8, IdleRefused DEF r
<1>9. CASE b.ok /\ h.ok
  <2>1. Opened(mc, h.m, Header(BSTR, len))
    BY <1>2, <1>5, <1>7, <1>9 DEF Wrote, Opened
  <2> QED BY <1>1, <1>4, <1>9, <2>1 DEF r
<1>10. CASE b.ok /\ ~h.ok
  <2>1. r.ok = FALSE /\ r.m = p.m
    BY <1>1, <1>10 DEF Failure
  <2>2. h.m.state = b.m.state /\ h.m.backup_list = b.m.backup_list /\ h.m.bytes = b.m.bytes
    BY <1>5, <1>10 DEF Idle
  <2>3. p.m.state = h.m.state /\ p.m.bytes = h.m.bytes
    BY <1>6 DEF Idle, Popped
  <2>4. InPayload(p.m) = InPayload(mc)
    BY <1>2, <1>10, <2>2, <2>3 DEF InPayload
  <2>5. ASSUME zcbor_check_error(p.m)
        PROVE  zcbor_check_error(mc) /\ p.m.backup_list = mc.backup_list
    <3>1. mc.backup_list \in Seq(Cursor) /\ Start(mc) \in Cursor
      BY GoodType, StartIs
    <3> DEFINE list == mc.backup_list
               n == Len(list)
               more == Append(list, Start(mc))
    <3>2. /\ n \in Nat /\ more \in Seq(Cursor) /\ Len(more) = n + 1
          /\ \A i \in 1 .. n : more[i] = list[i]
      BY <3>1, LenProperties, AppendProperties
    <3>3. more # << >>
      <4>1. Len(more) # 0
        BY <3>2
      <4> QED BY <4>1
    <3>4. h.m.backup_list = more
      BY <1>2, <1>10, <2>2
    <3>5. p.ok
      BY <1>6, <2>5, <3>3, <3>4 DEF Idle
    <3>6. p.m.backup_list = SubSeq(more, 1, Len(more) - 1)
      BY <1>6, <3>4, <3>5 DEF Popped
    <3> HIDE DEF more
    <3>7. Len(more) - 1 = n
      BY <3>2
    <3>8. SubSeq(more, 1, n) = list
      <4>1. \A i \in 1 .. n : more[i] \in Cursor
        BY <3>1, <3>2, ElementOfSeq
      <4>2. n - 1 + 1 = n /\ 1 \in Int /\ n \in Int /\ \A i \in 1 .. n : 1 + i - 1 = i
        BY <3>2
      <4>3. list \in Seq(Cursor) /\ Len(list) = n
        BY <3>1
      <4> HIDE DEF n, list
      <4>4. /\ SubSeq(more, 1, n) \in Seq(Cursor)
            /\ Len(SubSeq(more, 1, n)) = IF 1 <= n THEN n - 1 + 1 ELSE 0
            /\ \A i \in 1 .. n - 1 + 1 : SubSeq(more, 1, n)[i] = more[1 + i - 1]
        BY <4>1, <4>2, SubSeqProperties
      <4>5. Len(SubSeq(more, 1, n)) = n
        BY <3>2, <4>2, <4>4
      <4>6. \A i \in 1 .. n : SubSeq(more, 1, n)[i] = list[i]
        BY <3>2, <4>2, <4>4
      <4> QED BY <4>3, <4>4, <4>5, <4>6, SeqEqual
    <3> QED BY <1>2, <1>10, <3>6, <3>7, <3>8
  <2>6. Refused(mc, p.m)
    BY <2>4, <2>5 DEF Refused
  <2> QED BY <2>1, <2>6 DEF r
<1> QED BY <1>8, <1>9, <1>10

\* A list with a backup: if its header has no room, the backup stays.
LEMMA ListStartOpens ==
    ASSUME canonical, NEW mc, Good(mc), NEW size_hint \in Int, NEW major \in Int
    PROVE  LET r == list_map_start_encode(mc, size_hint, major) IN
           /\ r.ok => Opened(mc, r.m, Header(major, size_hint)) /\ r.m.state.elem_count = 0
           /\ ~r.ok => \/ Idle(mc, r.m)
                       \/ Opened(mc, r.m, << >>)
<1> DEFINE b == zcbor_new_backup(mc, 0)
           h == value_encode(b.m, major, size_hint)
           r == list_map_start_encode(mc, size_hint, major)
           done == [h.m EXCEPT !.state.elem_count = @ - 1]
<1>1. r = IF ~b.ok THEN b ELSE IF ~h.ok THEN h ELSE Success(done)
  BY DEF list_map_start_encode
<1>2. /\ GoodResult(b)
      /\ b.ok => /\ b.m.backup_list = Append(mc.backup_list, Start(mc)) /\ b.m.bytes = mc.bytes
                 /\ b.m.state.payload = mc.state.payload
                 /\ b.m.state.elem_count = 0
                 /\ zcbor_check_error(mc) /\ zcbor_check_error(b.m)
      /\ ~b.ok => Idle(mc, b.m)
  BY NewBackupGood, BackupPushes
<1> HIDE DEF b
<1>3. /\ GoodResult(h)
      /\ h.ok => Wrote(b.m, h.m, Header(major, size_hint), 1)
      /\ ~h.ok => Idle(b.m, h.m)
  BY <1>2, ValueEncodeGood, ValueWrites DEF GoodResult
<1>4. b.ok => InPayload(b.m) = InPayload(mc)
  BY <1>2 DEF InPayload
<1> HIDE DEF h, r
<1>5. CASE ~b.ok
  BY <1>1, <1>2, <1>5 DEF r
<1>6. CASE b.ok /\ h.ok
  <2>1. r.ok = TRUE /\ r.m = done
    BY <1>1, <1>6 DEF Success
  <2>2. /\ done.backup_list = h.m.backup_list /\ done.bytes = h.m.bytes
        /\ done.state.payload = h.m.state.payload /\ done.state.elem_count = h.m.state.elem_count - 1
    <3>1. h.m \in Machine /\ h.m.state \in Cursor
      BY <1>3, GoodType DEF GoodResult
    <3> QED BY <3>1 DEF Machine, Cursor
  <2> HIDE DEF done
  <2>3. InPayload(done) = InPayload(h.m)
    BY <2>2 DEF InPayload
  <2>4. h.m.state.elem_count = 0 + 1
    BY <1>2, <1>3, <1>6 DEF Wrote
  <2>5. done.state.elem_count = 0
    BY <2>2, <2>4
  <2>6. Opened(mc, done, Header(major, size_hint))
    BY <1>2, <1>3, <1>4, <1>6, <2>2, <2>3 DEF Wrote, Opened
  <2> QED BY <2>1, <2>5, <2>6 DEF r
<1>7. CASE b.ok /\ ~h.ok
  <2>1. r = h
    BY <1>1, <1>7
  <2>2. InPayload(h.m) = InPayload(mc) /\ h.m.backup_list = Append(mc.backup_list, Start(mc))
    BY <1>2, <1>3, <1>4, <1>7 DEF Idle, InPayload
  <2>3. InPayload(mc) \o << >> = InPayload(mc)
    BY PayloadType, ConcatEmptySeq
  <2>4. Opened(mc, h.m, << >>)
    BY <1>2, <1>7, <2>2, <2>3 DEF Opened
  <2> QED BY <1>7, <2>1, <2>4 DEF r
<1> QED BY <1>5, <1>6, <1>7

\* A container is ended: what it was given to begin with goes, from its backup
\* on, and cells come instead; or it goes without anything.
Closed(mc, n, cells) ==
    /\ n.backup_list = SubSeq(mc.backup_list, 1, Len(mc.backup_list) - 1)
    /\ n.state.elem_count = Uppermost(mc).elem_count + 1
    /\ InPayload(n) = Stretch(mc.bytes, 0, Uppermost(mc).payload) \o cells

Abandoned(mc, n) ==
    /\ n.backup_list = SubSeq(mc.backup_list, 1, Len(mc.backup_list) - 1)
    /\ n.state.elem_count = Uppermost(mc).elem_count
    /\ InPayload(n) = Stretch(mc.bytes, 0, Uppermost(mc).payload)

\* The body is moved, and its header comes before it.
LEMMA MoveWrites ==
    ASSUME NEW mc, Good(mc), zcbor_check_error(mc), NEW old_body \in Nat, NEW size \in Nat,
           NEW list_count \in Int, NEW major \in Int,
           old_body + size <= mc.state.payload_end,
           mc.state.payload + zcbor_header_len(list_count) + size <= mc.state.payload_end
    PROVE  LET r == MoveThenHeader(mc, mc.state.payload + zcbor_header_len(list_count),
                                   old_body, size, list_count, major)
           IN  r.ok /\ Wrote(mc, r.m, Header(major, list_count) \o Stretch(mc.bytes, old_body, size), 1)
<1> DEFINE p == mc.state.payload
           hl == zcbor_header_len(list_count)
           new_body == p + hl
           bytes == Memmove(mc.bytes, new_body, old_body, size)
           mm == [mc EXCEPT !.bytes = bytes]
           h == value_encode(mm, major, list_count)
           r == MoveThenHeader(mc, new_body, old_body, size, list_count, major)
           done == [h.m EXCEPT !.state.payload = @ + size]
           cells == Header(major, list_count)
           body == Stretch(mc.bytes, old_body, size)
<1>1. /\ p \in Nat /\ mc.state.payload_end \in Nat /\ mc.bytes \in [Room -> Cell] /\ mc \in Machine
      /\ mc.state.payload_end <= MaxBytes /\ MaxBytes \in Nat /\ mc.state.elem_count \in Int
      /\ Clean(mc.bytes, mc.state.payload_end)
  BY GoodType, InputAssumption DEF Good
<1>2. hl \in Nat /\ cells \in Seq(Cell) /\ Len(cells) = hl
  BY HeaderLen, HeaderType
<1>3. r = IF h.ok THEN Success(done) ELSE h
  <2>1. [mc EXCEPT !.bytes = Memmove(@, new_body, old_body, size)] = mm
    BY <1>1 DEF Machine
  <2> HIDE DEF new_body, mm
  <2> QED BY <2>1 DEF MoveThenHeader
<1> SUFFICES r.ok /\ Wrote(mc, r.m, cells \o body, 1)
  OBVIOUS
<1>4. p + hl + size <= mc.state.payload_end
  OBVIOUS
<1> HIDE DEF p, hl, cells, r
<1>5. /\ new_body \in Nat /\ new_body + size <= MaxBytes /\ old_body + size <= MaxBytes
      /\ new_body + size <= mc.state.payload_end /\ new_body <= mc.state.payload_end
  BY <1>1, <1>2, <1>4
<1>6. body \in Seq(Cell) /\ Len(body) = size
  BY <1>1, <1>5, StretchType
<1>7. new_body = p + hl
  OBVIOUS
<1> HIDE DEF new_body, body
<1>8. /\ bytes \in [Room -> Cell] /\ Clean(bytes, mc.state.payload_end)
      /\ Stretch(bytes, new_body, size) = body /\ SameBelow(bytes, mc.bytes, new_body)
  BY <1>1, <1>5, MovedType, StretchMoved DEF body
<1> HIDE DEF bytes
<1>9. /\ Good(mm) /\ mm.state = mc.state /\ mm.backup_list = mc.backup_list /\ mm.bytes = bytes
      /\ zcbor_check_error(mm)
  <2>1. Good(mm) /\ mm.state = mc.state
    BY <1>8, BytesGood
  <2> QED BY <1>1, <2>1 DEF Machine, zcbor_check_error
<1> HIDE DEF mm
<1>10. /\ GoodResult(h) /\ h.ok /\ Wrote(mm, h.m, cells, 1) /\ h.m.bytes = Written(bytes, p, cells)
  <2>1. GoodResult(h)
    BY <1>9, ValueEncodeGood
  <2>2. h.ok
    BY <1>5, <1>7, <1>9, ValueWrites DEF p, hl
  <2> QED BY <1>9, <2>1, <2>2, ValueWrites DEF cells, p
<1> HIDE DEF h
<1>11. r.ok = TRUE /\ r.m = done
  BY <1>3, <1>10, ResultGood DEF Success
<1>12. /\ h.m \in Machine /\ h.m.state \in Cursor /\ h.m.bytes \in [Room -> Cell]
       /\ h.m.state.payload = new_body /\ h.m.state.payload_end = mc.state.payload_end
  BY <1>2, <1>7, <1>9, <1>10, GoodType DEF GoodResult, Wrote, p
<1>13. Stretch(h.m.bytes, new_body, size) = body
  <2> DEFINE w == h.m.bytes
  <2>1. w = Written(bytes, p, cells) /\ p + Len(cells) <= MaxBytes /\ p + Len(cells) = new_body
    BY <1>1, <1>2, <1>5, <1>7, <1>10
  <2>2. bytes \in [Room -> Cell] /\ p \in Nat /\ cells \in Seq(Cell)
    BY <1>1, <1>2, <1>8
  <2> HIDE DEF w
  <2>3. SameOutside(w, bytes, p, Len(cells))
    BY <2>1, <2>2, StretchWritten
  <2>4. Stretch(w, new_body, size) = Stretch(bytes, new_body, size)
    BY <1>5, <2>1, <2>3 DEF SameOutside
  <2> QED BY <1>8, <2>4 DEF w
<1>14. InPayload(mm) = InPayload(mc)
  <2>1. Stretch(bytes, 0, p) = Stretch(mc.bytes, 0, p)
    <3>1. 0 \in Nat /\ 0 + p <= new_body
      BY <1>1, <1>2, <1>7
    <3> QED BY <1>1, <1>8, <3>1 DEF SameBelow
  <2> QED BY <1>9, <2>1 DEF InPayload, p
<1>15. Wrote(mm, done, cells \o body, 1)
  <2> DEFINE w == h.m.bytes
             n == h.m
  <2>1. done = Moved(n, w, n.state.payload + Len(body))
    BY <1>6, <1>12 DEF Moved, Machine, Cursor
  <2>2. /\ Good(n) /\ Wrote(mm, n, cells, 1) /\ w \in [Room -> Cell]
        /\ n.state.payload + Len(body) <= n.state.payload_end
        /\ Stretch(w, n.state.payload, Len(body)) = body
        /\ Stretch(w, 0, n.state.payload) = InPayload(n)
    BY <1>5, <1>6, <1>10, <1>12, <1>13 DEF GoodResult, InPayload
  <2>3. InPayload(mm) \in Seq(Cell) /\ mm.state.payload \in Nat
    BY <1>9, PayloadType, GoodType
  <2> HIDE DEF w, n, done
  <2>4. Wrote(mm, Moved(n, w, n.state.payload + Len(body)), cells \o body, 1)
    BY <1>2, <1>6, <2>2, <2>3, WroteMore
  <2> QED BY <2>1, <2>4
<1> HIDE DEF done
<1>16. Wrote(mc, done, cells \o body, 1)
  BY <1>9, <1>14, <1>15 DEF Wrote
<1> QED BY <1>11, <1>16

\* The uppermost backup can be gone back to.
InUse(mc) ==
    zcbor_check_error(mc) /\ mc.backup_list # << >> /\ ~Uppermost(mc).payload_moved

LEMMA RestoreConsume ==
    ASSUME NEW mc, Good(mc)
    PROVE  LET r == zcbor_process_backup(mc, {"RESTORE", "CONSUME"}) IN
           /\ Good(r.m) /\ r.m.state.payload_end = mc.state.payload_end
           /\ r.ok <=> InUse(mc)
           /\ r.ok => /\ r.m.state = Uppermost(mc) /\ r.m.bytes = mc.bytes
                      /\ r.m.backup_list = SubSeq(mc.backup_list, 1, Len(mc.backup_list) - 1)
                      /\ zcbor_check_error(r.m)
           /\ ~r.ok => Idle(mc, r.m)
<1> DEFINE flags == {"RESTORE", "CONSUME"}
           r == zcbor_process_backup(mc, flags)
           top == Uppermost(mc)
<1>1. flags \in UsedFlags /\ "RESTORE" \in flags /\ "KEEP_PAYLOAD" \notin flags
  BY DEF UsedFlags
<1> SUFFICES /\ Good(r.m) /\ r.m.state.payload_end = mc.state.payload_end
             /\ r.ok <=> InUse(mc)
             /\ r.ok => /\ r.m.state = top /\ r.m.bytes = mc.bytes
                        /\ r.m.backup_list = SubSeq(mc.backup_list, 1, Len(mc.backup_list) - 1)
                        /\ zcbor_check_error(r.m)
             /\ ~r.ok => Idle(mc, r.m)
  OBVIOUS
<1> HIDE DEF flags
<1>2. Good(r.m) /\ r.m.state.payload_end = mc.state.payload_end
  BY <1>1, ProcessBackupGood DEF GoodResult
<1>3. /\ r.ok <=> /\ zcbor_check_error(mc) /\ mc.backup_list # << >>
                  /\ ~("RESTORE" \in flags /\ "KEEP_PAYLOAD" \notin flags /\ top.payload_moved)
      /\ r.ok => /\ Popped(mc, r.m)
                 /\ r.m.state = IF "RESTORE" \notin flags THEN mc.state
                                ELSE IF "KEEP_PAYLOAD" \in flags
                                THEN [top EXCEPT !.payload = mc.state.payload] ELSE top
      /\ ~r.ok => Idle(mc, r.m)
  BY <1>1, BackupPops
<1> HIDE DEF r
<1> QED BY <1>1, <1>2, <1>3 DEF Popped, InUse

\* What goes back to a backup and no further.
LEMMA ForceEndAbandons ==
    ASSUME NEW mc, Good(mc)
    PROVE  LET r == zcbor_process_backup(mc, {"RESTORE", "CONSUME"}) IN
           /\ r.ok => InUse(mc) /\ Abandoned(mc, r.m)
           /\ ~r.ok => Idle(mc, r.m)
<1> DEFINE r == zcbor_process_backup(mc, {"RESTORE", "CONSUME"})
<1>1. /\ r.ok <=> InUse(mc)
      /\ r.ok => /\ r.m.state = Uppermost(mc) /\ r.m.bytes = mc.bytes
                 /\ r.m.backup_list = SubSeq(mc.backup_list, 1, Len(mc.backup_list) - 1)
      /\ ~r.ok => Idle(mc, r.m)
  BY RestoreConsume
<1> HIDE DEF r
<1>2. r.ok => InUse(mc) /\ Abandoned(mc, r.m)
  BY <1>1 DEF Abandoned, InPayload
<1> QED BY <1>1, <1>2 DEF r

\* What is written where the backup was is what the container is now.
LEMMA WroteCloses ==
    ASSUME NEW mc, NEW back, NEW n, NEW cells,
           back.state = Uppermost(mc), back.bytes = mc.bytes,
           back.backup_list = SubSeq(mc.backup_list, 1, Len(mc.backup_list) - 1),
           Wrote(back, n, cells, 1)
    PROVE  Closed(mc, n, cells)
BY DEF Wrote, Closed, InPayload

\* The same for an error that comes up then.
LEMMA IdleAbandons ==
    ASSUME NEW mc, NEW back, NEW n,
           back.state = Uppermost(mc), back.bytes = mc.bytes,
           back.backup_list = SubSeq(mc.backup_list, 1, Len(mc.backup_list) - 1),
           Idle(back, n)
    PROVE  Abandoned(mc, n)
BY DEF Idle, Abandoned, InPayload

LEMMA NewHeaderCloses ==
    ASSUME NEW mc, Good(mc), NEW size_hint \in Int, NEW list_count \in Int, NEW major \in Int
    PROVE  LET r        == NewHeader(mc, size_hint, list_count, major)
               old_body == Uppermost(mc).payload + zcbor_header_len(size_hint)
               size     == mc.state.payload - old_body
           IN
           /\ ~InUse(mc) => ~r.ok /\ Idle(mc, r.m)
           /\ InUse(mc) /\ size >= 0 =>
                /\ r.ok <=> Uppermost(mc).payload + zcbor_header_len(list_count) + size
                              <= mc.state.payload_end
                /\ r.ok => Closed(mc, r.m, Header(major, list_count) \o Stretch(mc.bytes, old_body, size))
                /\ ~r.ok => Abandoned(mc, r.m)
<1> DEFINE r == NewHeader(mc, size_hint, list_count, major)
           b == zcbor_process_backup(mc, {"RESTORE", "CONSUME"})
           at == Uppermost(mc).payload
           end == mc.state.payload_end
           hl0 == zcbor_header_len(size_hint)
           hl1 == zcbor_header_len(list_count)
           old_body == at + hl0
           size == mc.state.payload - old_body
           back == b.m
           cells == Header(major, list_count)
<1>1. /\ Good(back) /\ back.state.payload_end = end
      /\ b.ok <=> InUse(mc)
      /\ b.ok => /\ back.state = Uppermost(mc) /\ back.bytes = mc.bytes
                 /\ back.backup_list = SubSeq(mc.backup_list, 1, Len(mc.backup_list) - 1)
                 /\ zcbor_check_error(back)
      /\ ~b.ok => Idle(mc, back)
  BY RestoreConsume
<1>2. r = IF ~b.ok THEN b
          ELSE IF mc.state.payload - (back.state.payload + hl0) < 0 THEN Err(back, "BAD_ARG")
          ELSE IF ~RoomForMove(back.state.payload + hl1, back.state.payload + hl0,
                               mc.state.payload - (back.state.payload + hl0), back.state.payload_end)
          THEN Err(back, "NO_PAYLOAD")
          ELSE MoveThenHeader(back, back.state.payload + hl1, back.state.payload + hl0,
                              mc.state.payload - (back.state.payload + hl0), list_count, major)
  BY DEF NewHeader
<1> SUFFICES /\ ~InUse(mc) => ~r.ok /\ Idle(mc, r.m)
             /\ InUse(mc) /\ size >= 0 =>
                  /\ r.ok <=> at + hl1 + size <= end
                  /\ r.ok => Closed(mc, r.m, cells \o Stretch(mc.bytes, old_body, size))
                  /\ ~r.ok => Abandoned(mc, r.m)
  OBVIOUS
<1>3. back = b.m
  OBVIOUS
<1> HIDE DEF r, b, back, cells, hl0, hl1
<1>4. ASSUME ~InUse(mc) PROVE ~r.ok /\ Idle(mc, r.m)
  BY <1>1, <1>2, <1>3, <1>4
<1>5. ASSUME InUse(mc), size >= 0
      PROVE  /\ r.ok <=> at + hl1 + size <= end
             /\ r.ok => Closed(mc, r.m, cells \o Stretch(mc.bytes, old_body, size))
             /\ ~r.ok => Abandoned(mc, r.m)
  <2>1. b.ok /\ back.state.payload = at /\ back.state = Uppermost(mc) /\ back.bytes = mc.bytes
    BY <1>1, <1>5
  <2>2. /\ at \in Nat /\ hl0 \in Nat /\ hl1 \in Nat /\ mc.state.payload \in Nat /\ end \in Nat
        /\ mc.state.payload <= end
    BY <1>1, <2>1, GoodType, HeaderLen DEF hl0, hl1
  <2>3. r = IF size < 0 THEN Err(back, "BAD_ARG")
            ELSE IF ~RoomForMove(at + hl1, old_body, size, end) THEN Err(back, "NO_PAYLOAD")
            ELSE MoveThenHeader(back, at + hl1, old_body, size, list_count, major)
    BY <1>1, <1>2, <2>1
  <2>4. old_body \in Nat /\ size \in Nat /\ old_body + size <= end /\ old_body + size = mc.state.payload
    BY <1>5, <2>2
  <2>5. old_body = at + hl0
    OBVIOUS
  <2> HIDE DEF at, end, old_body, size
  <2>6. RoomForMove(at + hl1, old_body, size, end) <=> at + hl1 + size <= end
    BY <2>2, <2>4, <2>5 DEF RoomForMove
  <2>7. CASE ~(at + hl1 + size <= end)
    <3>1. r = Err(back, "NO_PAYLOAD")
      BY <2>3, <2>4, <2>6, <2>7
    <3>2. Idle(back, r.m) /\ r.ok = FALSE
      BY <1>1, <3>1, ErrIdle
    <3>3. Abandoned(mc, r.m)
      BY <1>1, <1>5, <3>2, IdleAbandons
    <3> QED BY <2>7, <3>2, <3>3
  <2>8. CASE at + hl1 + size <= end
    <3>1. r = MoveThenHeader(back, at + hl1, old_body, size, list_count, major)
      BY <2>3, <2>4, <2>6, <2>8
    <3>2. /\ Good(back) /\ zcbor_check_error(back) /\ old_body + size <= back.state.payload_end
          /\ back.state.payload + zcbor_header_len(list_count) + size <= back.state.payload_end
          /\ r = MoveThenHeader(back, back.state.payload + zcbor_header_len(list_count),
                                old_body, size, list_count, major)
      BY <1>1, <1>5, <2>1, <2>4, <2>8, <3>1 DEF hl1, end
    <3>3. r.ok /\ Wrote(back, r.m, cells \o Stretch(back.bytes, old_body, size), 1)
      BY <2>4, <3>2, MoveWrites DEF cells
    <3>4. Closed(mc, r.m, cells \o Stretch(mc.bytes, old_body, size))
      BY <1>1, <1>5, <2>1, <3>3, WroteCloses
    <3> QED BY <2>8, <3>3, <3>4
  <2> QED BY <2>7, <2>8
<1> QED BY <1>4, <1>5

\* A header that is right stays, and everything behind it.
LEMMA KeepHeaderCloses ==
    ASSUME NEW mc, Good(mc)
    PROVE  LET r == KeepHeader(mc) IN
           /\ r.ok <=> zcbor_check_error(mc) /\ mc.backup_list # << >>
           /\ r.ok => /\ r.m.backup_list = SubSeq(mc.backup_list, 1, Len(mc.backup_list) - 1)
                      /\ r.m.state.elem_count = Uppermost(mc).elem_count + 1
                      /\ InPayload(r.m) = InPayload(mc)
           /\ ~r.ok => Idle(mc, r.m)
<1> DEFINE flags == {"RESTORE", "CONSUME", "KEEP_PAYLOAD"}
           b == zcbor_process_backup(mc, flags)
           r == KeepHeader(mc)
           top == Uppermost(mc)
           done == [b.m EXCEPT !.state.elem_count = @ + 1]
<1>1. flags \in UsedFlags /\ "RESTORE" \in flags /\ "KEEP_PAYLOAD" \in flags
  BY DEF UsedFlags
<1>2. r = IF b.ok THEN Success(done) ELSE b
  BY DEF KeepHeader
<1> HIDE DEF flags
<1>3. GoodResult(b)
  BY <1>1, ProcessBackupGood
<1>4. /\ b.ok <=> /\ zcbor_check_error(mc) /\ mc.backup_list # << >>
                  /\ ~("RESTORE" \in flags /\ "KEEP_PAYLOAD" \notin flags /\ top.payload_moved)
      /\ b.ok => /\ Popped(mc, b.m)
                 /\ b.m.state = IF "RESTORE" \notin flags THEN mc.state
                                ELSE IF "KEEP_PAYLOAD" \in flags
                                THEN [top EXCEPT !.payload = mc.state.payload] ELSE top
      /\ ~b.ok => Idle(mc, b.m)
  BY <1>1, BackupPops
<1> HIDE DEF b, r
<1>5. CASE b.ok
  <2>1. mc.backup_list # << >> /\ zcbor_check_error(mc)
    BY <1>4, <1>5
  <2>2. top \in Cursor
    <3>1. Len(mc.backup_list) \in 1 .. Len(mc.backup_list)
      BY <2>1, GoodType, EmptySeq
    <3> QED BY <3>1, GoodType DEF Uppermost
  <2> HIDE DEF top
  <2>3. b.m.state = [top EXCEPT !.payload = mc.state.payload]
    BY <1>1, <1>4, <1>5
  <2>4. b.m.state.payload = mc.state.payload /\ b.m.state.elem_count = top.elem_count
    BY <2>2, <2>3 DEF Cursor
  <2>5. b.m \in Machine /\ b.m.state \in Cursor
    BY <1>3, GoodType DEF GoodResult
  <2>6. /\ done.backup_list = b.m.backup_list /\ done.bytes = b.m.bytes
        /\ done.state.payload = b.m.state.payload /\ done.state.elem_count = b.m.state.elem_count + 1
    BY <2>5 DEF Machine, Cursor
  <2>7. r.ok = TRUE /\ r.m = done
    BY <1>2, <1>5 DEF Success
  <2> HIDE DEF done
  <2>8. InPayload(done) = InPayload(mc)
    BY <1>4, <1>5, <2>4, <2>6 DEF InPayload, Popped
  <2> QED BY <1>4, <1>5, <2>1, <2>4, <2>6, <2>7, <2>8 DEF Popped, top, r
<1>6. CASE ~b.ok
  <2>1. r = b
    BY <1>2, <1>6
  <2> QED BY <1>1, <1>4, <1>6, <2>1 DEF r
<1> QED BY <1>5, <1>6

\* A CBOR byte string gets the shortest header of what is in it.
LEMMA BstrEndCloses ==
    ASSUME NEW mc, Good(mc)
    PROVE  LET r     == zcbor_bstr_end_encode(mc)
               value == Uppermost(mc).payload + zcbor_header_len(zcbor_remaining_str_len(Uppermost(mc)))
               len   == mc.state.payload - value
           IN
           /\ ~InUse(mc) => ~r.ok /\ Idle(mc, r.m)
           /\ InUse(mc) /\ len >= 0 =>
                /\ r.ok <=> Uppermost(mc).payload + zcbor_header_len(len) + len <= mc.state.payload_end
                /\ r.ok => Closed(mc, r.m, Header(BSTR, len) \o Stretch(mc.bytes, value, len))
                /\ ~r.ok => Abandoned(mc, r.m)
<1> DEFINE r == zcbor_bstr_end_encode(mc)
           b == zcbor_process_backup(mc, {"RESTORE", "CONSUME"})
           back == b.m
           at == Uppermost(mc).payload
           end == mc.state.payload_end
           hl0 == zcbor_header_len(zcbor_remaining_str_len(Uppermost(mc)))
           value == at + hl0
           len == mc.state.payload - value
           hl1 == zcbor_header_len(len)
           cells == Header(BSTR, len)
<1>1. /\ Good(back) /\ back.state.payload_end = end
      /\ b.ok <=> InUse(mc)
      /\ b.ok => /\ back.state = Uppermost(mc) /\ back.bytes = mc.bytes
                 /\ back.backup_list = SubSeq(mc.backup_list, 1, Len(mc.backup_list) - 1)
                 /\ zcbor_check_error(back)
      /\ ~b.ok => Idle(mc, back)
  BY RestoreConsume
<1> DEFINE from == back.state.payload + zcbor_header_len(zcbor_remaining_str_len(back.state))
<1>2. r = IF ~b.ok THEN b ELSE str_encode(back, from, mc.state.payload - from, BSTR)
  BY DEF zcbor_bstr_end_encode
<1> SUFFICES /\ ~InUse(mc) => ~r.ok /\ Idle(mc, r.m)
             /\ InUse(mc) /\ len >= 0 =>
                  /\ r.ok <=> at + hl1 + len <= end
                  /\ r.ok => Closed(mc, r.m, cells \o Stretch(mc.bytes, value, len))
                  /\ ~r.ok => Abandoned(mc, r.m)
  OBVIOUS
<1>3. back = b.m
  OBVIOUS
<1> HIDE DEF r, b, back
<1>4. ASSUME ~InUse(mc) PROVE ~r.ok /\ Idle(mc, r.m)
  BY <1>1, <1>2, <1>3, <1>4
<1>5. ASSUME InUse(mc), len >= 0
      PROVE  /\ r.ok <=> at + hl1 + len <= end
             /\ r.ok => Closed(mc, r.m, cells \o Stretch(mc.bytes, value, len))
             /\ ~r.ok => Abandoned(mc, r.m)
  <2>1. b.ok /\ back.state.payload = at /\ back.state = Uppermost(mc) /\ back.bytes = mc.bytes
    BY <1>1, <1>5
  <2>2. r = str_encode(back, value, len, BSTR)
    BY <1>2, <2>1
  <2>3. /\ at \in Nat /\ hl0 \in Nat /\ hl1 \in Nat /\ mc.state.payload \in Nat /\ end \in Nat
        /\ mc.state.payload <= end
    BY <1>1, <2>1, GoodType, HeaderLen
  <2>4. value \in Nat /\ len \in Nat /\ value + len <= end /\ value = at + hl0 /\ at <= end
    <3> HIDE DEF hl0, at, end
    <3> QED BY <1>5, <2>3
  <2>5. hl1 = zcbor_header_len(len) /\ hl0 = zcbor_header_len(zcbor_remaining_str_len(back.state))
    BY <2>1
  <2>6. value # External /\ value \in Int /\ len \in Int /\ BSTR \in Int
    BY <2>4 DEF External, BSTR
  <2> HIDE DEF at, end, value, len, hl0, hl1, from
  <2>7. /\ r.ok <=> at + hl1 + len <= end
        /\ r.ok /\ at + hl1 <= value => Wrote(back, r.m, cells \o Stretch(back.bytes, value, len), 1)
        /\ ~r.ok => Idle(back, r.m)
    <3>1. value + len <= back.state.payload_end
      BY <1>1, <2>4
    <3> DEFINE q == str_encode(back, value, len, BSTR)
               body == IF value = External THEN Content(len) ELSE Stretch(back.bytes, value, len)
    <3>2. /\ q.ok <=> /\ zcbor_check_error(back) /\ len >= 0
                      /\ back.state.payload + zcbor_header_len(len) + len <= back.state.payload_end
          /\ q.ok /\ (value # External => back.state.payload + zcbor_header_len(len) <= value)
               => Wrote(back, q.m, Header(BSTR, len) \o body, 1)
          /\ ~q.ok => Idle(back, q.m)
      BY <1>1, <2>4, <2>6, <3>1, StringWrites
    <3>3. body = Stretch(back.bytes, value, len)
      BY <2>6
    <3>4. len >= 0 /\ zcbor_check_error(back)
      BY <1>1, <1>5, <2>4
    <3> HIDE DEF q, body
    <3>5. r = q
      BY <2>2 DEF q
    <3> QED BY <1>1, <2>1, <2>5, <2>6, <3>2, <3>3, <3>4, <3>5
  <2>8. r.ok => at + hl1 <= value
    <3> SUFFICES ASSUME r.ok PROVE hl1 <= hl0
      BY <2>3, <2>4
    <3> DEFINE s == back.state
    <3>1. /\ s.payload \in Nat /\ s.payload_end \in Nat /\ s.payload <= s.payload_end
          /\ s.payload + zcbor_header_len(len) + len <= s.payload_end
      BY <1>1, <2>1, <2>3, <2>4, <2>5, <2>7
    <3> HIDE DEF s
    <3>2. zcbor_header_len(len) <= zcbor_header_len(zcbor_remaining_str_len(s))
      BY <2>4, <3>1, NoLongerHeader
    <3> QED BY <2>5, <3>2 DEF s
  <2>9. CASE r.ok
    <3>1. Wrote(back, r.m, cells \o Stretch(mc.bytes, value, len), 1)
      BY <2>1, <2>7, <2>8, <2>9
    <3>2. Closed(mc, r.m, cells \o Stretch(mc.bytes, value, len))
      BY <1>1, <1>5, <3>1, WroteCloses
    <3> QED BY <2>7, <2>9, <3>2
  <2>10. CASE ~r.ok
    <3>1. Abandoned(mc, r.m)
      BY <1>1, <1>5, <2>7, <2>10, IdleAbandons
    <3> QED BY <2>7, <2>10, <3>1
  <2> QED BY <2>9, <2>10
<1> QED BY <1>4, <1>5

-----------------------------------------------------------------------------
(* What the caller has put into its containers is what there is.           *)

LEMMA IdleCorresponds ==
    ASSUME NEW can, NEW before, NEW fs, NEW mc, Corresponds(can, before, fs, mc),
           NEW n, Idle(mc, n)
    PROVE  Corresponds(can, before, fs, n)
BY DEF Corresponds, Idle, InPayload

\* Elements are added to the innermost container.
LEMMA WroteCorresponds ==
    ASSUME NEW can, NEW before \in Seq(Cell), NEW fs, NEW mc, Good(mc), Corresponds(can, before, fs, mc),
           NEW cells \in Seq(Cell), NEW e \in Nat, NEW n, Wrote(mc, n, cells, e)
    PROVE  Corresponds(can, before, Added(fs, cells, e), n)
<1> DEFINE ds == Added(fs, cells, e)
           k == Len(fs)
<1>1. /\ Framed(can, fs) /\ before \o InPayload(mc) = Outer(fs, k)
      /\ zcbor_check_error(mc) => /\ Owning(can, mc.backup_list, fs, Len(before))
                                  /\ CountsFor(can, mc.state, Last(fs))
  BY DEF Corresponds
<1>2. /\ Changed(fs, ds) /\ ds[k].elems = fs[k].elems + e /\ ds[k].usable = fs[k].usable
      /\ Outer(ds, k) = Outer(fs, k) \o cells
  BY <1>1, AddedFrames
<1> HIDE DEF ds
<1>3. Framed(can, ds) /\ Len(ds) = k /\ ds[k].kind = fs[k].kind
  BY <1>1, <1>2, ChangedFramed DEF Changed
<1>4. Last(ds) = ds[k] /\ Last(fs) = fs[k]
  BY <1>3 DEF Last
<1>5. before \o InPayload(n) = Outer(ds, Len(ds))
  <2> DEFINE p == InPayload(mc)
  <2>1. p \in Seq(Cell) /\ InPayload(n) = p \o cells
    BY PayloadType DEF Wrote
  <2>2. before \in Seq(Cell) /\ cells \in Seq(Cell) /\ p \in Seq(Cell)
    BY <2>1
  <2>3. before \o p = Outer(fs, k)
    BY <1>1
  <2> HIDE DEF p
  <2>4. (before \o p) \o cells = before \o (p \o cells)
    BY <2>2, ConcatAssociative
  <2> QED BY <1>2, <1>3, <2>1, <2>3, <2>4
<1>6. ASSUME zcbor_check_error(n)
      PROVE  Owning(can, n.backup_list, ds, Len(before)) /\ CountsFor(can, n.state, Last(ds))
  <2>1. zcbor_check_error(mc) /\ n.backup_list = mc.backup_list
        /\ n.state.elem_count = mc.state.elem_count + e
    BY <1>6 DEF Wrote
  <2>2. Owning(can, n.backup_list, ds, Len(before))
    <3> DEFINE list == mc.backup_list
               l == Len(before)
    <3>1. Len(list) \in Nat /\ Owning(can, list, fs, l)
      BY <1>1, <2>1, GoodType
    <3> HIDE DEF list, l
    <3>2. Owning(can, list, ds, l)
      BY <1>1, <1>2, <3>1, OwningChanged
    <3> QED BY <2>1, <3>2 DEF list, l
  <2>3. CountsFor(can, n.state, Last(ds))
    BY <1>1, <1>2, <1>3, <1>4, <2>1 DEF CountsFor
  <2> QED BY <2>2, <2>3
<1>7. Corresponds(can, before, ds, n)
  BY <1>3, <1>5, <1>6 DEF Corresponds
<1> QED BY <1>7 DEF ds

\* A container that keeps a backup starts.
LEMMA OpenedCorresponds ==
    ASSUME NEW can, NEW before \in Seq(Cell), NEW fs, NEW mc, Good(mc), Corresponds(can, before, fs, mc),
           NEW f \in FrameType, f.kind \in Kinds, Reserved(can, f), Backed(can, f),
           NEW n, Opened(mc, n, Cells(f)), CountsFor(can, n.state, f),
           f.kind = BSTR => f.header = Header(BSTR, zcbor_remaining_str_len(mc.state))
    PROVE  Corresponds(can, before, Append(fs, f), n)
<1> DEFINE ds == Append(fs, f)
           k == Len(fs)
           cells == Cells(f)
           k1 == k + 1
<1>1. /\ Framed(can, fs) /\ before \o InPayload(mc) = Outer(fs, k)
      /\ zcbor_check_error(mc) => /\ Owning(can, mc.backup_list, fs, Len(before))
                                  /\ CountsFor(can, mc.state, Last(fs))
  BY DEF Corresponds
<1>2. k \in Nat \ {0} /\ Last(fs) = fs[k] /\ cells \in Seq(Cell)
  <2>1. f.header \in Seq(Cell) /\ f.body \in Seq(Cell)
    BY DEF FrameType
  <2>2. cells \in Seq(Cell)
    BY <2>1, ConcatProperties DEF Cells
  <2> QED BY <1>1, <2>2, FrameBounds DEF Framed
<1>3. /\ Framed(can, ds) /\ Len(ds) = k1 /\ SameTo(fs, ds, k) /\ ds[k1] = f
      /\ Outer(ds, k) = Outer(fs, k) /\ Outer(ds, k1) = Outer(fs, k) \o cells
  BY <1>1, PushedFrames
<1> HIDE DEF ds, cells
<1>4. Last(ds) = f
  BY <1>3 DEF Last
<1>5. before \o InPayload(n) = Outer(ds, Len(ds))
  <2> DEFINE p == InPayload(mc)
  <2>1. p \in Seq(Cell) /\ InPayload(n) = p \o cells
    BY PayloadType DEF Opened, cells
  <2>2. before \in Seq(Cell) /\ cells \in Seq(Cell) /\ p \in Seq(Cell)
    BY <1>2, <2>1
  <2>3. before \o p = Outer(fs, k)
    BY <1>1
  <2> HIDE DEF p
  <2>4. (before \o p) \o cells = before \o (p \o cells)
    BY <2>2, ConcatAssociative
  <2> QED BY <1>3, <2>1, <2>3, <2>4
<1>6. Owning(can, n.backup_list, ds, Len(before))
  <2> DEFINE list == mc.backup_list
             l == Len(before)
             b == Start(mc)
  <2>1. zcbor_check_error(mc) /\ n.backup_list = Append(list, b)
    BY DEF Opened
  <2>2. /\ list \in Seq(Cursor) /\ b \in Cursor /\ b.payload_moved = FALSE
        /\ b.payload = mc.state.payload /\ b.payload_end = mc.state.payload_end
        /\ b.elem_count = mc.state.elem_count
    BY GoodType, StartIs
  <2>3. Owning(can, list, fs, l)
    BY <1>1, <2>1
  <2>4. l + mc.state.payload = Len(Outer(fs, k))
    <3>1. InPayload(mc) \in Seq(Cell) /\ Len(InPayload(mc)) = mc.state.payload
      BY PayloadType
    <3>2. Len(before \o InPayload(mc)) = l + Len(InPayload(mc))
      BY <3>1, ConcatProperties
    <3> QED BY <1>1, <3>1, <3>2
  <2>5. zcbor_remaining_str_len(mc.state) = zcbor_remaining_str_len(b)
    BY <2>2, RemainingIs
  <2> HIDE DEF b, list
  <2>6. Begins(can, b, ds, k1, l)
    <3>1. k1 - 1 = k /\ k \in 1 .. k
      BY <1>2
    <3>2. ds[k] = fs[k]
      BY <1>3, <3>1 DEF SameTo
    <3>3. CountsFor(can, b, ds[k])
      BY <1>1, <1>2, <2>1, <2>2, <3>2 DEF CountsFor
    <3> HIDE DEF k1, l
    <3> QED BY <1>3, <2>2, <2>4, <2>5, <3>1, <3>3 DEF Begins
  <2>7. Backed(can, ds[k1])
    BY <1>3
  <2>8. Owning(can, Append(list, b), ds, l)
    <3> HIDE DEF k, l
    <3>1. /\ k \in Nat \ {0} /\ Len(ds) = k + 1 /\ SameTo(fs, ds, k) /\ Len(fs) = k
          /\ Backed(can, ds[k + 1]) /\ Begins(can, b, ds, k + 1, l)
      BY <1>2, <1>3, <2>6, <2>7 DEF k
    <3> QED BY <2>2, <2>3, <3>1, OwningPushed
  <2> QED BY <2>1, <2>8
<1>7. Corresponds(can, before, ds, n)
  BY <1>3, <1>4, <1>5, <1>6 DEF Corresponds
<1> QED BY <1>7 DEF ds

\* A container that keeps none starts.
LEMMA StartedCorresponds ==
    ASSUME NEW can, NEW before \in Seq(Cell), NEW fs, NEW mc, Good(mc), Corresponds(can, before, fs, mc),
           NEW f \in FrameType, f.kind \in Kinds, Reserved(can, f), ~Backed(can, f), ~can,
           NEW n, NEW e, Wrote(mc, n, Cells(f), e)
    PROVE  Corresponds(can, before, Append(fs, f), n)
<1> DEFINE ds == Append(fs, f)
           k == Len(fs)
           cells == Cells(f)
           k1 == k + 1
<1>1. /\ Framed(can, fs) /\ before \o InPayload(mc) = Outer(fs, k)
      /\ zcbor_check_error(mc) => Owning(can, mc.backup_list, fs, Len(before))
  BY DEF Corresponds
<1>2. k \in Nat \ {0} /\ Last(fs) = fs[k] /\ cells \in Seq(Cell)
  <2>1. f.header \in Seq(Cell) /\ f.body \in Seq(Cell)
    BY DEF FrameType
  <2>2. cells \in Seq(Cell)
    BY <2>1, ConcatProperties DEF Cells
  <2> QED BY <1>1, <2>2, FrameBounds DEF Framed
<1>3. /\ Framed(can, ds) /\ Len(ds) = k1 /\ SameTo(fs, ds, k) /\ ds[k1] = f
      /\ Outer(ds, k) = Outer(fs, k) /\ Outer(ds, k1) = Outer(fs, k) \o cells
  BY <1>1, PushedFrames
<1> HIDE DEF ds, cells
<1>4. before \o InPayload(n) = Outer(ds, Len(ds))
  <2> DEFINE p == InPayload(mc)
  <2>1. p \in Seq(Cell) /\ InPayload(n) = p \o cells
    BY PayloadType DEF Wrote, cells
  <2>2. before \in Seq(Cell) /\ cells \in Seq(Cell) /\ p \in Seq(Cell)
    BY <1>2, <2>1
  <2>3. before \o p = Outer(fs, k)
    BY <1>1
  <2> HIDE DEF p
  <2>4. (before \o p) \o cells = before \o (p \o cells)
    BY <2>2, ConcatAssociative
  <2> QED BY <1>3, <2>1, <2>3, <2>4
<1>5. ASSUME zcbor_check_error(n) PROVE Owning(can, n.backup_list, ds, Len(before))
  <2> DEFINE list == mc.backup_list
             l == Len(before)
  <2>1. n.backup_list = list /\ Owning(can, list, fs, l) /\ Len(list) \in Nat
    BY <1>1, <1>5, GoodType DEF Wrote
  <2>2. /\ k \in Nat \ {0} /\ Len(ds) = k + 1 /\ SameTo(fs, ds, k) /\ Len(fs) = k
        /\ ~Backed(can, ds[k + 1])
    BY <1>2, <1>3
  <2> HIDE DEF list, l, k
  <2>3. Owning(can, list, ds, l)
    BY <2>1, <2>2, OwningUnbacked
  <2> QED BY <2>1, <2>3 DEF list, l
<1>6. Corresponds(can, before, ds, n)
  BY <1>3, <1>4, <1>5 DEF Corresponds, CountsFor
<1> QED BY <1>6 DEF ds

\* The innermost container, in the machine: where its backup is, that is where
\* it starts, and its body is where its header ends.
Innermost(can, before, fs, mc) ==
    LET k   == Len(fs)
        f   == fs[k]
        top == Uppermost(mc)
    IN  /\ mc.backup_list # << >>
        /\ Owning(can, SubSeq(mc.backup_list, 1, Len(mc.backup_list) - 1), Front(fs), Len(before))
        /\ CountsFor(can, top, fs[k - 1])
        /\ top \in Cursor
        /\ ~top.payload_moved =>
             /\ before \o Stretch(mc.bytes, 0, top.payload) = Outer(fs, k - 1)
             /\ Stretch(mc.bytes, top.payload + Len(f.header), Len(f.body)) = f.body
             /\ mc.state.payload = top.payload + Len(f.header) + Len(f.body)
             /\ f.kind = BSTR => f.header = Header(BSTR, zcbor_remaining_str_len(top))

LEMMA InnermostIs ==
    ASSUME NEW can, NEW before \in Seq(Cell), NEW fs, NEW mc, Good(mc), Corresponds(can, before, fs, mc),
           zcbor_check_error(mc), Len(fs) >= 2, Backed(can, fs[Len(fs)])
    PROVE  Innermost(can, before, fs, mc)
<1> DEFINE k == Len(fs)
           f == fs[k]
           top == Uppermost(mc)
<1>0. k = Len(fs) /\ f = fs[k] /\ top = Uppermost(mc) /\ k >= 2 /\ Backed(can, fs[k])
  OBVIOUS
<1> HIDE DEF k, f, top
<1> DEFINE list == mc.backup_list
           l == Len(before)
           ds == Front(fs)
<1>1. /\ Framed(can, fs) /\ before \o InPayload(mc) = Outer(fs, k) /\ Owning(can, list, fs, l)
  BY <1>0 DEF Corresponds
<1>2. /\ fs \in Seq(FrameType) /\ k \in Nat /\ k \in 1 .. Len(fs) /\ k - 1 \in 0 .. Len(fs)
      /\ list \in Seq(Cursor) /\ l \in Nat
  BY <1>0, <1>1, FrameBounds, GoodType, LenProperties DEF Framed
<1>3. Len(ds) = k - 1 /\ SameTo(fs, ds, k - 1)
  <2>1. Len(fs) > 1
    BY <1>0
  <2>2. Len(ds) = Len(fs) - 1 /\ SameTo(fs, ds, Len(fs) - 1)
    BY <1>1, <2>1, PoppedFrames
  <2> HIDE DEF ds
  <2> QED BY <1>0, <2>2
<1>4. /\ list # << >> /\ Begins(can, list[Len(list)], fs, k, l)
      /\ Owning(can, SubSeq(list, 1, Len(list) - 1), ds, l)
  <2> HIDE DEF list, ds, l
  <2> QED BY <1>0, <1>1, <1>2, <1>3, OwningPopped
<1>5. Begins(can, top, fs, k, l)
  BY <1>0, <1>4 DEF Uppermost
<1>6. CountsFor(can, top, fs[k - 1])
  BY <1>5 DEF Begins
<1>7. top \in Cursor /\ top.payload \in Nat
  <2>1. Len(list) \in 1 .. Len(list)
    BY <1>2, <1>4, EmptySeq
  <2>2. top \in Cursor
    BY <1>0, <2>1, GoodType DEF Uppermost
  <2> QED BY <2>2 DEF Cursor
<1>8. ASSUME ~top.payload_moved
      PROVE  /\ before \o Stretch(mc.bytes, 0, top.payload) = Outer(fs, k - 1)
             /\ Stretch(mc.bytes, top.payload + Len(f.header), Len(f.body)) = f.body
             /\ mc.state.payload = top.payload + Len(f.header) + Len(f.body)
             /\ f.kind = BSTR => f.header = Header(BSTR, zcbor_remaining_str_len(top))
  <2> DEFINE at == top.payload
             p == mc.state.payload
             bytes == mc.bytes
             o == Outer(fs, k - 1)
             c == Cells(f)
             hl == Len(f.header)
             bl == Len(f.body)
             z == 0
             q == p - at
  <2>1. l + at = Len(o) /\ (f.kind = BSTR => f.header = Header(BSTR, zcbor_remaining_str_len(top)))
    BY <1>0, <1>5, <1>8 DEF Begins
  <2>2. /\ f.header \in Seq(Cell) /\ f.body \in Seq(Cell) /\ c \in Seq(Cell) /\ Len(c) = hl + bl
        /\ hl \in Nat /\ bl \in Nat
    BY <1>0, <1>2, FrameFields, LenProperties
  <2>3. o \in Seq(Cell) /\ Len(o) \in Nat
    <3> DEFINE k0 == k - 1
    <3>1. k0 \in 0 .. Len(fs)
      BY <1>2
    <3> SUFFICES Outer(fs, k0) \in Seq(Cell) /\ Len(Outer(fs, k0)) \in Nat
      OBVIOUS
    <3> HIDE DEF k0
    <3> QED BY <1>2, <3>1, OuterType
  <2>4. Outer(fs, k) = o \o c
    BY <1>0, <1>2, OuterMore
  <2>5. bytes \in [Room -> Cell] /\ p \in Nat /\ p <= MaxBytes /\ MaxBytes \in Nat /\ at \in Nat /\ z \in Nat
    BY <1>7, GoodType, InputAssumption
  <2>6. InPayload(mc) = Stretch(bytes, z, p)
    BY DEF InPayload
  <2>7. f.header \o f.body = c
    BY DEF Cells
  <2> DEFINE header == f.header
             body == f.body
  <2> SUFFICES /\ before \o Stretch(bytes, z, at) = o
               /\ Stretch(bytes, at + hl, bl) = body
               /\ p = at + hl + bl
    BY <2>1
  <2>8. /\ header \in Seq(Cell) /\ body \in Seq(Cell) /\ header \o body = c
        /\ Len(header) = hl /\ Len(body) = bl
    BY <2>2, <2>7
  <2> HIDE DEF o, c, at, p, bytes, hl, bl, z, l, header, body
  <2>9. l + p = Len(o) + Len(c)
    <3>1. Stretch(bytes, z, p) \in Seq(Cell) /\ Len(Stretch(bytes, z, p)) = p
      <4>1. z + p <= MaxBytes
        BY <2>5 DEF z
      <4> QED BY <2>5, <4>1, StretchType
    <3> DEFINE s == Stretch(bytes, z, p)
    <3>2. before \o s = o \o c /\ s \in Seq(Cell) /\ Len(s) = p
      BY <1>1, <2>4, <2>6, <3>1
    <3> HIDE DEF s
    <3>3. Len(before \o s) = Len(before) + Len(s)
      BY <3>2, ConcatProperties
    <3>4. Len(o \o c) = Len(o) + Len(c)
      <4>1. o \in Seq(Cell) /\ c \in Seq(Cell)
        BY <2>2, <2>3
      <4> QED BY ONLY <4>1, ConcatProperties, Zenon
    <3> QED BY <3>2, <3>3, <3>4 DEF l
  <2>10. q \in Nat /\ q = hl + bl /\ p = at + hl + bl /\ p = at + q
    <3> DEFINE lo == Len(o)
    <3>1. l + at = lo /\ l + p = lo + (hl + bl) /\ l \in Nat /\ at \in Nat /\ p \in Nat /\ lo \in Nat
      BY <1>2, <2>1, <2>2, <2>3, <2>5, <2>9 DEF at, o
    <3>2. hl \in Nat /\ bl \in Nat
      BY <2>2
    <3> HIDE DEF lo
    <3> QED BY ONLY <3>1, <3>2
  <2> HIDE DEF q
  <2>11. Stretch(bytes, z, p) = Stretch(bytes, z, at) \o Stretch(bytes, at, q)
    <3>1. z + at + q <= MaxBytes /\ z + at = at
      BY <2>5, <2>10 DEF z
    <3>2. z \in Nat /\ at \in Nat /\ q \in Nat /\ bytes \in [Room -> Cell]
      BY <2>5, <2>10
    <3>3. Stretch(bytes, z, at + q) = Stretch(bytes, z, at) \o Stretch(bytes, z + at, q)
      BY ONLY <3>1, <3>2, StretchSplit, Zenon
    <3> QED BY <2>10, <3>1, <3>3
  <2> DEFINE a == Stretch(bytes, z, at)
             b == Stretch(bytes, at, q)
  <2>12. a \in Seq(Cell) /\ Len(a) = at /\ b \in Seq(Cell) /\ Len(b) = q
    <3>1. z + at <= MaxBytes /\ at + q <= MaxBytes
      BY <2>2, <2>5, <2>10 DEF z
    <3> QED BY <2>5, <2>10, <3>1, StretchType
  <2>13. before \o (a \o b) = o \o c
    BY <1>1, <2>4, <2>6, <2>11
  <2> HIDE DEF a, b
  <2>14. (before \o a) \o b = before \o (a \o b)
    <3>1. before \in Seq(Cell) /\ a \in Seq(Cell) /\ b \in Seq(Cell)
      BY <1>1, <2>12
    <3> QED BY ONLY <3>1, ConcatAssociative
  <2>15. before \o a \in Seq(Cell) /\ Len(before \o a) = l + at
    BY <2>12, ConcatProperties DEF l
  <2> DEFINE ba == before \o a
  <2>16. ba = o /\ b = c
    <3>1. ba \in Seq(Cell) /\ Len(ba) = Len(o) /\ ba \o b = o \o c
      BY <2>1, <2>13, <2>14, <2>15 DEF at, o
    <3> HIDE DEF ba
    <3> QED BY <2>2, <2>3, <2>12, <3>1, SameHalves
  <2>17. Stretch(bytes, at + hl, bl) = body
    <3> DEFINE b1 == Stretch(bytes, at, hl)
               b2 == Stretch(bytes, at + hl, bl)
               from == at + hl
    <3>1. at + hl + bl <= MaxBytes /\ from \in Nat /\ from + bl <= MaxBytes /\ at + hl <= MaxBytes
      BY <2>2, <2>5, <2>10
    <3>2. Stretch(bytes, at, hl + bl) = b1 \o b2
      <4>1. at \in Nat /\ hl \in Nat /\ bl \in Nat /\ bytes \in [Room -> Cell] /\ at + hl + bl <= MaxBytes
        BY <2>2, <2>5, <3>1
      <4> QED BY ONLY <4>1, StretchSplit, Zenon
    <3>3. b1 \in Seq(Cell) /\ Len(b1) = hl
      BY <2>2, <2>5, <3>1, StretchType
    <3>4. Stretch(bytes, from, bl) \in Seq(Cell)
      <4> HIDE DEF from
      <4> QED BY <2>2, <2>5, <3>1, StretchType
    <3>5. b2 \in Seq(Cell)
      BY <3>4
    <3>6. b1 \o b2 = header \o body
      BY <2>8, <2>10, <2>16, <3>2 DEF b
    <3> HIDE DEF b1, b2
    <3>7. b2 = body
      BY <2>8, <3>3, <3>5, <3>6, SameHalves
    <3> QED BY <3>7 DEF b2
  <2> QED BY <2>10, <2>16, <2>17 DEF a
<1>9. Innermost(can, before, fs, mc)
  <2> USE DEF k, f, top
  <2> HIDE DEF ds, list, l
  <2>1. /\ list # << >> /\ Owning(can, SubSeq(list, 1, Len(list) - 1), ds, l)
        /\ CountsFor(can, top, fs[k - 1]) /\ top \in Cursor
    BY <1>4, <1>6, <1>7
  <2> QED BY <1>8, <2>1 DEF Innermost, list, ds, l
<1> QED BY <1>9

\* The container is given up, and its backup with it.
LEMMA AbandonedCorresponds ==
    ASSUME NEW can, NEW before \in Seq(Cell), NEW fs, NEW mc, Good(mc), Corresponds(can, before, fs, mc),
           InUse(mc), Len(fs) >= 2, Backed(can, fs[Len(fs)]), NEW n, Abandoned(mc, n)
    PROVE  Corresponds(can, before, Front(fs), n)
<1> DEFINE k == Len(fs)
           ds == Front(fs)
           top == Uppermost(mc)
           f == fs[k]
<1>1. /\ Framed(can, fs) /\ k \in Nat /\ k - 1 \in 1 .. k - 1 /\ zcbor_check_error(mc)
      /\ ~top.payload_moved
  BY FrameBounds DEF Corresponds, Framed, InUse
<1>2. Framed(can, ds) /\ Len(ds) = k - 1 /\ SameTo(fs, ds, k - 1) /\ Outer(ds, k - 1) = Outer(fs, k - 1)
  BY <1>1, PoppedFrames
<1>3. /\ Owning(can, SubSeq(mc.backup_list, 1, Len(mc.backup_list) - 1), ds, Len(before))
      /\ CountsFor(can, top, fs[k - 1])
      /\ before \o Stretch(mc.bytes, 0, top.payload) = Outer(fs, k - 1)
  <2>1. k >= 2 /\ Innermost(can, before, fs, mc)
    BY <1>1, InnermostIs
  <2> QED BY <1>1, <2>1 DEF Innermost
<1>4. Last(ds) = fs[k - 1]
  <2>1. ds[k - 1] = fs[k - 1]
    BY <1>1, <1>2 DEF SameTo
  <2> QED BY <1>2, <2>1 DEF Last
<1> HIDE DEF ds, k, top
<1> QED BY <1>2, <1>3, <1>4 DEF Corresponds, Abandoned, CountsFor, ds, top

\* The container is ended: it is an element of the one around it.
LEMMA ClosedCorresponds ==
    ASSUME NEW can, NEW before \in Seq(Cell), NEW fs, NEW mc, Good(mc), Corresponds(can, before, fs, mc),
           zcbor_check_error(mc), Len(fs) >= 2, Backed(can, fs[Len(fs)]),
           NEW n, NEW cells \in Seq(Cell),
           n.backup_list = SubSeq(mc.backup_list, 1, Len(mc.backup_list) - 1),
           n.state.elem_count = Uppermost(mc).elem_count + 1,
           before \o InPayload(n) = Outer(fs, Len(fs) - 1) \o cells
    PROVE  Corresponds(can, before, Added(Front(fs), cells, 1), n)
<1> DEFINE k == Len(fs)
           k0 == k - 1
           ds == Front(fs)
           gs == Added(ds, cells, 1)
           top == Uppermost(mc)
           f == fs[k]
           list == SubSeq(mc.backup_list, 1, Len(mc.backup_list) - 1)
           l == Len(before)
<1>1. Framed(can, fs) /\ k \in Nat /\ k0 \in 1 .. k0 /\ k0 \in Nat
  BY FrameBounds DEF Corresponds, Framed
<1>2. Framed(can, ds) /\ Len(ds) = k0 /\ SameTo(fs, ds, k0) /\ Outer(ds, k0) = Outer(fs, k0)
  BY <1>1, PoppedFrames
<1>3. Owning(can, list, ds, l) /\ CountsFor(can, top, fs[k0]) /\ mc.backup_list # << >>
  <2>1. Innermost(can, before, fs, mc)
    BY <1>1, InnermostIs
  <2> QED BY <2>1 DEF Innermost
<1>4. Len(list) \in Nat
  <2>1. /\ Len(mc.backup_list) \in Nat
        /\ \A i \in 1 .. Len(mc.backup_list) : mc.backup_list[i] \in Cursor
    BY GoodType
  <2>2. list \in Seq(Cursor)
    <3> DEFINE nl == Len(mc.backup_list) - 1
    <3>1. nl \in Int /\ \A i \in 1 .. nl : mc.backup_list[i] \in Cursor
      BY <2>1
    <3> SUFFICES SubSeq(mc.backup_list, 1, nl) \in Seq(Cursor)
      OBVIOUS
    <3> HIDE DEF nl
    <3> QED BY <3>1, SubSeqProperties
  <2> QED BY <2>2, LenProperties
<1>5. ds[k0] = fs[k0]
  BY <1>1, <1>2 DEF SameTo
<1> HIDE DEF ds, k, k0, top, list
<1>6. /\ Changed(ds, gs) /\ gs[k0].elems = ds[k0].elems + 1 /\ gs[k0].usable = ds[k0].usable
      /\ Outer(gs, k0) = Outer(ds, k0) \o cells
  <2> DEFINE e == 1
  <2>1. e \in Nat
    OBVIOUS
  <2> SUFFICES LET hs == Added(ds, cells, e) IN
               /\ Changed(ds, hs) /\ hs[k0].elems = ds[k0].elems + e /\ hs[k0].usable = ds[k0].usable
               /\ Outer(hs, k0) = Outer(ds, k0) \o cells
    OBVIOUS
  <2> HIDE DEF e
  <2> QED BY <1>2, <2>1, AddedFrames
<1> HIDE DEF gs
<1>7. Framed(can, gs) /\ Len(gs) = k0 /\ gs[k0].kind = ds[k0].kind
  BY <1>2, <1>6, ChangedFramed DEF Changed
<1>8. Last(gs) = gs[k0]
  BY <1>7 DEF Last
<1>9. Owning(can, n.backup_list, gs, l)
  <2> HIDE DEF l
  <2>1. Owning(can, list, gs, l)
    BY <1>2, <1>3, <1>4, <1>6, OwningChanged
  <2> QED BY <2>1 DEF list
<1>10. CountsFor(can, n.state, Last(gs))
  BY <1>3, <1>5, <1>6, <1>7, <1>8 DEF CountsFor, top
<1>11. before \o InPayload(n) = Outer(gs, Len(gs))
  BY <1>2, <1>6, <1>7 DEF k0, k
<1>12. Corresponds(can, before, gs, n)
  BY <1>7, <1>9, <1>10, <1>11 DEF Corresponds
<1> QED BY <1>12 DEF gs, ds

\* The container is ended where it is: a byte more.
LEMMA EndedCorresponds ==
    ASSUME NEW can, ~can, NEW before \in Seq(Cell), NEW fs, NEW mc, Good(mc),
           Corresponds(can, before, fs, mc),
           Len(fs) >= 2, ~Backed(can, fs[Len(fs)]), NEW byte \in Seq(Cell),
           NEW n, NEW e, Wrote(mc, n, byte, e)
    PROVE  Corresponds(can, before, Added(Front(fs), Cells(fs[Len(fs)]) \o byte, 1), n)
<1> DEFINE k == Len(fs)
           k0 == k - 1
           ds == Front(fs)
           f == fs[k]
           c == Cells(f)
           cells == c \o byte
           gs == Added(ds, cells, 1)
           p == InPayload(mc)
           o == Outer(fs, k0)
           l == Len(before)
           list == mc.backup_list
<1>1. /\ Framed(can, fs) /\ before \o p = Outer(fs, k) /\ fs \in Seq(FrameType)
      /\ k \in Nat /\ k \in 1 .. Len(fs) /\ k0 \in 1 .. k0 /\ k0 \in Nat \ {0} /\ k0 + 1 = k
      /\ k0 \in 0 .. Len(fs)
      /\ zcbor_check_error(mc) => Owning(can, list, fs, l)
  BY FrameBounds DEF Corresponds, Framed
<1>2. Framed(can, ds) /\ Len(ds) = k0 /\ SameTo(fs, ds, k0) /\ Outer(ds, k0) = Outer(fs, k0)
  <2>1. Len(fs) > 1
    BY <1>1
  <2> QED BY <1>1, <2>1, PoppedFrames
<1>3. c \in Seq(Cell) /\ p \in Seq(Cell) /\ o \in Seq(Cell)
  <2>1. c \in Seq(Cell)
    BY <1>1, FrameFields
  <2>2. p \in Seq(Cell)
    BY PayloadType
  <2>3. o \in Seq(Cell)
    <3> HIDE DEF k0
    <3> QED BY <1>1, OuterType
  <2> QED BY <2>1, <2>2, <2>3
<1>4. Outer(fs, k) = o \o c /\ InPayload(n) = p \o byte
  BY <1>1, OuterMore DEF Wrote
<1>5. cells \in Seq(Cell)
  <2> HIDE DEF c
  <2> QED BY <1>3, ConcatProperties
<1>6. before \o (p \o byte) = o \o cells
  <2>1. before \in Seq(Cell) /\ c \in Seq(Cell) /\ p \in Seq(Cell) /\ o \in Seq(Cell) /\ byte \in Seq(Cell)
    BY <1>3
  <2>2. before \o p = o \o c
    BY <1>1, <1>4
  <2> HIDE DEF c, p, o
  <2>3. (before \o p) \o byte = before \o (p \o byte)
    BY <2>1, ConcatAssociative
  <2>4. (o \o c) \o byte = o \o (c \o byte)
    BY <2>1, ConcatAssociative
  <2> QED BY <2>2, <2>3, <2>4
<1> HIDE DEF ds, cells
<1>7. /\ Changed(ds, gs) /\ Outer(gs, k0) = Outer(ds, k0) \o cells
  <2> DEFINE one == 1
  <2>1. one \in Nat
    OBVIOUS
  <2> SUFFICES LET hs == Added(ds, cells, one) IN
               Changed(ds, hs) /\ Outer(hs, k0) = Outer(ds, k0) \o cells
    OBVIOUS
  <2> HIDE DEF one, k0
  <2> QED BY <1>2, <1>5, <2>1, AddedFrames
<1> HIDE DEF gs
<1>8. Framed(can, gs) /\ Len(gs) = k0
  BY <1>2, <1>7, ChangedFramed DEF Changed
<1>9. ASSUME zcbor_check_error(n) PROVE Owning(can, n.backup_list, gs, l)
  <2>1. n.backup_list = list /\ Owning(can, list, fs, l) /\ Len(list) \in Nat
    BY <1>1, <1>9, GoodType DEF Wrote
  <2>2. SameTo(ds, fs, k0)
    BY <1>2, SameToSym
  <2>3. k0 \in Nat \ {0} /\ Len(ds) = k0 /\ Len(fs) = k0 + 1 /\ ~Backed(can, fs[k0 + 1])
    BY <1>1, <1>2
  <2> HIDE DEF k0, l, list
  <2>4. Owning(can, list, ds, l)
    BY <2>1, <2>2, <2>3, OwningUnbacked
  <2>5. Owning(can, list, gs, l)
    BY <1>2, <1>7, <2>1, <2>4, OwningChanged
  <2> QED BY <2>1, <2>5
<1>10. before \o InPayload(n) = Outer(gs, Len(gs))
  BY <1>2, <1>4, <1>6, <1>7, <1>8
<1>11. Corresponds(can, before, gs, n)
  BY <1>8, <1>9, <1>10 DEF Corresponds, CountsFor
<1> QED BY <1>11 DEF gs, cells, ds

\* The caller cannot use its innermost container any more.
Lost(fs) == Append(Front(fs), [Last(fs) EXCEPT !.usable = FALSE])

LEMMA LostFrames ==
    ASSUME NEW can, NEW fs, Framed(can, fs)
    PROVE  /\ Changed(fs, Lost(fs)) /\ ~Lost(fs)[Len(fs)].usable
           /\ Outer(Lost(fs), Len(fs)) = Outer(fs, Len(fs))
<1> DEFINE ds == Lost(fs)
           n == Len(fs)
           f == fs[n]
           g == [f EXCEPT !.usable = FALSE]
           front == SubSeq(fs, 1, n - 1)
<1>1. /\ n \in Nat \ {0} /\ n \in 1 .. n /\ f \in FrameType /\ Last(fs) = f /\ fs \in Seq(FrameType)
      /\ fs # << >> /\ n - 1 \in 0 .. n /\ n - 1 \in Nat
  BY FrameBounds DEF Framed
<1>2. /\ g \in FrameType /\ g.kind = f.kind /\ g.header = f.header /\ g.usable = FALSE
      /\ g.size_hint = f.size_hint /\ g.body = f.body
  BY <1>1 DEF FrameType
<1>3. front \in Seq(FrameType) /\ Len(front) = n - 1 /\ \A i \in 1 .. n - 1 : front[i] = fs[i]
  <2>1. \A i \in 1 .. n - 1 : fs[i] \in FrameType
    BY <1>1, ElementOfSeq
  <2>2. n \in Nat \ {0} /\ 1 \in Int /\ n - 1 \in Int
    BY <1>1
  <2> HIDE DEF n, f, g
  <2> QED BY <2>1, <2>2, SubSeqProperties
<1>4. ds = Append(front, g)
  BY <1>1 DEF Lost, Front
<1> HIDE DEF front, g, ds
<1>5. /\ ds \in Seq(FrameType) /\ ds # << >> /\ Len(ds) = n
      /\ \A i \in 1 .. n - 1 : ds[i] = fs[i]
      /\ ds[n] = g
  BY <1>1, <1>2, <1>3, <1>4, AppendProperties
<1>6. SameTo(fs, ds, n - 1)
  BY <1>5 DEF SameTo
<1>7. Changed(fs, ds) /\ ~ds[n].usable
  BY <1>2, <1>5, <1>6 DEF Changed
<1>8. Outer(ds, n - 1) = Outer(fs, n - 1)
  BY <1>1, <1>6, OuterSame
<1>9. Outer(ds, n) = Outer(ds, n - 1) \o Cells(g) /\ Outer(fs, n) = Outer(fs, n - 1) \o Cells(f)
  BY <1>1, <1>5, OuterMore
<1>10. Cells(g) = Cells(f)
  BY <1>2 DEF Cells
<1> QED BY <1>7, <1>8, <1>9, <1>10 DEF ds

\* A start that fails leaves the container it was to be in, which may be lost.
LEMMA RefusedCorresponds ==
    ASSUME NEW can, NEW before, NEW fs, NEW mc, Good(mc), Corresponds(can, before, fs, mc),
           NEW n, Refused(mc, n)
    PROVE  /\ Corresponds(can, before, Lost(fs), n)
           /\ (CountsFor(can, mc.state, Last(fs)) => CountsFor(can, n.state, Last(fs)))
                => Corresponds(can, before, fs, n)
<1> DEFINE ds == Lost(fs)
           k == Len(fs)
<1>1. /\ Framed(can, fs) /\ before \o InPayload(mc) = Outer(fs, k)
      /\ zcbor_check_error(mc) => /\ Owning(can, mc.backup_list, fs, Len(before))
                                  /\ CountsFor(can, mc.state, Last(fs))
  BY DEF Corresponds
<1>2. Changed(fs, ds) /\ ~ds[k].usable /\ Outer(ds, k) = Outer(fs, k)
  BY <1>1, LostFrames
<1> HIDE DEF ds
<1>3. Framed(can, ds) /\ Len(ds) = k /\ Last(ds) = ds[k]
  BY <1>1, <1>2, ChangedFramed DEF Changed, Last
<1>4. ASSUME zcbor_check_error(n)
      PROVE  /\ Owning(can, n.backup_list, fs, Len(before)) /\ CountsFor(can, mc.state, Last(fs))
             /\ Owning(can, n.backup_list, ds, Len(before))
  <2> DEFINE list == mc.backup_list
             l == Len(before)
  <2>1. n.backup_list = list /\ Owning(can, list, fs, l) /\ CountsFor(can, mc.state, Last(fs))
    BY <1>1, <1>4 DEF Refused
  <2>2. Len(list) \in Nat
    BY GoodType
  <2> HIDE DEF list, l
  <2>3. Owning(can, list, ds, l)
    BY <1>1, <1>2, <2>1, <2>2, OwningChanged
  <2> QED BY <2>1, <2>3 DEF l
<1>5. CountsFor(can, n.state, Last(ds))
  BY <1>2, <1>3 DEF CountsFor
<1>6. Corresponds(can, before, ds, n)
  BY <1>1, <1>2, <1>3, <1>4, <1>5 DEF Corresponds, Refused
<1>7. ASSUME CountsFor(can, mc.state, Last(fs)) => CountsFor(can, n.state, Last(fs))
      PROVE  Corresponds(can, before, fs, n)
  BY <1>1, <1>4, <1>7 DEF Corresponds, Refused
<1> QED BY <1>6, <1>7 DEF ds

\* A payload section is full: what is in it was sent.
LEMMA SentMore ==
    ASSUME NEW parts \in Seq(Seq(Cell)), NEW p \in Seq(Cell)
    PROVE  /\ FlattenSeq(parts) \in Seq(Cell)
           /\ Append(parts, p) \in Seq(Seq(Cell))
           /\ FlattenSeq(Append(parts, p)) = FlattenSeq(parts) \o p
<1> DEFINE n == Len(parts)
           t == Append(parts, p)
<1>1. n \in Nat /\ (n = 0 => parts = << >>) /\ \A i \in 1 .. n : parts[i] \in Seq(Cell)
  BY LenProperties, EmptySeq, ElementOfSeq
<1>2. FlattenSeq(parts) \in Seq(Cell)
  <2> HIDE DEF n
  <2>1. /\ Len(parts) \in Nat /\ (Len(parts) = 0 => parts = << >>)
        /\ \A i \in 1 .. Len(parts) : parts[i] \in Seq(Cell)
    BY <1>1 DEF n
  <2> QED BY <2>1, FlattenType
<1>3. /\ t \in Seq(Seq(Cell)) /\ Len(t) = n + 1 /\ t[n + 1] = p
      /\ \A i \in 1 .. n : t[i] = parts[i]
  BY AppendProperties
<1>4. SameTo(parts, t, n)
  BY <1>3 DEF SameTo
<1>5. Len(parts) = n
  OBVIOUS
<1> HIDE DEF n, t
<1>6. FlattenSeq(t) = IF n = 0 THEN t[1] ELSE FlattenSeq(parts) \o t[n + 1]
  BY <1>1, <1>3, <1>4, <1>5, FlattenMore
<1>7. CASE n = 0
  <2>1. FlattenSeq(parts) = << >> /\ FlattenSeq(t) = p
    BY <1>1, <1>3, <1>5, <1>6, <1>7, FlattenNone
  <2> QED BY <1>2, <1>3, <2>1, ConcatEmptySeq DEF t
<1>8. CASE n # 0
  BY <1>2, <1>3, <1>6, <1>8 DEF t
<1> QED BY <1>7, <1>8

\* The next section is empty, and no container that is open begins in it.
LEMMA NextCorresponds ==
    ASSUME NEW can, NEW before \in Seq(Cell), NEW fs, NEW mc, Good(mc), Corresponds(can, before, fs, mc),
           NEW payload_len \in Payloads
    PROVE  Corresponds(can, before \o InPayload(mc), fs,
                       [zcbor_update_state(mc, payload_len) EXCEPT !.bytes = Fresh])
<1> DEFINE n == [zcbor_update_state(mc, payload_len) EXCEPT !.bytes = Fresh]
           later == before \o InPayload(mc)
           list == mc.backup_list
           l == Len(before)
           ll == Len(later)
<1>1. /\ Framed(can, fs) /\ later = Outer(fs, Len(fs))
      /\ zcbor_check_error(mc) => Owning(can, list, fs, l) /\ CountsFor(can, mc.state, Last(fs))
  BY DEF Corresponds
<1>2. mc \in Machine /\ mc.state \in Cursor /\ list \in Seq(Cursor)
  BY GoodType
<1>3. /\ n.state.payload = 0 /\ n.state.elem_count = mc.state.elem_count
      /\ (zcbor_check_error(n) <=> zcbor_check_error(mc))
  BY <1>2 DEF Machine, Cursor, zcbor_update_state, InSection, zcbor_check_error
<1>4. n.backup_list = [i \in DOMAIN list |->
                         [InSection(list[i], payload_len) EXCEPT !.payload_moved = TRUE]]
  BY <1>2 DEF Machine, zcbor_update_state
<1>5. /\ Len(n.backup_list) = Len(list)
      /\ \A i \in 1 .. Len(list) : /\ n.backup_list[i].payload_moved
                                   /\ n.backup_list[i].elem_count = list[i].elem_count
  <2>1. DOMAIN list = 1 .. Len(list) /\ Len(list) \in Nat /\ \A i \in 1 .. Len(list) : list[i] \in Cursor
    BY <1>2, LenProperties, ElementOfSeq
  <2> DEFINE more == [i \in 1 .. Len(list) |->
                        [InSection(list[i], payload_len) EXCEPT !.payload_moved = TRUE]]
  <2>2. \A i \in 1 .. Len(list) : more[i].payload_moved /\ more[i].elem_count = list[i].elem_count
    <3> SUFFICES ASSUME NEW i \in 1 .. Len(list)
                 PROVE  more[i].payload_moved /\ more[i].elem_count = list[i].elem_count
      OBVIOUS
    <3> DEFINE c == list[i]
    <3>1. c \in Cursor
      BY <2>1
    <3>2. more[i] = [InSection(c, payload_len) EXCEPT !.payload_moved = TRUE]
      OBVIOUS
    <3> HIDE DEF c, more
    <3> QED BY <3>1, <3>2 DEF Cursor, InSection, c
  <2>3. n.backup_list = more /\ Len(more) = Len(list)
    BY <1>4, <2>1
  <2> HIDE DEF n, more
  <2> QED BY <2>2, <2>3
<1>6. InPayload(n) = << >>
  BY <1>3 DEF InPayload, Stretch
<1>7. later \in Seq(Cell)
  <2>1. InPayload(mc) \in Seq(Cell)
    BY PayloadType
  <2> DEFINE p == InPayload(mc)
  <2>2. p \in Seq(Cell)
    BY <2>1
  <2> HIDE DEF p
  <2>3. before \o p \in Seq(Cell)
    BY <2>2, ConcatProperties
  <2> QED BY <2>3 DEF p
<1> HIDE DEF n, later
<1>8. later \o InPayload(n) = Outer(fs, Len(fs))
  BY <1>1, <1>6, <1>7, ConcatEmptySeq
<1>9. ASSUME zcbor_check_error(n) PROVE Owning(can, n.backup_list, fs, ll)
  <2> DEFINE more == n.backup_list
  <2>1. Owning(can, list, fs, l) /\ Len(more) = Len(list)
        /\ \A i \in 1 .. Len(list) : more[i].payload_moved /\ more[i].elem_count = list[i].elem_count
    BY <1>1, <1>3, <1>5, <1>9
  <2> HIDE DEF more, list, l, ll
  <2>2. Owning(can, more, fs, ll)
    BY <2>1, OwningMoved
  <2> QED BY <2>2 DEF more
<1>10. Corresponds(can, later, fs, n)
  BY <1>1, <1>3, <1>8, <1>9 DEF Corresponds, CountsFor
<1> QED BY <1>10 DEF n, later

\* Nothing is written yet, and no container is open but the payload.
LEMMA InitCorresponds ==
    ASSUME Init
    PROVE  WInv
<1>1. Good(m)
  BY InitInvariant DEF IInv
<1>2. /\ asked = << Frame(SIMPLE, << >>, 0) >> /\ sent = << >> /\ canonical \in BOOLEAN
      /\ m.state.payload = 0 /\ m.backup_list = << >>
  BY BuildAssumption DEF Init
<1>3. FlattenSeq(sent) = << >> /\ sent \in Seq(Seq(Cell))
  <2>1. Len(sent) = 0 /\ sent \in Seq(Seq(Cell))
    BY <1>2, EmptySeq
  <2> QED BY <1>2, <2>1, FlattenNone
<1>4. InPayload(m) = << >>
  BY <1>2 DEF InPayload, Stretch
<1> DEFINE f == Frame(SIMPLE, << >>, 0)
<1>5. f \in FrameType /\ f.kind = SIMPLE /\ Cells(f) = << >>
  <2>1. << >> \in Seq(Cell) /\ << >> \o << >> = << >>
    BY EmptySeq, ConcatEmptySeq
  <2> QED BY <2>1 DEF Frame, FrameType, Cells
<1> HIDE DEF f
<1>6. asked \in Seq(FrameType) /\ Len(asked) = 1 /\ asked[1] = f /\ Last(asked) = f /\ asked # << >>
  BY <1>2, <1>5 DEF f, Last
<1>7. Framed(canonical, asked)
  BY <1>5, <1>6 DEF Framed, Reserved, SIMPLE, LIST, MAP
<1>8. Outer(asked, Len(asked)) = << >>
  <2>1. 1 \in 1 .. Len(asked)
    BY <1>6
  <2> DEFINE one == 1
             z == one - 1
  <2>2. one \in 1 .. Len(asked) /\ asked[one] = f
    BY <1>6, <2>1
  <2>3. z = 0 /\ 0 \in 0 .. Len(asked)
    BY <1>6
  <2> HIDE DEF one
  <2>4. Outer(asked, one) = Outer(asked, z) \o Cells(f)
    BY <1>6, <2>2, OuterMore
  <2> HIDE DEF z
  <2>5. Outer(asked, 0) = << >>
    <3>1. [i \in 1 .. 0 |-> Cells(asked[i])] = << >>
      OBVIOUS
    <3>2. Len(<< >>) = 0
      BY EmptySeq
    <3> QED BY <3>1, <3>2, FlattenNone DEF Outer
  <2>6. << >> \o << >> = << >>
    BY EmptySeq, ConcatEmptySeq
  <2> QED BY <1>5, <1>6, <2>3, <2>4, <2>5, <2>6 DEF one
<1>9. Owning(canonical, m.backup_list, asked, 0)
  <2> DEFINE owner == [i \in 1 .. 0 |-> i]
  <2>1. Len(m.backup_list) = 0
    BY <1>2, EmptySeq
  <2>2. owner \in [1 .. Len(m.backup_list) -> 2 .. Len(asked)]
    BY <2>1
  <2>3. Owned(canonical, owner, m.backup_list, asked, 0)
    BY <1>6, <2>1, <2>2 DEF Owned
  <2> QED BY <2>3 DEF Owning
<1>10. CountsFor(canonical, m.state, Last(asked))
  BY <1>5, <1>6 DEF CountsFor, SIMPLE, LIST, MAP
<1>11. Corresponds(canonical, FlattenSeq(sent), asked, m)
  <2>1. Len(<< >>) = 0 /\ << >> \o << >> = << >>
    BY EmptySeq, ConcatEmptySeq
  <2> QED BY <1>3, <1>4, <1>7, <1>8, <1>9, <1>10, <2>1 DEF Corresponds
<1> QED BY <1>1, <1>2, <1>3, <1>11 DEF WInv, IInv

-----------------------------------------------------------------------------
(* What an end makes of the innermost container.                           *)

LEMMA TopIs ==
    ASSUME WInv
    PROVE  /\ Good(m) /\ Corresponds(canonical, FlattenSeq(sent), asked, m)
           /\ FlattenSeq(sent) \in Seq(Cell)
           /\ Framed(canonical, asked) /\ asked \in Seq(FrameType) /\ Len(asked) \in Nat \ {0}
           /\ Top = asked[Len(asked)] /\ Top \in FrameType
           /\ Top.header \in Seq(Cell) /\ Top.body \in Seq(Cell)
           /\ Len(Top.header \o Top.body) = Len(Top.header) + Len(Top.body)
           /\ Top.kind \in Kinds => Len(asked) >= 2
<1>1. Good(m) /\ Corresponds(canonical, FlattenSeq(sent), asked, m) /\ Framed(canonical, asked)
  BY DEF WInv, IInv, Corresponds
<1>2. FlattenSeq(sent) \in Seq(Cell)
  <2>1. sent \in Seq(Seq(Cell)) /\ << >> \in Seq(Cell)
    BY EmptySeq DEF WInv
  <2> QED BY <2>1, SentMore
<1>3. /\ asked \in Seq(FrameType) /\ asked # << >> /\ asked[1].kind = SIMPLE
      /\ Len(asked) \in Nat \ {0} /\ Len(asked) \in 1 .. Len(asked)
      /\ Top = asked[Len(asked)] /\ Top \in FrameType
  BY <1>1, FrameBounds DEF Framed, Top
<1>4. /\ Top.header \in Seq(Cell) /\ Top.body \in Seq(Cell)
      /\ Len(Top.header \o Top.body) = Len(Top.header) + Len(Top.body)
  <2> DEFINE h == Top.header
             b == Top.body
  <2>1. h \in Seq(Cell) /\ b \in Seq(Cell)
    BY <1>3 DEF FrameType
  <2> HIDE DEF h, b
  <2>2. Len(h \o b) = Len(h) + Len(b)
    BY ONLY <2>1, ConcatProperties, Zenon
  <2> QED BY <2>1, <2>2 DEF h, b
<1>5. Top.kind \in Kinds => Len(asked) >= 2
  BY <1>3 DEF Kinds, SIMPLE, LIST, MAP, BSTR
<1> QED BY <1>1, <1>2, <1>3, <1>4, <1>5

\* The container, ended, is behind all that was there before it; its backup is
\* gone, and it is counted.
Finished(n) ==
    /\ n.backup_list = SubSeq(m.backup_list, 1, Len(m.backup_list) - 1)
    /\ n.state.elem_count = Uppermost(m).elem_count + 1
    /\ FlattenSeq(sent) \o InPayload(n) = Outer(asked, Len(asked) - 1) \o Ended(Top)

\* Ended, it fits into the payload.
Fits == m.state.payload - Len(Top.header \o Top.body) + Len(Ended(Top)) <= m.state.payload_end

\* What an end does.
Ends(r) ==
    /\ r.ok => Finished(r.m) /\ zcbor_check_error(m)
    /\ ~r.ok => Idle(m, r.m) \/ (InUse(m) /\ Abandoned(m, r.m))
    /\ InUse(m) => (r.ok <=> Fits)

\* Closed behind what was there is finished.
LEMMA ClosedFinished ==
    ASSUME WInv, NEW n, Closed(m, n, Ended(Top)), Ended(Top) \in Seq(Cell),
           FlattenSeq(sent) \o Stretch(m.bytes, 0, Uppermost(m).payload) = Outer(asked, Len(asked) - 1),
           Uppermost(m) \in Cursor, Uppermost(m).payload <= MaxBytes
    PROVE  Finished(n)
<1> DEFINE before == FlattenSeq(sent)
           at == Uppermost(m).payload
           s == Stretch(m.bytes, 0, at)
           cells == Ended(Top)
           z == 0
<1>1. before \in Seq(Cell) /\ m.bytes \in [Room -> Cell] /\ MaxBytes \in Nat
  BY TopIs, GoodType, InputAssumption
<1>2. s \in Seq(Cell)
  <2>1. at \in Nat /\ z \in Nat /\ z + at <= MaxBytes
    BY <1>1 DEF Cursor
  <2> SUFFICES Stretch(m.bytes, z, at) \in Seq(Cell)
    OBVIOUS
  <2> HIDE DEF at, z
  <2> QED BY <1>1, <2>1, StretchType
<1>3. InPayload(n) = s \o cells
  BY DEF Closed
<1>4. before \in Seq(Cell) /\ s \in Seq(Cell) /\ cells \in Seq(Cell)
  BY <1>1, <1>2
<1>5. before \o (s \o cells) = (before \o s) \o cells
  <2> HIDE DEF before, s, cells
  <2> QED BY ONLY <1>4, ConcatAssociative
<1> QED BY <1>3, <1>5 DEF Finished, Closed

\* A CBOR byte string.
LEMMA BstrEnds ==
    ASSUME WInv, Top.kind = BSTR
    PROVE  Ends(zcbor_bstr_end_encode(m)) /\ Ended(Top) \in Seq(Cell)
<1> DEFINE r == zcbor_bstr_end_encode(m)
           top == Uppermost(m)
           hl == zcbor_header_len(zcbor_remaining_str_len(top))
           value == top.payload + hl
           len == m.state.payload - value
           before == FlattenSeq(sent)
           bl == Len(Top.body)
           fl == zcbor_header_len(bl)
           at == top.payload
           p == m.state.payload
           end == m.state.payload_end
<1>1. /\ Good(m) /\ Corresponds(canonical, before, asked, m) /\ before \in Seq(Cell)
      /\ Top = asked[Len(asked)] /\ Top.header \in Seq(Cell) /\ Top.body \in Seq(Cell)
      /\ Len(Top.header \o Top.body) = Len(Top.header) + bl
      /\ Len(asked) >= 2 /\ Backed(canonical, asked[Len(asked)])
  BY TopIs DEF Kinds, Backed
<1>2. bl \in Nat /\ fl \in Nat /\ hl \in Nat
  BY <1>1, LenProperties, HeaderLen
<1>3. Header(BSTR, bl) \in Seq(Cell) /\ Len(Header(BSTR, bl)) = fl
  <2>1. BSTR \in Int /\ bl \in Int
    BY <1>2 DEF BSTR
  <2> HIDE DEF bl, fl
  <2> QED BY <2>1, HeaderType DEF fl
<1>4. /\ Ended(Top) = Header(BSTR, bl) \o Top.body /\ Ended(Top) \in Seq(Cell)
      /\ Len(Ended(Top)) = fl + bl
  <2>1. Ended(Top) = Header(BSTR, bl) \o Top.body
    BY DEF Ended
  <2> DEFINE h == Header(BSTR, bl)
             b == Top.body
  <2>2. h \in Seq(Cell) /\ b \in Seq(Cell) /\ Len(h) = fl /\ Len(b) = bl
    BY <1>1, <1>3
  <2> HIDE DEF h, b, fl, bl
  <2>3. h \o b \in Seq(Cell) /\ Len(h \o b) = Len(h) + Len(b)
    BY ONLY <2>2, ConcatProperties, Zenon
  <2> QED BY <2>1, <2>2, <2>3 DEF h, b
<1>5. CASE ~InUse(m)
  <2>1. ~r.ok /\ Idle(m, r.m)
    BY <1>1, <1>5, BstrEndCloses
  <2> HIDE DEF r
  <2> QED BY <1>4, <1>5, <2>1 DEF Ends, r
<1>6. CASE InUse(m)
  <2>1. zcbor_check_error(m) /\ ~top.payload_moved
    BY <1>6 DEF InUse
  <2>2. Innermost(canonical, before, asked, m)
    <3> HIDE DEF before
    <3> QED BY <1>1, <2>1, InnermostIs
  <2>3. /\ top \in Cursor
        /\ before \o Stretch(m.bytes, 0, top.payload) = Outer(asked, Len(asked) - 1)
        /\ Stretch(m.bytes, at + Len(Top.header), bl) = Top.body
        /\ p = at + Len(Top.header) + bl
        /\ Top.header = Header(BSTR, zcbor_remaining_str_len(top))
    <3> HIDE DEF before
    <3> QED BY <1>1, <2>1, <2>2 DEF Innermost
  <2>4. at \in Nat /\ p \in Nat /\ end \in Nat /\ p <= end /\ p <= MaxBytes /\ top.payload_end \in Nat
    <3>1. p \in Nat /\ end \in Nat /\ p <= end /\ p <= MaxBytes
      <4>1. /\ p \in Nat /\ end \in Nat /\ p <= end /\ end <= MaxBytes /\ MaxBytes \in Nat
        BY <1>1, GoodType, InputAssumption
      <4> HIDE DEF p, end
      <4> QED BY <4>1
    <3>2. top.payload \in Nat /\ top.payload_end \in Payloads
      <4> HIDE DEF top
      <4> QED BY <2>3 DEF Cursor
    <3>3. Payloads \subseteq Nat
      BY InputAssumption
    <3> HIDE DEF top
    <3> QED BY <3>1, <3>2, <3>3 DEF top
  <2>5. Len(Top.header) = hl
    <3>1. BSTR \in Int /\ zcbor_remaining_str_len(top) \in Int
      <4>1. top.payload \in Int /\ top.payload_end \in Int
        BY <2>4
      <4> HIDE DEF top
      <4> QED BY <4>1, RemainingInt DEF BSTR
    <3> QED BY <2>3, <3>1, HeaderType
  <2>6. value = at + hl /\ len = bl /\ len >= 0 /\ at <= MaxBytes
    <3>1. p = at + hl + bl
      BY <2>3, <2>5
    <3>2. value = at + hl /\ len = p - value
      OBVIOUS
    <3>3. hl \in Nat /\ bl \in Nat /\ at \in Nat /\ p \in Nat /\ p <= MaxBytes /\ MaxBytes \in Nat
      BY <1>2, <2>4, InputAssumption
    <3> HIDE DEF value, len, at, hl, bl, p
    <3> QED BY <3>1, <3>2, <3>3
  <2>7. /\ r.ok <=> at + fl + bl <= end
        /\ r.ok => Closed(m, r.m, Ended(Top))
        /\ ~r.ok => Abandoned(m, r.m)
    <3>1. /\ r.ok <=> top.payload + zcbor_header_len(len) + len <= m.state.payload_end
          /\ r.ok => Closed(m, r.m, Header(BSTR, len) \o Stretch(m.bytes, value, len))
          /\ ~r.ok => Abandoned(m, r.m)
      BY <1>1, <1>6, <2>6, BstrEndCloses
    <3>2. Stretch(m.bytes, value, bl) = Top.body
      BY <2>3, <2>5, <2>6
    <3> HIDE DEF r, len, value
    <3> QED BY <1>4, <2>6, <3>1, <3>2
  <2>8. Fits <=> at + fl + bl <= end
    <3> DEFINE le == Len(Ended(Top))
               lt == Len(Top.header \o Top.body)
    <3>1. le = fl + bl /\ lt = hl + bl /\ p = at + hl + bl
      BY <1>1, <1>4, <2>3, <2>5
    <3>2. Fits <=> p - lt + le <= end
      BY DEF Fits
    <3> HIDE DEF le, lt, p, at, fl, bl, hl, end
    <3> QED BY <1>2, <2>4, <3>1, <3>2
  <2>9. r.ok => Finished(r.m)
    <3> HIDE DEF r
    <3>1. top \in Cursor /\ top.payload <= MaxBytes
      BY <2>3, <2>6
    <3> QED BY <1>4, <2>3, <2>7, <3>1, ClosedFinished
  <2> HIDE DEF r
  <2>10. Ends(r)
    BY <1>6, <2>1, <2>7, <2>8, <2>9 DEF Ends
  <2> QED BY <1>4, <2>10 DEF r
<1> QED BY <1>5, <1>6

LEMMA CountIs ==
    ASSUME NEW s, s.elem_count \in Int, NEW f, f.elems \in Nat
    PROVE  /\ ListCount(s, f.kind) \in Int /\ Count(f) \in Nat
           /\ s.elem_count = f.elems => ListCount(s, f.kind) = Count(f)
<1>1. \A n \in Int : n \div 2 \in Int
  OBVIOUS
<1>2. \A n \in Nat : n \div 2 \in Nat
  OBVIOUS
<1> QED BY <1>1, <1>2 DEF ListCount, Count

\* A list or map with a backup: its header stays if the count is the hint, and
\* comes again, before the body, if it is not.
LEMMA ListEnds ==
    ASSUME WInv, canonical, Top.kind \in {LIST, MAP}, Top.usable
    PROVE  Ends(list_map_end_encode(m, Top.size_hint, Top.kind)) /\ Ended(Top) \in Seq(Cell)
<1> DEFINE r == list_map_end_encode(m, Top.size_hint, Top.kind)
           top == Uppermost(m)
           count == Count(Top)
           list_count == ListCount(m.state, Top.kind)
           hint == Top.size_hint
           kind == Top.kind
           hl == zcbor_header_len(hint)
           before == FlattenSeq(sent)
           bl == Len(Top.body)
           fl == zcbor_header_len(count)
           at == top.payload
           p == m.state.payload
           end == m.state.payload_end
           k == Len(asked)
<1>1. /\ Good(m) /\ Corresponds(canonical, before, asked, m) /\ before \in Seq(Cell)
      /\ Top = asked[k] /\ Top.header \in Seq(Cell) /\ Top.body \in Seq(Cell)
      /\ Len(Top.header \o Top.body) = Len(Top.header) + bl
      /\ k \in Nat \ {0} /\ k \in 1 .. k /\ k >= 2 /\ Backed(canonical, asked[k])
      /\ asked \in Seq(FrameType) /\ Framed(canonical, asked)
  <2>1. Top.kind \in Kinds
    BY DEF Kinds
  <2>2. /\ Good(m) /\ Corresponds(canonical, before, asked, m) /\ before \in Seq(Cell)
        /\ Top = asked[k] /\ Top.header \in Seq(Cell) /\ Top.body \in Seq(Cell)
        /\ Len(Top.header \o Top.body) = Len(Top.header) + bl
        /\ k \in Nat \ {0} /\ k >= 2
        /\ asked \in Seq(FrameType) /\ Framed(canonical, asked)
    BY <2>1, TopIs
  <2>3. k \in 1 .. k
    BY <2>2
  <2>4. Backed(canonical, asked[k])
    BY <2>2 DEF Backed
  <2> QED BY <2>2, <2>3, <2>4
<1>2. kind \in Int /\ hint \in Int /\ list_count \in Int /\ count \in Nat
      /\ (m.state.elem_count = Top.elems => list_count = count)
  <2>1. hint \in Nat /\ Top.elems \in Nat /\ m.state.elem_count \in Int
    BY <1>1, TopIs, GoodType DEF FrameType
  <2>2. kind \in Int /\ hint \in Int
    BY <2>1 DEF LIST, MAP
  <2> QED BY <2>1, <2>2, CountIs
<1>3. zcbor_check_error(m) => list_count = count
  <2>1. zcbor_check_error(m) => CountsFor(canonical, m.state, Last(asked))
    BY <1>1 DEF Corresponds
  <2>2. Last(asked) = Top
    BY DEF Top
  <2>3. zcbor_check_error(m) => m.state.elem_count = Top.elems
    BY <2>1, <2>2 DEF CountsFor
  <2> HIDE DEF list_count, count
  <2> QED BY <1>2, <2>3
<1>4. Top.header = Header(kind, hint)
  <2>1. Reserved(canonical, Top)
    BY <1>1 DEF Framed
  <2> QED BY <2>1 DEF Reserved
<1>5. bl \in Nat /\ fl \in Nat /\ hl \in Nat
  BY <1>1, LenProperties, HeaderLen
<1>6. /\ Header(kind, count) \in Seq(Cell) /\ Len(Header(kind, count)) = fl
      /\ Len(Top.header) = hl
  <2>1. kind \in Int /\ hint \in Int /\ count \in Int
    BY <1>2
  <2> HIDE DEF kind, hint, count
  <2> QED BY <1>4, <2>1, HeaderType
<1>7. /\ Ended(Top) = Header(kind, count) \o Top.body /\ Ended(Top) \in Seq(Cell)
      /\ Len(Ended(Top)) = fl + bl
  <2>1. Ended(Top) = Header(kind, count) \o Top.body
    <3>1. kind # BSTR
      BY DEF LIST, MAP, BSTR
    <3> QED BY <3>1 DEF Ended
  <2> DEFINE h == Header(kind, count)
             b == Top.body
  <2>2. h \in Seq(Cell) /\ b \in Seq(Cell) /\ Len(h) = fl /\ Len(b) = bl
    BY <1>1, <1>6
  <2> HIDE DEF h, b, fl, bl
  <2>3. h \o b \in Seq(Cell) /\ Len(h \o b) = Len(h) + Len(b)
    BY ONLY <2>2, ConcatProperties, Zenon
  <2> QED BY <2>1, <2>2, <2>3 DEF h, b
<1>8. r = IF hint = list_count THEN KeepHeader(m) ELSE NewHeader(m, hint, list_count, kind)
  BY DEF list_map_end_encode
<1>9. p \in Nat /\ end \in Nat /\ p <= end /\ end <= MaxBytes /\ MaxBytes \in Nat
  BY <1>1, GoodType, InputAssumption
<1> HIDE DEF r, list_count, hint, kind, count, hl, fl, bl, p, end, k
<1>10. CASE hint = list_count
  <2>1. /\ r.ok <=> zcbor_check_error(m) /\ m.backup_list # << >>
        /\ r.ok => /\ r.m.backup_list = SubSeq(m.backup_list, 1, Len(m.backup_list) - 1)
                   /\ r.m.state.elem_count = Uppermost(m).elem_count + 1
                   /\ InPayload(r.m) = InPayload(m)
        /\ ~r.ok => Idle(m, r.m)
    BY <1>1, <1>8, <1>10, KeepHeaderCloses
  <2>2. ASSUME zcbor_check_error(m) PROVE Ended(Top) = Cells(Top)
    BY <1>3, <1>4, <1>7, <1>10, <2>2 DEF Cells
  <2>3. before \o InPayload(m) = Outer(asked, k - 1) \o Cells(Top)
    <3>1. before \o InPayload(m) = Outer(asked, k)
      BY <1>1 DEF Corresponds, k
    <3>2. Outer(asked, k) = Outer(asked, k - 1) \o Cells(Top)
      BY <1>1, OuterMore DEF k
    <3> QED BY <3>1, <3>2
  <2>4. r.ok => Finished(r.m)
    BY <2>1, <2>2, <2>3 DEF Finished, k
  <2>5. InUse(m) => r.ok /\ Fits
    <3> SUFFICES ASSUME InUse(m) PROVE r.ok /\ Fits
      OBVIOUS
    <3>1. r.ok /\ Ended(Top) = Top.header \o Top.body
      BY <2>1, <2>2 DEF InUse, Cells
    <3> DEFINE le == Len(Ended(Top))
               lt == Len(Top.header \o Top.body)
    <3>2. le = lt /\ lt \in Nat
      <4>1. lt = hl + bl
        BY <1>1, <1>6
      <4>2. le = lt
        BY <3>1
      <4> HIDE DEF le, lt
      <4> QED BY <1>5, <4>1, <4>2
    <3>3. Fits <=> p - lt + le <= end
      BY DEF Fits, p, end
    <3> HIDE DEF le, lt
    <3>4. Fits
      BY <1>9, <3>2, <3>3
    <3> QED BY <3>1, <3>4
  <2> QED BY <1>7, <2>1, <2>4, <2>5 DEF Ends, r, hint, kind
<1>11. CASE hint # list_count
  <2> DEFINE old_body == at + hl
             size == p - old_body
  <2>1. /\ ~InUse(m) => ~r.ok /\ Idle(m, r.m)
        /\ InUse(m) /\ size >= 0 =>
                /\ r.ok <=> at + zcbor_header_len(list_count) + size <= end
                /\ r.ok => Closed(m, r.m, Header(kind, list_count) \o Stretch(m.bytes, old_body, size))
                /\ ~r.ok => Abandoned(m, r.m)
    BY <1>1, <1>2, <1>8, <1>11, NewHeaderCloses DEF hl, p, end
  <2>2. CASE ~InUse(m)
    BY <1>7, <2>1, <2>2 DEF Ends, r, hint, kind
  <2>3. CASE InUse(m)
    <3>1. zcbor_check_error(m) /\ ~top.payload_moved /\ list_count = count
      BY <1>3, <2>3 DEF InUse
    <3>2. Innermost(canonical, before, asked, m)
      <4> HIDE DEF before
      <4> QED BY <1>1, <3>1, InnermostIs DEF k
    <3>3. /\ top \in Cursor
          /\ before \o Stretch(m.bytes, 0, top.payload) = Outer(asked, Len(asked) - 1)
          /\ Stretch(m.bytes, at + Len(Top.header), bl) = Top.body
          /\ p = at + Len(Top.header) + bl
      <4> HIDE DEF before
      <4> QED BY <1>1, <3>1, <3>2 DEF Innermost, k, bl, p
    <3>4. at \in Nat
      <4> HIDE DEF top
      <4> QED BY <3>3 DEF Cursor
    <3>5. size = bl /\ size >= 0 /\ at <= MaxBytes /\ p = at + hl + bl
      <4>1. p = at + hl + bl
        BY <1>6, <3>3
      <4> HIDE DEF at
      <4> QED BY <1>5, <1>9, <3>4, <4>1
    <3>6. /\ r.ok <=> at + fl + bl <= end
          /\ r.ok => Closed(m, r.m, Ended(Top))
          /\ ~r.ok => Abandoned(m, r.m)
      <4>1. Stretch(m.bytes, old_body, bl) = Top.body
        BY <1>6, <3>3
      <4> HIDE DEF size, old_body
      <4> QED BY <1>7, <2>1, <2>3, <3>1, <3>5, <4>1 DEF fl
    <3>7. Fits <=> at + fl + bl <= end
      <4> DEFINE le == Len(Ended(Top))
                 lt == Len(Top.header \o Top.body)
      <4>1. le = fl + bl /\ lt = hl + bl
        BY <1>1, <1>6, <1>7
      <4>2. Fits <=> p - lt + le <= end
        BY DEF Fits, p, end
      <4> HIDE DEF le, lt, at
      <4> QED BY <1>5, <1>9, <3>4, <3>5, <4>1, <4>2
    <3>8. r.ok => Finished(r.m)
      <4>1. top \in Cursor /\ top.payload <= MaxBytes
        BY <3>3, <3>5
      <4> QED BY <1>7, <3>3, <3>6, <4>1, ClosedFinished
    <3>9. Ends(r)
      BY <2>3, <3>1, <3>6, <3>7, <3>8 DEF Ends
    <3> QED BY <1>7, <3>9 DEF r, hint, kind
  <2> QED BY <2>2, <2>3
<1> QED BY <1>10, <1>11

\* A list or map without one: a byte more.
LEMMA PlainEnds ==
    ASSUME WInv, ~canonical, Top.kind \in {LIST, MAP}
    PROVE  LET r    == list_map_end_encode(m, Top.size_hint, Top.kind)
               byte == HeaderByte(SIMPLE, INDEFINITE)
           IN  /\ r.ok => Wrote(m, r.m, byte, 0)
               /\ ~r.ok => Idle(m, r.m)
               /\ zcbor_check_error(m) => (r.ok <=> Fits)
               /\ Ended(Top) = Cells(Top) \o byte /\ byte \in Seq(Cell)
<1> DEFINE r == list_map_end_encode(m, Top.size_hint, Top.kind)
           byte == HeaderByte(SIMPLE, INDEFINITE)
           hb == Top.header \o Top.body
           p == m.state.payload
           end == m.state.payload_end
<1>1. Good(m) /\ Top.header \in Seq(Cell) /\ Top.body \in Seq(Cell)
  BY TopIs
<1>2. SIMPLE \in Int /\ INDEFINITE \in Int
  BY DEF SIMPLE, INDEFINITE
<1>3. r = encode_header_byte(m, SIMPLE, INDEFINITE)
  BY DEF list_map_end_encode
<1> HIDE DEF r
<1>4. /\ r.ok <=> zcbor_check_error(m) /\ p < end
      /\ r.ok => Wrote(m, r.m, byte, 0)
      /\ ~r.ok => Idle(m, r.m)
  BY <1>1, <1>2, <1>3, HeaderByteWrites
<1>5. byte \in Seq(Cell) /\ Len(byte) = 1
  BY <1>2, HeaderByteType
<1>6. Ended(Top) = hb \o byte
  <2>1. Top.kind # BSTR
    BY DEF LIST, MAP, BSTR
  <2> QED BY <2>1 DEF Ended
<1>7. hb \in Seq(Cell) /\ Len(hb) \in Nat
  <2> DEFINE h == Top.header
             b == Top.body
  <2>1. h \in Seq(Cell) /\ b \in Seq(Cell)
    BY <1>1
  <2> HIDE DEF h, b
  <2>2. h \o b \in Seq(Cell)
    BY ONLY <2>1, ConcatProperties, Zenon
  <2>3. Len(h \o b) \in Nat
    BY <2>2, LenProperties
  <2> QED BY <2>2, <2>3 DEF h, b
<1>8. Fits <=> p < end
  <2> DEFINE le == Len(Ended(Top))
             lt == Len(hb)
  <2>1. Fits <=> p - lt + le <= end
    BY DEF Fits
  <2>2. lt \in Nat /\ le = lt + 1
    <3> HIDE DEF hb, byte
    <3>1. hb \in Seq(Cell) /\ byte \in Seq(Cell)
      BY <1>5, <1>7
    <3>2. Len(hb \o byte) = Len(hb) + Len(byte)
      BY ONLY <3>1, ConcatProperties, Zenon
    <3> QED BY <1>5, <1>6, <1>7, <3>2
  <2>3. p \in Nat /\ end \in Nat
    BY <1>1, GoodType
  <2> HIDE DEF le, lt, p, end
  <2> QED BY <2>1, <2>2, <2>3
<1>9. Ended(Top) = Cells(Top) \o byte
  BY <1>6 DEF Cells
<1> QED BY <1>4, <1>5, <1>8, <1>9 DEF r

\* Whether an end succeeds is whether what it leaves fits.
LEMMA WhatFitsEnds == ASSUME WInv PROVE EndsIfItFits
<1> SUFFICES ASSUME Top.kind \in {LIST, MAP, BSTR}, InReach
             PROVE  /\ Top.kind = BSTR => (zcbor_bstr_end_encode(m).ok <=> Fits)
                    /\ Top.kind # BSTR =>
                         (list_map_end_encode(m, Top.size_hint, Top.kind).ok <=> Fits)
  BY DEF EndsIfItFits, Fits
<1>1. Top.usable /\ zcbor_check_error(m)
  BY DEF InReach
<1>2. ASSUME Top.kind = BSTR \/ canonical PROVE InUse(m)
  <2>1. ~Uppermost(m).payload_moved
    BY <1>2 DEF InReach, Uppermost, Last
  <2>2. /\ Good(m) /\ Corresponds(canonical, FlattenSeq(sent), asked, m)
        /\ FlattenSeq(sent) \in Seq(Cell) /\ Len(asked) >= 2 /\ Top = asked[Len(asked)]
    BY TopIs DEF Kinds
  <2>3. Backed(canonical, asked[Len(asked)])
    BY <1>2, <2>2 DEF Backed
  <2>4. m.backup_list # << >>
    <3> DEFINE before == FlattenSeq(sent)
    <3> HIDE DEF before
    <3>1. Innermost(canonical, before, asked, m)
      BY <1>1, <2>2, <2>3, InnermostIs DEF before
    <3> QED BY <3>1 DEF Innermost
  <2> QED BY <1>1, <2>1, <2>4 DEF InUse
<1>3. CASE Top.kind = BSTR
  BY <1>2, <1>3, BstrEnds DEF Ends
<1>4. CASE Top.kind # BSTR /\ canonical
  BY <1>1, <1>2, <1>4, ListEnds DEF Ends
<1>5. CASE Top.kind # BSTR /\ ~canonical
  BY <1>1, <1>5, PlainEnds
<1> QED BY <1>3, <1>4, <1>5

-----------------------------------------------------------------------------
(* Steps.                                                                  *)

\* A call that adds to the innermost container, or fails.
LEMMA CallCorresponds ==
    ASSUME WInv, NEW r, NEW cells \in Seq(Cell), NEW e \in Nat,
           r.ok => Wrote(m, r.m, cells, e), ~r.ok => Idle(m, r.m),
           Call(r, Added(asked, cells, e))
    PROVE  canonical' = canonical /\ sent' = sent
           /\ Corresponds(canonical, FlattenSeq(sent), asked', m')
<1>1. /\ m' = r.m /\ canonical' = canonical /\ sent' = sent
      /\ r.ok => asked' = Added(asked, cells, e)
      /\ ~r.ok => asked' = asked
  BY DEF Call
<1> DEFINE before == FlattenSeq(sent)
<1>2. Good(m) /\ Corresponds(canonical, before, asked, m) /\ before \in Seq(Cell)
  BY TopIs
<1> HIDE DEF before
<1>3. CASE r.ok
  BY <1>1, <1>2, <1>3, WroteCorresponds DEF before
<1>4. CASE ~r.ok
  BY <1>1, <1>2, <1>4, IdleCorresponds DEF before
<1> QED BY <1>1, <1>3, <1>4

LEMMA PutCorresponds ==
    ASSUME WInv, PutUint \/ PutTag \/ PutString
    PROVE  canonical' = canonical /\ sent' = sent
           /\ Corresponds(canonical, FlattenSeq(sent), asked', m')
<1>1. Good(m) /\ Values \subseteq Int /\ Lengths \subseteq Nat
  BY TopIs, InputAssumption
<1> DEFINE one == 1
           none == 0
<1>2. one \in Nat /\ none \in Nat
  OBVIOUS
<1>3. CASE PutUint
  <2>1. PICK value \in Values : Call(zcbor_uint_encode(m, value), Added(asked, Header(PINT, value), one))
    BY <1>3 DEF PutUint
  <2> DEFINE r == zcbor_uint_encode(m, value)
             cells == Header(PINT, value)
  <2>2. PINT \in Int /\ value \in Int
    BY <1>1 DEF PINT
  <2>3. /\ r.ok => Wrote(m, r.m, cells, one)
        /\ ~r.ok => Idle(m, r.m)
    BY <1>1, <2>2, ValueWrites DEF zcbor_uint_encode
  <2>4. cells \in Seq(Cell)
    BY <2>2, HeaderType
  <2> HIDE DEF r, cells, one
  <2> QED BY <1>2, <2>1, <2>3, <2>4, CallCorresponds DEF r, cells
<1>4. CASE PutTag
  <2>1. PICK tag \in Values : Call(zcbor_tag_put(m, tag), Added(asked, Header(TAG, tag), none))
    BY <1>4 DEF PutTag
  <2> DEFINE r == zcbor_tag_put(m, tag)
             cells == Header(TAG, tag)
  <2>2. TAG \in Int /\ tag \in Int
    BY <1>1 DEF TAG
  <2>3. /\ r.ok => Wrote(m, r.m, cells, none)
        /\ ~r.ok => Idle(m, r.m)
    BY <1>1, <2>2, TagWrites
  <2>4. cells \in Seq(Cell)
    BY <2>2, HeaderType
  <2> HIDE DEF r, cells, none
  <2> QED BY <1>2, <2>1, <2>3, <2>4, CallCorresponds DEF r, cells
<1>5. CASE PutString
  <2>1. PICK len \in Lengths :
          Call(zcbor_tstr_encode(m, len), Added(asked, Header(TSTR, len) \o Content(len), one))
    BY <1>5 DEF PutString
  <2> DEFINE r == zcbor_tstr_encode(m, len)
             cells == Header(TSTR, len) \o Content(len)
  <2>2. TSTR \in Int /\ len \in Int /\ len \in Nat /\ External \in Int
    BY <1>1 DEF TSTR, External
  <2>3. /\ r.ok => Wrote(m, r.m, cells, one)
        /\ ~r.ok => Idle(m, r.m)
    BY <1>1, <2>2, StringWrites DEF zcbor_tstr_encode
  <2>4. cells \in Seq(Cell)
    <3>1. Header(TSTR, len) \in Seq(Cell) /\ Content(len) \in Seq(Cell)
      BY <2>2, HeaderType, ContentType
    <3> QED BY <3>1, ConcatProperties
  <2> HIDE DEF r, cells, one
  <2> QED BY <1>2, <2>1, <2>3, <2>4, CallCorresponds DEF r, cells
<1> QED BY <1>3, <1>4, <1>5

\* A container that keeps a backup is ended, is given up for an error that
\* comes when its backup is gone, or stays.
LEMMA EndCorresponds ==
    ASSUME WInv, NEW r, Ends(r), Ended(Top) \in Seq(Cell), Top.kind \in Kinds, Backed(canonical, Top),
           End(r)
    PROVE  canonical' = canonical /\ sent' = sent
           /\ Corresponds(canonical, FlattenSeq(sent), asked', m')
<1> DEFINE before == FlattenSeq(sent)
           cells == Ended(Top)
           list == m.backup_list
<1>1. /\ m' = r.m /\ canonical' = canonical /\ sent' = sent
      /\ asked' = IF r.ok THEN Added(Below, Ended(Top), 1)
                  ELSE IF Len(r.m.backup_list) < Len(m.backup_list) THEN Below
                  ELSE asked
  BY DEF End
<1>2. /\ Good(m) /\ Corresponds(canonical, before, asked, m) /\ before \in Seq(Cell)
      /\ Len(asked) >= 2 /\ Backed(canonical, asked[Len(asked)])
  BY TopIs
<1>3. list \in Seq(Cursor) /\ Len(list) \in Nat
  BY <1>2, GoodType
<1>4. CASE r.ok
  <2> DEFINE n == r.m
  <2>1. zcbor_check_error(m) /\ Finished(n) /\ asked' = Added(Front(asked), cells, 1) /\ m' = n
    BY <1>1, <1>4 DEF Ends, Below
  <2>2. /\ n.backup_list = SubSeq(m.backup_list, 1, Len(m.backup_list) - 1)
        /\ n.state.elem_count = Uppermost(m).elem_count + 1
        /\ before \o InPayload(n) = Outer(asked, Len(asked) - 1) \o cells
    BY <2>1 DEF Finished
  <2> HIDE DEF n, before, cells, list
  <2>3. cells \in Seq(Cell)
    BY DEF cells
  <2>4. Corresponds(canonical, before, Added(Front(asked), cells, 1), n)
    BY <1>2, <2>1, <2>2, <2>3, ClosedCorresponds
  <2> QED BY <1>1, <2>1, <2>4 DEF before
<1>5. CASE ~r.ok /\ Idle(m, r.m)
  <2>1. asked' = asked
    BY <1>1, <1>3, <1>5 DEF Idle
  <2> HIDE DEF before
  <2>2. Corresponds(canonical, before, asked, r.m)
    BY <1>2, <1>5, IdleCorresponds
  <2> QED BY <1>1, <2>1, <2>2 DEF before
<1>6. CASE ~r.ok /\ InUse(m) /\ Abandoned(m, r.m)
  <2>1. Len(r.m.backup_list) < Len(list)
    <3> DEFINE n == Len(list) - 1
    <3>1. r.m.backup_list = SubSeq(list, 1, n) /\ list # << >>
      BY <1>6 DEF Abandoned, InUse
    <3> HIDE DEF list
    <3>2. n \in Nat /\ n + 1 = Len(list) /\ \A i \in 1 .. n : list[i] \in Cursor
      BY <1>3, <3>1, EmptySeq, ElementOfSeq
    <3> HIDE DEF n
    <3>3. Len(SubSeq(list, 1, n)) = n
      BY <3>2, SubSeqProperties
    <3> QED BY <3>1, <3>2, <3>3
  <2>2. asked' = Front(asked)
    BY <1>1, <1>6, <2>1 DEF Below
  <2> HIDE DEF before
  <2>3. Corresponds(canonical, before, Front(asked), r.m)
    BY <1>2, <1>6, AbandonedCorresponds
  <2> QED BY <1>1, <2>2, <2>3 DEF before
<1> QED BY <1>4, <1>5, <1>6 DEF Ends

LEMMA EndStepsCorrespond ==
    ASSUME WInv, Top.usable, EndList \/ EndBstr
    PROVE  canonical' = canonical /\ sent' = sent
           /\ Corresponds(canonical, FlattenSeq(sent), asked', m')
<1>1. CASE EndBstr
  <2>1. Top.kind = BSTR /\ End(zcbor_bstr_end_encode(m))
    BY <1>1 DEF EndBstr
  <2>2. Top.kind \in Kinds /\ Backed(canonical, Top)
    BY <2>1 DEF Kinds, Backed
  <2> QED BY <2>1, <2>2, BstrEnds, EndCorresponds
<1>2. CASE EndList /\ canonical
  <2>1. Top.kind \in {LIST, MAP} /\ End(list_map_end_encode(m, Top.size_hint, Top.kind))
    BY <1>2 DEF EndList
  <2>2. Top.kind \in Kinds /\ Backed(canonical, Top)
    BY <1>2, <2>1 DEF Kinds, Backed
  <2> QED BY <1>2, <2>1, <2>2, ListEnds, EndCorresponds
<1>3. CASE EndList /\ ~canonical
  <2> DEFINE r == list_map_end_encode(m, Top.size_hint, Top.kind)
             before == FlattenSeq(sent)
             byte == HeaderByte(SIMPLE, INDEFINITE)
             e == 0
             can == canonical
  <2>1. Top.kind \in {LIST, MAP} /\ End(r)
    BY <1>3 DEF EndList
  <2>2. /\ r.ok => Wrote(m, r.m, byte, e)
        /\ ~r.ok => Idle(m, r.m)
        /\ Ended(Top) = Cells(Top) \o byte /\ byte \in Seq(Cell)
    BY <1>3, <2>1, PlainEnds
  <2>3. /\ Good(m) /\ Corresponds(canonical, before, asked, m) /\ before \in Seq(Cell)
        /\ Top = asked[Len(asked)] /\ Len(asked) >= 2
    BY <2>1, TopIs DEF Kinds
  <2>4. ~Backed(canonical, asked[Len(asked)])
    BY <1>3, <2>1, <2>3 DEF Backed, LIST, MAP, BSTR
  <2> HIDE DEF r, byte, before, e
  <2>5. m' = r.m /\ canonical' = canonical /\ sent' = sent
    BY <2>1 DEF End
  <2>6. CASE r.ok
    <3>1. asked' = Added(Front(asked), Cells(asked[Len(asked)]) \o byte, 1)
      BY <2>1, <2>2, <2>3, <2>6 DEF End, Below
    <3>2. Corresponds(canonical, before, Added(Front(asked), Cells(asked[Len(asked)]) \o byte, 1), r.m)
      BY <1>3, <2>2, <2>3, <2>4, <2>6, EndedCorresponds
    <3> QED BY <2>5, <3>1, <3>2 DEF before
  <2>7. CASE ~r.ok
    <3>1. asked' = asked
      <4>1. Len(m.backup_list) \in Nat /\ r.m.backup_list = m.backup_list
        BY <2>2, <2>3, <2>7, GoodType DEF Idle
      <4> QED BY <2>1, <2>7, <4>1 DEF End
    <3>2. Corresponds(canonical, before, asked, r.m)
      BY <2>2, <2>3, <2>7, IdleCorresponds
    <3> QED BY <2>5, <3>1, <3>2 DEF before
  <2> QED BY <2>6, <2>7
<1> QED BY <1>1, <1>2, <1>3

\* A list or map is given up; without a backup that does nothing.
LEMMA GiveUpCorresponds ==
    ASSUME WInv, GiveUp
    PROVE  canonical' = canonical /\ sent' = sent
           /\ Corresponds(canonical, FlattenSeq(sent), asked', m')
<1> DEFINE before == FlattenSeq(sent)
           r == zcbor_list_map_end_force_encode(m)
<1>1. /\ Top.kind \in {LIST, MAP} /\ m' = r.m /\ canonical' = canonical /\ sent' = sent
      /\ r.ok => asked' = IF canonical THEN Front(asked) ELSE asked
      /\ ~r.ok => asked' = asked
  BY DEF GiveUp, Call, Below
<1>2. /\ Good(m) /\ Corresponds(canonical, before, asked, m) /\ before \in Seq(Cell)
      /\ Top = asked[Len(asked)] /\ Len(asked) >= 2
  BY <1>1, TopIs DEF Kinds
<1>3. CASE canonical
  <2>1. /\ r.ok => InUse(m) /\ Abandoned(m, r.m)
        /\ ~r.ok => Idle(m, r.m)
    BY <1>2, <1>3, ForceEndAbandons DEF zcbor_list_map_end_force_encode
  <2>2. Backed(canonical, asked[Len(asked)])
    BY <1>1, <1>2, <1>3 DEF Backed
  <2> HIDE DEF r, before
  <2>3. CASE r.ok
    <3>1. Corresponds(canonical, before, Front(asked), r.m)
      BY <1>2, <2>1, <2>2, <2>3, AbandonedCorresponds
    <3> QED BY <1>1, <1>3, <2>3, <3>1 DEF before
  <2>4. CASE ~r.ok
    <3>1. Corresponds(canonical, before, asked, r.m)
      BY <1>2, <2>1, <2>4, IdleCorresponds
    <3> QED BY <1>1, <2>4, <3>1 DEF before
  <2> QED BY <2>3, <2>4
<1>4. CASE ~canonical
  <2>1. r = Success(m)
    BY <1>4 DEF zcbor_list_map_end_force_encode
  <2>2. r.m = m
    BY <2>1 DEF Success
  <2> HIDE DEF r
  <2> QED BY <1>1, <1>2, <1>4, <2>2
<1> QED BY <1>3, <1>4

\* What a new frame is.
LEMMA FrameIs ==
    ASSUME NEW kind \in Kinds, NEW header \in Seq(Cell), NEW hint \in Nat, NEW usable \in BOOLEAN,
           NEW f, f = [kind |-> kind, header |-> header, size_hint |-> hint,
                       body |-> << >>, elems |-> 0, usable |-> usable]
    PROVE  /\ f \in FrameType /\ f.kind = kind /\ f.header = header /\ f.size_hint = hint
           /\ f.usable = usable /\ f.elems = 0 /\ Cells(f) = header
<1>1. << >> \in Seq(Cell) /\ header \o << >> = header
  BY EmptySeq, ConcatEmptySeq
<1> DEFINE body == << >>
<1>2. f = [kind |-> kind, header |-> header, size_hint |-> hint,
           body |-> body, elems |-> 0, usable |-> usable]
  OBVIOUS
<1>3. body \in Seq(Cell) /\ header \o body = header
  BY <1>1
<1> HIDE DEF body
<1>4. /\ f.kind = kind /\ f.header = header /\ f.size_hint = hint
      /\ f.usable = usable /\ f.elems = 0 /\ f.body = body
  BY <1>2
<1>5. f \in FrameType
  BY <1>2, <1>3 DEF FrameType
<1> QED BY <1>3, <1>4, <1>5 DEF Cells

LEMMA StartListCorresponds ==
    ASSUME WInv, StartList
    PROVE  canonical' = canonical /\ sent' = sent
           /\ Corresponds(canonical, FlattenSeq(sent), asked', m')
<1>1. PICK kind \in {LIST, MAP}, size_hint \in Hints :
      LET r == list_map_start_encode(m, size_hint, kind)
          header == IF canonical THEN Header(kind, size_hint) ELSE HeaderByte(kind, INDEFINITE)
          frame == Frame(kind, header, size_hint)
      IN  /\ canonical \/ Len(asked) <= MaxDepth
          /\ m' = r.m
          /\ asked' = IF r.ok THEN Append(asked, frame)
                      ELSE IF Len(r.m.backup_list) > Len(m.backup_list)
                      THEN Append(asked, [frame EXCEPT !.header = << >>, !.usable = FALSE])
                      ELSE asked
          /\ UNCHANGED << canonical, sent >>
  BY Zenon DEF StartList
<1> DEFINE r == list_map_start_encode(m, size_hint, kind)
           header == IF canonical THEN Header(kind, size_hint) ELSE HeaderByte(kind, INDEFINITE)
           f == Frame(kind, header, size_hint)
           true == TRUE
           none == << >>
           g == [f EXCEPT !.header = none, !.usable = FALSE]
           before == FlattenSeq(sent)
           list == m.backup_list
<1>2. /\ m' = r.m /\ canonical' = canonical /\ sent' = sent
      /\ r.ok => asked' = Append(asked, f)
      /\ ~r.ok /\ Len(r.m.backup_list) > Len(list) => asked' = Append(asked, g)
      /\ ~r.ok /\ ~(Len(r.m.backup_list) > Len(list)) => asked' = asked
  BY <1>1
<1>3. /\ Good(m) /\ Corresponds(canonical, before, asked, m) /\ before \in Seq(Cell)
      /\ list \in Seq(Cursor) /\ Len(list) \in Nat
  BY TopIs, GoodType
<1>4. kind \in Kinds /\ kind \in Int /\ size_hint \in Nat /\ size_hint \in Int /\ INDEFINITE \in Int
      /\ kind # BSTR
  BY InputAssumption DEF Kinds, LIST, MAP, BSTR, INDEFINITE
<1>5. header \in Seq(Cell)
  BY <1>4, HeaderType, HeaderByteType
<1>6. /\ f \in FrameType /\ f.kind = kind /\ f.header = header /\ f.size_hint = size_hint
      /\ f.elems = 0 /\ Cells(f) = header
  <2> HIDE DEF header, f, true
  <2>1. f = [kind |-> kind, header |-> header, size_hint |-> size_hint,
             body |-> << >>, elems |-> 0, usable |-> true]
    BY DEF f, Frame, true
  <2>2. true \in BOOLEAN
    BY DEF true
  <2> QED BY <1>4, <1>5, <2>1, <2>2, FrameIs
<1>7. /\ g \in FrameType /\ g.kind = kind /\ g.header = none /\ ~g.usable /\ Cells(g) = none
      /\ none \in Seq(Cell)
  <2>1. none \in Seq(Cell)
    BY EmptySeq
  <2>2. f.body = << >> /\ << >> \o << >> = << >>
    BY <2>1, ConcatEmptySeq DEF Frame
  <2> HIDE DEF header, f, none
  <2>3. g \in FrameType /\ g.kind = f.kind /\ g.header = none /\ g.usable = FALSE /\ g.body = f.body
    BY <1>6, <2>1 DEF FrameType
  <2> HIDE DEF g
  <2> QED BY <1>6, <2>1, <2>2, <2>3 DEF Cells, none
<1>8. Reserved(canonical, f) /\ Reserved(canonical, g)
  <2>1. Reserved(canonical, g)
    BY <1>7 DEF Reserved
  <2>2. Reserved(canonical, f)
    BY <1>6 DEF Reserved
  <2> QED BY <2>1, <2>2
<1> HIDE DEF r, f, g, header, before, none
<1>9. CASE canonical
  <2>1. Backed(canonical, f) /\ Backed(canonical, g)
    BY <1>6, <1>7, <1>9 DEF Backed
  <2>2. header = Header(kind, size_hint)
    BY <1>9 DEF header
  <2>3. /\ r.ok => Opened(m, r.m, header) /\ r.m.state.elem_count = 0
        /\ ~r.ok => Idle(m, r.m) \/ Opened(m, r.m, none)
    BY <1>3, <1>4, <1>9, <2>2, ListStartOpens DEF r, none
  <2>4. CASE r.ok
    <3> DEFINE n == r.m
    <3>1. Opened(m, n, Cells(f)) /\ CountsFor(canonical, n.state, f)
      BY <1>6, <2>3, <2>4 DEF CountsFor
    <3>2. f.kind \in Kinds /\ f.kind # BSTR
      BY <1>4, <1>6
    <3> HIDE DEF n
    <3>3. Corresponds(canonical, before, Append(asked, f), n)
      BY <1>3, <1>6, <1>8, <2>1, <3>1, <3>2, OpenedCorresponds
    <3> QED BY <1>2, <2>4, <3>3 DEF n, before
  <2>5. CASE ~r.ok /\ Opened(m, r.m, none)
    <3> DEFINE n == r.m
    <3>1. Opened(m, n, Cells(g)) /\ CountsFor(canonical, n.state, g)
      BY <1>7, <2>5 DEF CountsFor
    <3>2. g.kind \in Kinds /\ g.kind # BSTR
      BY <1>4, <1>7
    <3>3. Len(n.backup_list) > Len(list)
      <4>1. n.backup_list = Append(list, Start(m)) /\ Start(m) \in Cursor
        BY <1>3, <2>5, StartIs DEF Opened
      <4> HIDE DEF n, list
      <4>2. Len(n.backup_list) = Len(list) + 1
        BY <1>3, <4>1, AppendProperties
      <4> QED BY <1>3, <4>2
    <3> HIDE DEF n
    <3>4. Corresponds(canonical, before, Append(asked, g), n)
      BY <1>3, <1>7, <1>8, <2>1, <3>1, <3>2, OpenedCorresponds
    <3> QED BY <1>2, <2>5, <3>3, <3>4 DEF n, before
  <2>6. CASE ~r.ok /\ Idle(m, r.m)
    <3>1. asked' = asked
      BY <1>2, <1>3, <2>6 DEF Idle
    <3>2. Corresponds(canonical, before, asked, r.m)
      BY <1>3, <2>6, IdleCorresponds
    <3> QED BY <1>2, <3>1, <3>2 DEF before
  <2> QED BY <2>3, <2>4, <2>5, <2>6
<1>10. CASE ~canonical
  <2> DEFINE e == 0
             can == canonical
  <2>1. ~Backed(can, f) /\ ~can /\ header = HeaderByte(kind, INDEFINITE)
    BY <1>4, <1>6, <1>10 DEF Backed, header
  <2>2. r = encode_header_byte(m, kind, INDEFINITE)
    BY <1>10 DEF r, list_map_start_encode
  <2>3. /\ r.ok => Wrote(m, r.m, Cells(f), e)
        /\ ~r.ok => Idle(m, r.m)
    BY <1>3, <1>4, <1>6, <2>1, <2>2, HeaderByteWrites
  <2>4. CASE r.ok
    <3> DEFINE n == r.m
    <3>1. Wrote(m, n, Cells(f), e) /\ f.kind \in Kinds /\ Reserved(can, f) /\ Corresponds(can, before, asked, m)
      BY <1>3, <1>4, <1>6, <1>8, <2>3, <2>4
    <3> HIDE DEF n, e, can
    <3>2. Corresponds(can, before, Append(asked, f), n)
      BY <1>3, <1>6, <2>1, <3>1, StartedCorresponds
    <3> QED BY <1>2, <2>4, <3>2 DEF n, before, can
  <2>5. CASE ~r.ok
    <3>1. asked' = asked
      BY <1>2, <1>3, <2>3, <2>5 DEF Idle
    <3>2. Corresponds(canonical, before, asked, r.m)
      BY <1>3, <2>3, <2>5, IdleCorresponds
    <3> QED BY <1>2, <3>1, <3>2 DEF before
  <2> QED BY <2>4, <2>5
<1> QED BY <1>9, <1>10

LEMMA StartBstrCorresponds ==
    ASSUME WInv, StartBstr
    PROVE  canonical' = canonical /\ sent' = sent
           /\ Corresponds(canonical, FlattenSeq(sent), asked', m')
<1> DEFINE r == zcbor_bstr_start_encode(m)
           header == Header(BSTR, zcbor_remaining_str_len(m.state))
           f == Frame(BSTR, header, 0)
           hint == 0
           true == TRUE
           before == FlattenSeq(sent)
<1>1. /\ m' = r.m /\ canonical' = canonical /\ sent' = sent
      /\ r.ok => asked' = Append(asked, f)
      /\ ~r.ok => \/ asked' = Lost(asked)
                  \/ /\ asked' = asked
                     /\ canonical /\ Top.kind \in {LIST, MAP} =>
                          r.m.state.elem_count = m.state.elem_count
  <2>1. Append(Below, [Top EXCEPT !.usable = FALSE]) = Lost(asked)
    BY DEF Below, Top, Lost
  <2>2. /\ m' = r.m
        /\ asked' = IF r.ok THEN Append(asked, f)
                    ELSE IF /\ canonical /\ Top.kind \in {LIST, MAP}
                            /\ r.m.state.elem_count # m.state.elem_count
                    THEN Append(Below, [Top EXCEPT !.usable = FALSE])
                    ELSE asked
        /\ canonical' = canonical /\ sent' = sent
    BY DEF StartBstr
  <2> HIDE DEF r, f
  <2> QED BY <2>1, <2>2
<1>2. /\ Good(m) /\ Corresponds(canonical, before, asked, m) /\ before \in Seq(Cell)
      /\ m.state.payload \in Int /\ m.state.payload_end \in Int
  BY TopIs, GoodType
<1>3. header \in Seq(Cell)
  <2>1. zcbor_remaining_str_len(m.state) \in Int /\ BSTR \in Int
    BY <1>2, RemainingInt DEF BSTR
  <2> QED BY <2>1, HeaderType
<1>4. /\ f \in FrameType /\ f.kind = BSTR /\ f.header = header /\ Cells(f) = header
  <2>1. BSTR \in Kinds /\ hint \in Nat /\ true \in BOOLEAN
    BY DEF Kinds
  <2> HIDE DEF header, f, hint, true
  <2>2. f = [kind |-> BSTR, header |-> header, size_hint |-> hint,
             body |-> << >>, elems |-> 0, usable |-> true]
    BY DEF f, Frame, true, hint
  <2> QED BY <1>3, <2>1, <2>2, FrameIs
<1>5. /\ r.ok => Opened(m, r.m, header)
      /\ ~r.ok => Refused(m, r.m)
  BY <1>2, BstrStartOpens
<1> HIDE DEF r, f, before
<1>6. CASE r.ok
  <2> DEFINE n == r.m
  <2>1. /\ f.kind \in Kinds /\ Reserved(canonical, f) /\ Backed(canonical, f)
        /\ CountsFor(canonical, n.state, f) /\ Opened(m, n, Cells(f))
        /\ f.header = Header(BSTR, zcbor_remaining_str_len(m.state))
    BY <1>4, <1>5, <1>6 DEF Kinds, Reserved, Backed, CountsFor, LIST, MAP, BSTR
  <2> HIDE DEF n, header
  <2>2. Corresponds(canonical, before, Append(asked, f), n)
    BY <1>2, <1>4, <2>1, OpenedCorresponds
  <2> QED BY <1>1, <1>6, <2>2 DEF n, before
<1>7. CASE ~r.ok /\ asked' = Lost(asked)
  <2>1. Corresponds(canonical, before, Lost(asked), r.m)
    BY <1>2, <1>5, <1>7, RefusedCorresponds
  <2> QED BY <1>1, <1>7, <2>1 DEF before
<1>8. CASE /\ ~r.ok /\ asked' = asked
           /\ canonical /\ Top.kind \in {LIST, MAP} => r.m.state.elem_count = m.state.elem_count
  <2>1. Last(asked) = Top
    BY DEF Top
  <2>2. CountsFor(canonical, m.state, Last(asked)) => CountsFor(canonical, r.m.state, Last(asked))
    BY <1>8, <2>1 DEF CountsFor
  <2>3. Corresponds(canonical, before, asked, r.m)
    BY <1>2, <1>5, <1>8, <2>2, RefusedCorresponds
  <2> QED BY <1>1, <1>8, <2>3 DEF before
<1> QED BY <1>1, <1>6, <1>7, <1>8

\* What is in the section joins what was sent.
LEMMA NextSectionCorresponds ==
    ASSUME WInv, NextSection
    PROVE  /\ canonical' = canonical /\ sent' \in Seq(Seq(Cell))
           /\ Corresponds(canonical, FlattenSeq(sent'), asked', m')
<1>1. PICK payload_len \in Payloads :
      /\ sent' = Append(sent, [i \in 1 .. m.state.payload |-> m.bytes[i - 1]])
      /\ m' = [zcbor_update_state(m, payload_len) EXCEPT !.bytes = Fresh]
      /\ canonical' = canonical /\ asked' = asked
  BY DEF NextSection
<1> DEFINE p == InPayload(m)
           before == FlattenSeq(sent)
<1>2. /\ Good(m) /\ Corresponds(canonical, before, asked, m) /\ before \in Seq(Cell)
      /\ sent \in Seq(Seq(Cell)) /\ p \in Seq(Cell)
  BY TopIs, PayloadType DEF WInv
<1>3. p = [i \in 1 .. m.state.payload |-> m.bytes[i - 1]]
  <2>1. \A i \in 1 .. m.state.payload : 0 + i - 1 = i - 1
    OBVIOUS
  <2> QED BY <2>1 DEF InPayload, Stretch
<1>4. sent' = Append(sent, p)
  BY <1>1, <1>3
<1>5. Corresponds(canonical, before \o p, asked, m')
  <2> HIDE DEF before
  <2> QED BY <1>1, <1>2, NextCorresponds
<1> HIDE DEF p
<1>6. FlattenSeq(sent') = before \o p /\ sent' \in Seq(Seq(Cell))
  BY <1>2, <1>4, SentMore
<1> QED BY <1>1, <1>5, <1>6

\* The invariant holds on every step.
LEMMA StepCorresponds == ASSUME WInv, [Next]_vars PROVE WInv'
<1>1. IInv'
  BY StepInvariant DEF WInv
<1>2. canonical \in BOOLEAN /\ sent \in Seq(Seq(Cell))
  BY DEF WInv
<1>3. ASSUME canonical' = canonical, sent' = sent,
             Corresponds(canonical, FlattenSeq(sent), asked', m')
      PROVE  WInv'
  BY <1>1, <1>2, <1>3 DEF WInv
<1>4. CASE PutUint \/ PutTag \/ PutString
  BY <1>3, <1>4, PutCorresponds
<1>5. CASE StartList
  BY <1>3, <1>5, StartListCorresponds
<1>6. CASE StartBstr
  BY <1>3, <1>6, StartBstrCorresponds
<1>7. CASE Top.usable /\ (EndList \/ EndBstr)
  BY <1>3, <1>7, EndStepsCorrespond
<1>8. CASE GiveUp
  BY <1>3, <1>8, GiveUpCorresponds
<1>9. CASE NextSection
  BY <1>1, <1>2, <1>9, NextSectionCorresponds DEF WInv
<1>10. CASE UNCHANGED vars
  <2>1. canonical' = canonical /\ sent' = sent /\ asked' = asked /\ m' = m
    BY <1>10 DEF vars
  <2> QED BY <1>1, <2>1 DEF WInv
<1> QED BY <1>4, <1>5, <1>6, <1>7, <1>8, <1>9, <1>10 DEF Next

-----------------------------------------------------------------------------
(* Theorems.                                                               *)

\* What was written, over all sections, is what the caller asked for: nothing
\* is lost, doubled or left behind by an end that moves a body for its header,
\* by a call that fails or by a container that is given up
\* (list_map_end_encode, zcbor_bstr_end_encode, zcbor_process_backup).
THEOREM WhatIsWrittenIsAsked == Spec => []WrittenIsAsked
<1>1. Init => WInv
  BY InitCorresponds
<1>2. WInv /\ [Next]_vars => WInv'
  BY StepCorresponds
<1>3. WInv => WrittenIsAsked
  <2> SUFFICES ASSUME WInv PROVE WrittenIsAsked
    OBVIOUS
  <2>1. FlattenSeq(sent) \o InPayload(m) = Outer(asked, Len(asked))
    BY DEF WInv, Corresponds
  <2>2. InPayload(m) = [i \in 1 .. m.state.payload |-> m.bytes[i - 1]]
    <3>1. \A i \in 1 .. m.state.payload : 0 + i - 1 = i - 1
      OBVIOUS
    <3> QED BY <3>1 DEF InPayload, Stretch
  <2>3. DOMAIN asked = 1 .. Len(asked)
    BY TopIs, LenProperties
  <2>4. Outer(asked, Len(asked)) = FlattenSeq([i \in DOMAIN asked |-> asked[i].header \o asked[i].body])
    BY <2>3 DEF Outer, Cells
  <2> QED BY <2>1, <2>2, <2>4 DEF WrittenIsAsked
<1> QED BY <1>1, <1>2, <1>3, PTL DEF Spec

\* A container can be ended if and only if what it is then fits into the
\* payload, in every state of every encoding: the move of its body needs no
\* more room than that (list_map_end_encode, str_encode, zcbor_remaining_str_len).
THEOREM ContainersEndIfTheyFit == Spec => []EndsIfItFits
<1>1. Init => WInv
  BY InitCorresponds
<1>2. WInv /\ [Next]_vars => WInv'
  BY StepCorresponds
<1>3. WInv => EndsIfItFits
  BY WhatFitsEnds
<1> QED BY <1>1, <1>2, <1>3, PTL DEF Spec

=============================================================================
