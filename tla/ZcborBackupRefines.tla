------------------------- MODULE ZcborBackupRefines -------------------------
(***************************************************************************)
(* The shared flag buffer implements snapshots that each own their flags:  *)
(* every step of a decoder on the machine is a step of BackupStack, or     *)
(* leaves its variables as they are.                                       *)
(***************************************************************************)
EXTENDS ZcborBackupOrder

SavedOf(m) == [i \in 1 .. Len(m.backup_list) |-> Saved(m, m.backup_list[i])]

-----------------------------------------------------------------------------
(* Sequences given element by element.                                     *)

\* f is a function on the numbers from 1 to n.
Counted(f, n) == f = [i \in 1 .. n |-> f[i]]

LEMMA CountedSeq ==
    ASSUME NEW n \in Nat, NEW f, Counted(f, n)
    PROVE  /\ f \in Seq({f[i] : i \in 1 .. n})
           /\ Len(f) = n /\ DOMAIN f = 1 .. n
<1> DEFINE S == {f[i] : i \in 1 .. n}
<1>1. f \in [1 .. n -> S]
  BY DEF Counted
<1> HIDE DEF S
<1>2. f \in Seq(S)
  BY <1>1, SeqDef
<1>3. Len(f) = n
  BY <1>1, <1>2, LenProperties
<1> QED BY <1>1, <1>2, <1>3 DEF S

LEMMA CountedEqual ==
    ASSUME NEW n \in Nat, NEW f, Counted(f, n), NEW g, Counted(g, n),
           \A i \in 1 .. n : g[i] = f[i]
    PROVE  g = f
<1>1. [i \in 1 .. n |-> g[i]] = [i \in 1 .. n |-> f[i]]
  OBVIOUS
<1> QED BY <1>1 DEF Counted

LEMMA CountedAppend ==
    ASSUME NEW n \in Nat, NEW f, Counted(f, n), NEW g, Counted(g, n + 1), NEW x,
           \A i \in 1 .. n : g[i] = f[i], g[n + 1] = x
    PROVE  g = Append(f, x)
<1> DEFINE S == {f[i] : i \in 1 .. n} \cup {x}
           h == Append(f, x)
<1>1. f \in Seq({f[i] : i \in 1 .. n}) /\ Len(f) = n
  BY CountedSeq
<1>2. f \in Seq(S) /\ x \in S
  <2>1. f \in [1 .. n -> S]
    BY DEF Counted
  <2> HIDE DEF S
  <2>2. f \in Seq(S)
    BY <2>1, SeqDef
  <2> QED BY <2>2 DEF S
<1> HIDE DEF S
<1>3. /\ h \in Seq(S) /\ Len(h) = n + 1 /\ h[n + 1] = x
      /\ \A i \in 1 .. n : h[i] = f[i]
  BY <1>1, <1>2, AppendProperties
<1>4. DOMAIN h = 1 .. n + 1 /\ h = [i \in DOMAIN h |-> h[i]]
  BY <1>3, LenProperties
<1> HIDE DEF h
<1>5. Counted(h, n + 1)
  BY <1>4 DEF Counted
<1>6. \A i \in 1 .. n + 1 : g[i] = h[i]
  BY <1>3
<1>7. g = h
  BY <1>5, <1>6, CountedEqual
<1> QED BY <1>7 DEF h

LEMMA CountedPopped ==
    ASSUME NEW n \in Nat, NEW f, Counted(f, n + 1), NEW g, Counted(g, n),
           \A i \in 1 .. n : g[i] = f[i]
    PROVE  /\ f # << >> /\ Len(f) = n + 1
           /\ g = SubSeq(f, 1, Len(f) - 1)
<1> DEFINE S == {f[i] : i \in 1 .. n + 1}
           h == SubSeq(f, 1, n)
<1>1. f \in Seq(S) /\ Len(f) = n + 1 /\ \A i \in 1 .. n : f[i] \in S
  BY CountedSeq
<1>2. f # << >>
  BY <1>1, EmptySeq
<1> HIDE DEF S
<1>3. /\ h \in Seq(S) /\ Len(h) = n /\ \A i \in 1 .. n : h[i] = f[i]
  BY <1>1, SubSeqProperties
<1>4. DOMAIN h = 1 .. n /\ h = [i \in DOMAIN h |-> h[i]]
  BY <1>3, LenProperties
<1> HIDE DEF h
<1>5. Counted(h, n)
  BY <1>4 DEF Counted
<1>6. g = h
  BY <1>3, <1>5, CountedEqual
<1>7. Len(f) - 1 = n
  BY <1>1
<1> QED BY <1>1, <1>2, <1>6, <1>7 DEF h

-----------------------------------------------------------------------------
(* What the backups stand for.                                             *)

LEMMA SavedOfCounted ==
    ASSUME NEW m
    PROVE  /\ Counted(SavedOf(m), Len(m.backup_list))
           /\ \A i \in 1 .. Len(m.backup_list) : SavedOf(m)[i] = Saved(m, m.backup_list[i])
BY DEF SavedOf, Counted

\* There is a flag for each element of the map.
LEMMA FlagsDomain ==
    ASSUME NEW m, NEW c \in Cursor
    PROVE  /\ DOMAIN FlagsOf(m, c) = 0 .. Count(c) - 1
           /\ \A i \in 0 .. Count(c) - 1 : FlagsOf(m, c)[i] = FlagLeft(m, c, i)
<1>1. Count(c) \in Nat
  BY CountType
<1>2. CASE Count(c) = 0
  <2>1. FlagsOf(m, c) = << >> /\ DOMAIN << >> = 0 .. -1 /\ 0 .. Count(c) - 1 = 0 .. -1
    BY <1>2 DEF FlagsOf, Count
  <2> QED BY <2>1
<1>3. CASE Count(c) # 0
  BY <1>3 DEF FlagsOf, Count
<1> QED BY <1>2, <1>3

LEMMA SavedFields ==
    ASSUME NEW m, NEW b
    PROVE  Saved(m, b) = [payload |-> IF b.payload_moved THEN -1 ELSE b.payload,
                          elem_count |-> b.elem_count, flags |-> FlagsOf(m, b)]
BY DEF Saved, Snapshot

\* A backup that is where it was stored stands for all that it holds.
LEMMA SavedInPlace ==
    ASSUME NEW m, NEW b, ~b.payload_moved
    PROVE  Saved(m, b) = Snapshot(m, b)
BY SavedFields DEF Snapshot

\* A backup that stays in place stands for what it did.
LEMMA SavedStays ==
    ASSUME OInv, Effect, ~Moving, Good(zs'), ~Orphaned',
           NEW i \in 1 .. Len(zs.backup_list), i <= Len(zs'.backup_list)
    PROVE  SavedOf(zs')[i] = SavedOf(zs)[i]
<1> DEFINE b == zs.backup_list[i]  bb == zs'.backup_list[i]
<1>1. Good(zs) /\ i \in 1 .. Len(zs'.backup_list)
  <2>1. Len(zs'.backup_list) \in Nat /\ Len(zs.backup_list) \in Nat
    BY GoodType DEF OInv, IInv
  <2> QED BY <2>1 DEF OInv, IInv
<1>2. bb = b /\ Below(zs, zs', FlagEnd(b))
  <2>1. Below(zs, zs', FlagEnd(b))
    BY EffectSaves DEF StaysSaved
  <2>2. ~Stranding
    BY EffectPairs
  <2>3. bb = b
    <3>1. CASE Working
      BY <3>1 DEF Working, ListKept
    <3>2. CASE Marking \/ Opening
      BY <3>2 DEF Marking, Opening, StateSaved, Opened, OneMore
    <3>3. CASE Retrying
      BY <3>3 DEF Retrying, Retried
    <3>4. CASE RollingBack \/ Committing \/ Closing
      BY <1>1, <3>4 DEF RollingBack, RolledBack, Committing, Committed, Closing, Closed, OneLess
    <3> QED BY <2>2, <3>1, <3>2, <3>3, <3>4 DEF Effect, Staying
  <2> QED BY <2>1, <2>3
<1>3. b \in Cursor /\ (SmartSearch => FlagEnd(b) <= FlagBytes)
  BY <1>1, GoodType DEF Good, FlagsSound
<1> HIDE DEF b, bb
<1>4. FlagsOf(zs', b) = FlagsOf(zs, b)
  BY <1>2, <1>3, FlagsStay
<1>5. Saved(zs', bb) = Saved(zs, b)
  BY <1>2, <1>4, SavedFields
<1> QED BY <1>1, <1>5, SavedOfCounted DEF b, bb

-----------------------------------------------------------------------------
(* The steps of the abstract stack, over the same variables.               *)

LEMMA PromiseVars ==
    ASSUME OInv
    PROVE  ~Orphaned => [i \in DOMAIN zs.backup_list |-> Saved(zs, zs.backup_list[i])]
                          = SavedOf(zs)
<1>1. DOMAIN zs.backup_list = 1 .. Len(zs.backup_list)
  BY GoodType, LenProperties DEF OInv, IInv
<1> QED BY <1>1 DEF SavedOf

\* Where the backups and the calls are paired, before and after, the abstract
\* variables are the snapshot of the state and those of the backups.
LEMMA PromiseActions ==
    ASSUME OInv, OInv', ~Orphaned, ~Orphaned'
    PROVE  LET cur == Snapshot(zs, zs.state)  cur2 == Snapshot(zs', zs'.state)
               saved == SavedOf(zs)  saved2 == SavedOf(zs')
           IN
           /\ /\ saved2 = saved
              /\ DOMAIN cur.flags \subseteq DOMAIN cur2.flags
              /\ \A i \in DOMAIN cur.flags : cur2.flags[i] => cur.flags[i]
              => Promise!Work
           /\ saved2 = Append(saved, cur) /\ cur2 = cur => Promise!Mark
           /\ \A payload \in 0 .. MaxPayload :
                 saved2 = Append(saved, [cur EXCEPT !.payload = payload, !.elem_count = @ - 1])
                 => Promise!Open
           /\ /\ saved # << >> /\ saved[Len(saved)].payload # -1
              /\ cur2 = saved[Len(saved)] /\ saved2 = saved
              => Promise!Retry
           /\ /\ saved # << >> /\ saved[Len(saved)].payload # -1
              /\ cur2 = saved[Len(saved)] /\ saved2 = SubSeq(saved, 1, Len(saved) - 1)
              => Promise!RollBack
           /\ saved # << >> /\ cur2 = cur /\ saved2 = SubSeq(saved, 1, Len(saved) - 1)
              => Promise!Commit
           /\ \A payload \in 0 .. MaxPayload :
                 /\ saved # << >> /\ saved2 = SubSeq(saved, 1, Len(saved) - 1)
                 /\ cur2 = [saved[Len(saved)] EXCEPT !.payload = payload]
                 => Promise!Close
           /\ \A payload \in 0 .. MaxPayload :
                 /\ cur2 = [cur EXCEPT !.payload = payload]
                 /\ saved2 = [i \in DOMAIN saved |-> [saved[i] EXCEPT !.payload = -1]]
                 => Promise!Move
<1> DEFINE cur == Snapshot(zs, zs.state)
           cur2 == Snapshot(zs', zs'.state)
           saved == SavedOf(zs)
           saved2 == SavedOf(zs')
<1>1. /\ cur = IF Orphaned THEN [flags |-> << >>] ELSE Snapshot(zs, zs.state)
      /\ saved = IF Orphaned THEN << >>
                 ELSE [i \in DOMAIN zs.backup_list |-> Saved(zs, zs.backup_list[i])]
  BY PromiseVars
<1>2. /\ cur2 = (IF Orphaned THEN [flags |-> << >>] ELSE Snapshot(zs, zs.state))'
      /\ saved2 = (IF Orphaned THEN << >>
                 ELSE [i \in DOMAIN zs.backup_list |-> Saved(zs, zs.backup_list[i])])'
  <2>1. (OInv => (~Orphaned => [i \in DOMAIN zs.backup_list |-> Saved(zs, zs.backup_list[i])]
                          = SavedOf(zs)))'
    BY PromiseVars, PTL
  <2> QED BY <2>1 DEF SavedOf, Saved, Snapshot
<1> HIDE DEF cur, cur2, saved, saved2
<1>3. /\ saved2 = saved
      /\ DOMAIN cur.flags \subseteq DOMAIN cur2.flags
      /\ \A i \in DOMAIN cur.flags : cur2.flags[i] => cur.flags[i]
      => Promise!Work
  BY <1>1, <1>2 DEF Promise!Work
<1>4. saved2 = Append(saved, cur) /\ cur2 = cur => Promise!Mark
  BY <1>1, <1>2 DEF Promise!Mark
<1>5. \A payload \in 0 .. MaxPayload :
        saved2 = Append(saved, [cur EXCEPT !.payload = payload, !.elem_count = @ - 1])
        => Promise!Open
  BY <1>1, <1>2 DEF Promise!Open
<1>6. /\ saved # << >> /\ saved[Len(saved)].payload # -1
      /\ cur2 = saved[Len(saved)] /\ saved2 = saved
      => Promise!Retry
  BY <1>1, <1>2 DEF Promise!Retry, Promise!Top, Promise!Outdated
<1>7. /\ saved # << >> /\ saved[Len(saved)].payload # -1
      /\ cur2 = saved[Len(saved)] /\ saved2 = SubSeq(saved, 1, Len(saved) - 1)
      => Promise!RollBack
  BY <1>1, <1>2 DEF Promise!RollBack, Promise!Top, Promise!Popped, Promise!Outdated
<1>8. saved # << >> /\ cur2 = cur /\ saved2 = SubSeq(saved, 1, Len(saved) - 1)
      => Promise!Commit
  BY <1>1, <1>2 DEF Promise!Commit, Promise!Popped
<1>9. \A payload \in 0 .. MaxPayload :
        /\ saved # << >> /\ saved2 = SubSeq(saved, 1, Len(saved) - 1)
        /\ cur2 = [saved[Len(saved)] EXCEPT !.payload = payload]
        => Promise!Close
  BY <1>1, <1>2 DEF Promise!Close, Promise!Top, Promise!Popped
<1>10. \A payload \in 0 .. MaxPayload :
         /\ cur2 = [cur EXCEPT !.payload = payload]
         /\ saved2 = [i \in DOMAIN saved |-> [saved[i] EXCEPT !.payload = -1]]
         => Promise!Move
  BY <1>1, <1>2 DEF Promise!Move, Promise!Outdated
<1> QED BY <1>3, <1>4, <1>5, <1>6, <1>7, <1>8, <1>9, <1>10 DEF cur, cur2, saved, saved2

-----------------------------------------------------------------------------
(* Each kind of step is one of the abstract stack's.                       *)

\* How many backups there are before and after, and what they stand for.
LEMMA PairedSteps ==
    ASSUME OInv, Effect, Good(zs'), ~Orphaned', ~Moving
    PROVE  /\ zs'.backup_list = zs.backup_list => SavedOf(zs') = SavedOf(zs)
           /\ OneMore(zs, zs') => SavedOf(zs') = Append(SavedOf(zs), Saved(zs', Top(zs')))
           /\ OneLess(zs, zs') =>
                /\ SavedOf(zs) # << >>
                /\ SavedOf(zs') = SubSeq(SavedOf(zs), 1, Len(SavedOf(zs)) - 1)
           /\ zs.backup_list # << >> =>
                SavedOf(zs) # << >> /\ SavedOf(zs)[Len(SavedOf(zs))] = Saved(zs, Top(zs))
<1> DEFINE n == Len(zs.backup_list)  nn == Len(zs'.backup_list)
           f == SavedOf(zs)  g == SavedOf(zs')
<1>1. Good(zs) /\ n \in Nat /\ nn \in Nat
  BY GoodType DEF OInv, IInv
<1>2. Counted(f, n) /\ Counted(g, nn)
  BY SavedOfCounted
<1>3. \A i \in 1 .. n : i <= nn => g[i] = f[i]
  BY SavedStays
<1>4. ASSUME zs.backup_list # << >>
      PROVE  f # << >> /\ f[Len(f)] = Saved(zs, Top(zs)) /\ n # 0
  <2>1. n # 0 /\ n \in 1 .. n
    BY <1>1, <1>4, GoodType, EmptySeq
  <2>2. Len(f) = n
    BY <1>1, <1>2, CountedSeq
  <2>3. f[n] = Saved(zs, Top(zs))
    BY <2>1, SavedOfCounted DEF Top
  <2>4. f # << >>
    <3> HIDE DEF n, f
    <3> QED BY <2>1, <2>2
  <2> QED BY <2>1, <2>2, <2>3, <2>4
<1>5. ASSUME zs'.backup_list = zs.backup_list PROVE g = f
  <2>1. nn = n /\ \A i \in 1 .. n : g[i] = f[i]
    BY <1>1, <1>3, <1>5
  <2> HIDE DEF n, nn, f, g
  <2> QED BY <1>1, <1>2, <2>1, CountedEqual
<1>6. ASSUME OneMore(zs, zs') PROVE g = Append(f, Saved(zs', Top(zs')))
  <2>1. nn = n + 1
    BY <1>6 DEF OneMore
  <2>2. \A i \in 1 .. n : g[i] = f[i]
    BY <1>1, <1>3, <2>1
  <2>3. g[n + 1] = Saved(zs', Top(zs'))
    <3>1. nn \in 1 .. nn
      BY <1>1, <2>1
    <3> QED BY <2>1, <3>1, SavedOfCounted DEF Top
  <2> HIDE DEF n, nn, f, g
  <2> QED BY <1>1, <1>2, <2>1, <2>2, <2>3, CountedAppend
<1>7. ASSUME OneLess(zs, zs') PROVE f # << >> /\ g = SubSeq(f, 1, Len(f) - 1)
  <2>1. n = nn + 1
    BY <1>1, <1>7 DEF OneLess
  <2>2. \A i \in 1 .. nn : g[i] = f[i]
    BY <1>1, <1>3, <2>1
  <2> HIDE DEF n, nn, f, g
  <2> QED BY <1>1, <1>2, <2>1, <2>2, CountedPopped
<1> QED BY <1>4, <1>5, <1>6, <1>7

LEMMA EffectRefines ==
    ASSUME OInv, OInv', Effect, ~Orphaned'
    PROVE  \/ Promise!Work \/ Promise!Mark \/ Promise!Open \/ Promise!Retry
           \/ Promise!RollBack \/ Promise!Commit \/ Promise!Close \/ Promise!Move
<1> DEFINE cur == Snapshot(zs, zs.state)
           cur2 == Snapshot(zs', zs'.state)
           saved == SavedOf(zs)
           saved2 == SavedOf(zs')
<1>1. /\ Good(zs) /\ Good(zs') /\ ~Orphaned /\ Ordered(zs, calls) /\ ~Stranding
      /\ calls \in Seq(Calls)
  BY EffectPairs, EffectOrders DEF OInv, IInv
<1>2. zs.state \in Cursor /\ zs'.state \in Cursor
  BY <1>1, GoodType
<1>3. zs.backup_list # << >> =>
        /\ Top(zs) \in Cursor /\ Top(zs).payload \in Nat
        /\ SmartSearch => /\ FlagEnd(Top(zs)) <= FlagBytes
                          /\ FlagEnd(Top(zs)) <= Start(zs.state)
  <2> SUFFICES ASSUME zs.backup_list # << >>
               PROVE  /\ Top(zs) \in Cursor /\ Top(zs).payload \in Nat
                      /\ SmartSearch => /\ FlagEnd(Top(zs)) <= FlagBytes
                                        /\ FlagEnd(Top(zs)) <= Start(zs.state)
    OBVIOUS
  <2>1. Top(zs) \in Cursor /\ (SmartSearch => FlagEnd(Top(zs)) <= FlagBytes)
    BY <1>1, TopType
  <2>2. Len(calls) \in 1 .. Len(calls) /\ Top(zs) = zs.backup_list[Len(calls)]
    BY <1>1, TopOrdered
  <2>3. Over(zs.backup_list, calls, Len(calls), zs.state)
    BY <1>1 DEF Ordered
  <2> QED BY <2>1, <2>2, <2>3, CountType DEF Over
<1>4. CASE Moving
  <2>1. cur2 = [cur EXCEPT !.payload = 0] /\ 0 \in 0 .. MaxPayload
    <3>1. /\ zs'.state.payload = 0 /\ zs'.state.elem_count = zs.state.elem_count
          /\ zs'.state.decode_state = zs.state.decode_state /\ zs'.mem = zs.mem
      BY <1>4 DEF Moving, Moved, AtStart
    <3>2. FlagsOf(zs', zs'.state) = FlagsOf(zs, zs.state)
      BY <3>1 DEF FlagsOf, FlagLeft, FlagByteOf
    <3> QED BY <3>1, <3>2, PayloadsWithin DEF Snapshot
  <2>2. saved2 = [i \in DOMAIN saved |-> [saved[i] EXCEPT !.payload = -1]]
    <3>1. DOMAIN saved = 1 .. Len(zs.backup_list) /\ Len(zs'.backup_list) = Len(zs.backup_list)
      BY <1>4 DEF SavedOf, Moving, Moved
    <3>2. ASSUME NEW i \in 1 .. Len(zs.backup_list)
          PROVE  saved2[i] = [saved[i] EXCEPT !.payload = -1]
      <4> DEFINE b == zs.backup_list[i]  bb == zs'.backup_list[i]
      <4>1. /\ bb.payload_moved /\ bb.elem_count = b.elem_count
            /\ bb.decode_state = b.decode_state /\ zs'.mem = zs.mem
        BY <1>4 DEF Moving, Moved, AtStart
      <4>2. FlagsOf(zs', bb) = FlagsOf(zs, b)
        BY <4>1 DEF FlagsOf, FlagLeft, FlagByteOf
      <4> HIDE DEF b, bb
      <4>3. Saved(zs', bb) = [Saved(zs, b) EXCEPT !.payload = -1]
        BY <4>1, <4>2, SavedFields
      <4> QED BY <3>1, <4>3, SavedOfCounted DEF b, bb
    <3>3. saved2 = [i \in 1 .. Len(zs.backup_list) |-> saved2[i]]
      BY <3>1, SavedOfCounted DEF Counted
    <3> HIDE DEF saved, saved2
    <3> QED BY <3>1, <3>2, <3>3
  <2>3. Promise!Move
    BY <1>1, <2>1, <2>2, PromiseActions
  <2> QED BY <2>3
<1>5. CASE Working /\ ~Moving
  <2>1. zs'.backup_list = zs.backup_list /\ Kept(zs, zs')
    BY <1>1, <1>5 DEF Working, ListKept, Worked
  <2>2. saved2 = saved
    BY <1>1, <1>5, <2>1, PairedSteps
  <2>3. /\ cur.flags = FlagsOf(zs, zs.state) /\ cur2.flags = FlagsOf(zs', zs'.state)
    BY DEF Snapshot
  <2>4. /\ DOMAIN cur.flags = 0 .. Count(zs.state) - 1
        /\ DOMAIN cur2.flags = 0 .. Count(zs'.state) - 1
        /\ \A i \in 0 .. Count(zs.state) - 1 : cur.flags[i] = FlagLeft(zs, zs.state, i)
        /\ \A i \in 0 .. Count(zs'.state) - 1 : cur2.flags[i] = FlagLeft(zs', zs'.state, i)
    BY <1>2, <2>3, FlagsDomain
  <2>5. /\ Count(zs.state) \in Nat /\ Count(zs'.state) \in Nat
        /\ Count(zs.state) <= Count(zs'.state)
        /\ \A i \in 0 .. Count(zs.state) - 1 :
              FlagLeft(zs', zs'.state, i) => FlagLeft(zs, zs.state, i)
    BY <1>2, <2>1, CountType DEF Kept
  <2>6. /\ DOMAIN cur.flags \subseteq DOMAIN cur2.flags
        /\ \A i \in DOMAIN cur.flags : cur2.flags[i] => cur.flags[i]
    <3> DEFINE d == 0 .. Count(zs.state) - 1
               f == cur.flags
               f2 == cur2.flags
               Left(i) == FlagLeft(zs, zs.state, i)
               Left2(i) == FlagLeft(zs', zs'.state, i)
    <3>1. 0 .. Count(zs.state) - 1 \subseteq 0 .. Count(zs'.state) - 1
      BY <2>5
    <3>2. /\ DOMAIN f = d
          /\ \A i \in d : f[i] = Left(i)
          /\ \A i \in d : f2[i] = Left2(i)
      BY <2>4, <3>1
    <3>3. \A i \in d : Left2(i) => Left(i)
      BY <2>5
    <3>4. DOMAIN f \subseteq DOMAIN f2
      BY <2>4, <3>1
    <3> HIDE DEF d, f, f2, Left, Left2
    <3>5. ASSUME NEW i \in DOMAIN f, f2[i]
          PROVE  f[i]
      <4>1. f[i] = Left(i) /\ f2[i] = Left2(i) /\ (Left2(i) => Left(i))
        BY <3>2, <3>3
      <4> QED BY <3>5, <4>1, Zenon
    <3> QED BY <3>4, <3>5 DEF f, f2
  <2>7. Promise!Work
    BY <1>1, <2>2, <2>6, PromiseActions
  <2> QED BY <2>7
<1>6. CASE Marking /\ ~Moving
  <2>1. /\ OneMore(zs, zs') /\ ~Top(zs').payload_moved
        /\ Alike(zs, zs.state, zs', Top(zs'))
        /\ Alike(zs, [zs.state EXCEPT !.elem_count = zs.state.elem_count], zs', zs'.state)
    BY <1>6 DEF Marking, StateSaved, GoesOn
  <2>2. [zs.state EXCEPT !.elem_count = zs.state.elem_count] = zs.state
    BY <1>2 DEF Cursor
  <2>3. Saved(zs', Top(zs')) = cur /\ cur2 = cur
    BY <2>1, <2>2, SavedInPlace DEF Alike
  <2>4. saved2 = Append(saved, Saved(zs', Top(zs')))
    BY <1>1, <1>6, <2>1, PairedSteps
  <2>5. Promise!Mark
    BY <1>1, <2>3, <2>4, PromiseActions
  <2> QED BY <2>5
<1>7. CASE Opening /\ ~Moving
  <2>1. /\ OneMore(zs, zs') /\ ~Top(zs').payload_moved
        /\ FlagsOf(zs', Top(zs')) = FlagsOf(zs, zs.state)
        /\ Top(zs').elem_count = zs.state.elem_count - 1
    BY <1>7 DEF Opening, Opened
  <2>2. Top(zs').payload \in 0 .. MaxPayload
    <3>1. zs'.backup_list # << >>
      BY <1>1, <2>1, GoodType, EmptySeq DEF OneMore
    <3> QED BY <1>1, <3>1, TopType DEF Cursor
  <2>3. Saved(zs', Top(zs'))
          = [cur EXCEPT !.payload = Top(zs').payload, !.elem_count = @ - 1]
    <3> DEFINE a == zs.state.payload
               p == Top(zs').payload
               e == zs.state.elem_count
               f == FlagsOf(zs, zs.state)
    <3>1. Snapshot(zs', Top(zs')) = [payload |-> p, elem_count |-> e - 1, flags |-> f]
      BY <2>1 DEF Snapshot
    <3>2. cur = [payload |-> a, elem_count |-> e, flags |-> f]
      BY DEF Snapshot
    <3>3. Saved(zs', Top(zs')) = Snapshot(zs', Top(zs'))
      BY <2>1, SavedInPlace
    <3> HIDE DEF a, p, e, f, cur
    <3>4. [cur EXCEPT !.payload = p, !.elem_count = @ - 1]
            = [payload |-> p, elem_count |-> e - 1, flags |-> f]
      <4> DEFINE q == e - 1
      <4>1. cur.elem_count - 1 = q
        BY <3>2
      <4> HIDE DEF q
      <4>2. [cur EXCEPT !.payload = p, !.elem_count = q]
              = [payload |-> p, elem_count |-> q, flags |-> f]
        <5>1. [cur EXCEPT !.payload = p, !.elem_count = q]
                = [[cur EXCEPT !.payload = p] EXCEPT !.elem_count = q]
          BY <3>2
        <5>2. [cur EXCEPT !.payload = p] = [payload |-> p, elem_count |-> e, flags |-> f]
          BY <3>2
        <5>3. [[payload |-> p, elem_count |-> e, flags |-> f] EXCEPT !.elem_count = q]
                = [payload |-> p, elem_count |-> q, flags |-> f]
          OBVIOUS
        <5> QED BY <5>1, <5>2, <5>3
      <4>3. [cur EXCEPT !.payload = p, !.elem_count = @ - 1]
              = [cur EXCEPT !.payload = p, !.elem_count = q]
        BY <4>1
      <4> QED BY <4>2, <4>3 DEF q
    <3> QED BY <3>1, <3>3, <3>4 DEF p
  <2>4. saved2 = Append(saved, Saved(zs', Top(zs')))
    BY <1>1, <1>7, <2>1, PairedSteps
  <2>5. Promise!Open
    BY <1>1, <2>2, <2>3, <2>4, PromiseActions
  <2> QED BY <2>5
<1>8. CASE Retrying /\ ~Moving
  <2>1. /\ zs.backup_list # << >> /\ ~Top(zs).payload_moved
        /\ zs'.backup_list = zs.backup_list
        /\ Alike(zs, Top(zs), zs', zs'.state)
    BY <1>8 DEF Retrying, Retried
  <2>2. saved2 = saved /\ saved # << >> /\ saved[Len(saved)] = Saved(zs, Top(zs))
    BY <1>1, <1>8, <2>1, PairedSteps
  <2>3. Saved(zs, Top(zs)) = Snapshot(zs, Top(zs)) /\ cur2 = Snapshot(zs, Top(zs))
    BY <2>1, SavedInPlace DEF Alike
  <2>4. Snapshot(zs, Top(zs)).payload # -1
    BY <1>3, <2>1 DEF Snapshot
  <2>5. Promise!Retry
    BY <1>1, <2>2, <2>3, <2>4, PromiseActions
  <2> QED BY <2>5
<1>9. CASE RollingBack /\ ~Moving
  <2>1. /\ zs.backup_list # << >> /\ OneLess(zs, zs') /\ ~Top(zs).payload_moved
        /\ zs'.mem = zs.mem /\ zs'.state = Top(zs)
    BY <1>9 DEF RollingBack, RolledBack, OneLess
  <2>2. /\ saved # << >> /\ saved[Len(saved)] = Saved(zs, Top(zs))
        /\ saved2 = SubSeq(saved, 1, Len(saved) - 1)
    BY <1>1, <1>9, <2>1, PairedSteps
  <2>3. Saved(zs, Top(zs)) = Snapshot(zs, Top(zs)) /\ cur2 = Snapshot(zs, Top(zs))
    BY <2>1, SavedInPlace, AlikeSelf DEF Alike
  <2>4. Snapshot(zs, Top(zs)).payload # -1
    BY <1>3, <2>1 DEF Snapshot
  <2>5. Promise!RollBack
    BY <1>1, <2>2, <2>3, <2>4, PromiseActions
  <2> QED BY <2>5
<1>10. CASE Committing /\ ~Moving
  <2>1. OneLess(zs, zs') /\ Alike(zs, zs.state, zs', zs'.state)
    BY <1>10 DEF Committing, Committed
  <2>2. saved # << >> /\ saved2 = SubSeq(saved, 1, Len(saved) - 1)
    BY <1>1, <1>10, <2>1, PairedSteps
  <2>3. cur2 = cur
    BY <2>1 DEF Alike
  <2>4. Promise!Commit
    BY <1>1, <2>2, <2>3, PromiseActions
  <2> QED BY <2>4
<1>11. CASE Closing /\ ~Moving
  <2>1. /\ zs.backup_list # << >> /\ OneLess(zs, zs')
        /\ Below(zs, zs', Start(zs.state))
        /\ zs'.state.decode_state = Top(zs).decode_state
        /\ zs'.state.elem_count = Top(zs).elem_count
    BY <1>11 DEF Closing, Closed, OneLess
  <2>2. /\ saved # << >> /\ saved[Len(saved)] = Saved(zs, Top(zs))
        /\ saved2 = SubSeq(saved, 1, Len(saved) - 1)
    BY <1>1, <1>11, <2>1, PairedSteps
  <2>3. Below(zs, zs', FlagEnd(Top(zs)))
    <3>1. FlagEnd(Top(zs)) \in Int /\ Start(zs.state) \in Int
      BY <1>2, <1>3, <2>1, FlagEndType
    <3>2. CASE SmartSearch
      BY <1>3, <2>1, <3>1, <3>2, BelowLess
    <3>3. CASE ~SmartSearch
      BY <2>1, <3>3 DEF Below
    <3> QED BY <3>2, <3>3
  <2>4. FlagsOf(zs', zs'.state) = FlagsOf(zs, Top(zs))
    BY <1>2, <1>3, <2>1, <2>3, FlagsStay DEF Start
  <2>5. cur2 = [Saved(zs, Top(zs)) EXCEPT !.payload = zs'.state.payload]
    BY <2>1, <2>4, SavedFields DEF Snapshot
  <2>6. zs'.state.payload \in 0 .. MaxPayload
    BY <1>2 DEF Cursor
  <2>7. Promise!Close
    BY <1>1, <2>2, <2>5, <2>6, PromiseActions
  <2> QED BY <2>7
<1> QED BY <1>1, <1>4, <1>5, <1>6, <1>7, <1>8, <1>9, <1>10, <1>11 DEF Effect, Staying

-----------------------------------------------------------------------------
(* Theorem.                                                                *)

LEMMA InitRefines == Init => Promise!Init
<1> SUFFICES ASSUME Init PROVE Promise!Init
  OBVIOUS
<1>1. /\ zs.backup_list = << >> /\ calls = << >> /\ zs.state = InitialCursor
  BY DEF Init
<1>2. ~Orphaned
  BY <1>1 DEF Orphaned
<1>3. Snapshot(zs, zs.state).flags = << >>
  BY <1>1 DEF Snapshot, FlagsOf, InitialCursor
<1>4. [i \in DOMAIN zs.backup_list |-> Saved(zs, zs.backup_list[i])] = << >>
  <2>1. SavedOf(zs) = [i \in DOMAIN zs.backup_list |-> Saved(zs, zs.backup_list[i])]
    BY <1>1 DEF SavedOf
  <2>2. Counted(SavedOf(zs), 0)
    BY <1>1, SavedOfCounted
  <2>3. Len(SavedOf(zs)) = 0
    BY <2>2, CountedSeq
  <2> QED BY <2>1, <2>2, <2>3, CountedSeq, EmptySeq
<1> QED BY <1>2, <1>3, <1>4 DEF Promise!Init

LEMMA StepRefines == OInv /\ [Next]_vars => [Promise!Next]_(Promise!vars)
<1> SUFFICES ASSUME OInv, [Next]_vars PROVE [Promise!Next]_(Promise!vars)
  OBVIOUS
<1>1. OInv'
  BY StepOrdered
<1>2. CASE UNCHANGED vars
  BY <1>2 DEF vars, Promise!vars, Orphaned
<1>3. CASE Next /\ Orphaned'
  BY <1>3 DEF Promise!Next
<1>4. CASE Effect /\ ~Orphaned'
  <2>1. ~Orphaned
    BY <1>1, <1>4, EffectPairs DEF OInv, IInv
  <2> QED BY <1>1, <1>4, <2>1, EffectRefines DEF Promise!Next
<1>5. CASE NewState /\ ~Orphaned'
  <2>1. zs'.backup_list = << >> /\ calls = << >>
    BY <1>5, NewStateFresh DEF OInv
  <2>2. [i \in DOMAIN zs'.backup_list |-> Saved(zs', zs'.backup_list[i])] = << >>
    <3>1. SavedOf(zs') = [i \in DOMAIN zs'.backup_list |-> Saved(zs', zs'.backup_list[i])]
      BY <2>1 DEF SavedOf
    <3>2. Counted(SavedOf(zs'), 0)
      BY <2>1, SavedOfCounted
    <3>3. Len(SavedOf(zs')) = 0
      BY <3>2, CountedSeq
    <3> QED BY <3>1, <3>2, <3>3, CountedSeq, EmptySeq
  <2>3. ~Orphaned => zs.backup_list = << >>
    <3>1. ~Orphaned => Len(zs.backup_list) = 0
      BY <2>1 DEF Orphaned
    <3> QED BY <3>1, EmptySeq, GoodType DEF OInv, IInv
  <2>4. ~Orphaned => [i \in DOMAIN zs.backup_list |-> Saved(zs, zs.backup_list[i])] = << >>
    <3> SUFFICES ASSUME ~Orphaned
                 PROVE  [i \in DOMAIN zs.backup_list |-> Saved(zs, zs.backup_list[i])] = << >>
      OBVIOUS
    <3>1. zs.backup_list = << >>
      BY <2>3
    <3>2. SavedOf(zs) = [i \in DOMAIN zs.backup_list |-> Saved(zs, zs.backup_list[i])]
      BY <3>1 DEF SavedOf
    <3>3. Counted(SavedOf(zs), 0)
      BY <3>1, SavedOfCounted
    <3>4. Len(SavedOf(zs)) = 0
      BY <3>3, CountedSeq
    <3> QED BY <3>2, <3>3, <3>4, CountedSeq, EmptySeq
  <2> QED BY <1>5, <2>2, <2>4 DEF Promise!Next
<1> QED BY <1>2, <1>3, <1>4, <1>5, NextEffect DEF Effect

\* Whatever a decoder does, the backups behave as a stack of snapshots that each
\* own their flags, until a call leaves its backup behind: the buffer that they
\* share, the copies and the moves of flags in it cannot be told from it.
THEOREM PromiseIsKept == Spec => PromiseKept
<1>1. Spec => []OInv
  BY OrderInvariance
<1> QED BY <1>1, InitRefines, StepRefines, PTL DEF Spec, PromiseKept, Promise!Spec

=============================================================================
