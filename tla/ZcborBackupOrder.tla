-------------------------- MODULE ZcborBackupOrder --------------------------
(***************************************************************************)
(* As long as no call has left its backup behind, the backups are in the   *)
(* order of the calls they belong to: their flags lie one above the other, *)
(* their sections one within the other, and each list or map knows its     *)
(* own.  From that order: no work on the innermost map reaches what the    *)
(* backups saved.                                                          *)
(***************************************************************************)
EXTENDS ZcborBackupSteps

Marks == {"union", "multi"}

\* The cursor c is in order on top of the first k backups, which belong to the
\* first k calls: its flags are above theirs, it knows the list or map it is
\* in, and its section is within theirs, or theirs if no string came between.
Over(list, cs, k, c) ==
    /\ SmartSearch => \A i \in 1 .. k : FlagEnd(list[i]) <= Start(c)
    /\ \A i \in 1 .. k :
          /\ cs[i] \in {"list", "umap"}
          /\ \A j \in i + 1 .. k : cs[j] \in Marks
          => MapOf(c) = i
    /\ \A i \in 1 .. k :
          /\ c.payload_end <= list[i].payload_end
          /\ (\A j \in i .. k : cs[j] # "bstr") => c.payload_end = list[i].payload_end

\* Every backup is in order on those below it, and so is the state; the backups
\* with flags of their own are those of unions and repetitions.
Ordered(m, cs) ==
    /\ Len(cs) = Len(m.backup_list)
    /\ \A k \in 1 .. Len(cs) :
          /\ Over(m.backup_list, cs, k - 1, m.backup_list[k])
          /\ BackedUp(m.backup_list[k]) <=> SmartSearch /\ cs[k] \in Marks
    /\ Over(m.backup_list, cs, Len(cs), m.state)

-----------------------------------------------------------------------------
(* The order, one backup up or down.                                       *)

SameBelow(list, cs, more, ds, k) ==
    \A i \in 1 .. k : more[i] = list[i] /\ ds[i] = cs[i]

\* It depends on the backups below only.
LEMMA OverSame ==
    ASSUME NEW list, NEW more, NEW cs, NEW ds, NEW k \in Nat, NEW c,
           SameBelow(list, cs, more, ds, k), Over(list, cs, k, c)
    PROVE  Over(more, ds, k, c)
<1> USE DEF SameBelow
<1>1. \A i \in 1 .. k : i .. k \subseteq 1 .. k /\ i + 1 .. k \subseteq 1 .. k
  OBVIOUS
<1>2. SmartSearch => \A i \in 1 .. k : FlagEnd(more[i]) <= Start(c)
  BY DEF Over
<1>3. ASSUME NEW i \in 1 .. k, ds[i] \in {"list", "umap"},
             \A j \in i + 1 .. k : ds[j] \in Marks
      PROVE  MapOf(c) = i
  BY <1>1, <1>3 DEF Over
<1>4. ASSUME NEW i \in 1 .. k
      PROVE  /\ c.payload_end <= more[i].payload_end
             /\ (\A j \in i .. k : ds[j] # "bstr") => c.payload_end = more[i].payload_end
  BY <1>1, <1>4 DEF Over
<1> QED BY <1>2, <1>3, <1>4 DEF Over

\* Another cursor, with its flags as high or higher, for the same map and section.
LEMMA OverAlike ==
    ASSUME NEW list, NEW cs, NEW k \in Nat, NEW c \in Cursor, NEW d \in Cursor,
           \A i \in 1 .. k : list[i] \in Cursor,
           Over(list, cs, k, c), SmartSearch => Start(c) <= Start(d),
           MapOf(d) = MapOf(c), d.payload_end = c.payload_end
    PROVE  Over(list, cs, k, d)
<1>1. Start(c) \in Int /\ Start(d) \in Int /\ \A i \in 1 .. k : FlagEnd(list[i]) \in Int
  BY FlagEndType
<1>2. SmartSearch => \A i \in 1 .. k : FlagEnd(list[i]) <= Start(d)
  BY <1>1 DEF Over
<1> QED BY <1>2 DEF Over

\* A cursor with its flags above the next backup, of the same map unless it was
\* entered there, of the same section unless a string was.
LEMMA OverNext ==
    ASSUME NEW list, NEW cs, NEW k \in Nat, NEW c \in Cursor, NEW d \in Cursor,
           \A i \in 1 .. k + 1 : list[i] \in Cursor,
           Over(list, cs, k, c), SmartSearch => Start(list[k + 1]) = Start(c),
           list[k + 1].payload_end = c.payload_end,
           SmartSearch => FlagEnd(list[k + 1]) <= Start(d),
           cs[k + 1] \in Marks => MapOf(d) = MapOf(c),
           cs[k + 1] \in {"list", "umap"} => MapOf(d) = k + 1,
           d.payload_end <= c.payload_end,
           cs[k + 1] # "bstr" => d.payload_end = c.payload_end
    PROVE  Over(list, cs, k + 1, d)
<1>1. ASSUME SmartSearch, NEW i \in 1 .. k + 1
      PROVE  FlagEnd(list[i]) <= Start(d)
  <2>1. CASE i = k + 1
    BY <1>1, <2>1
  <2>2. CASE i \in 1 .. k
    <3>1. /\ Start(c) \in Int /\ Start(d) \in Int /\ FlagEnd(list[i]) \in Int
          /\ FlagEnd(list[k + 1]) \in Int /\ Start(list[k + 1]) \in Int
          /\ Start(list[k + 1]) <= FlagEnd(list[k + 1])
      BY FlagEndType
    <3>2. FlagEnd(list[i]) <= Start(c)
      BY <1>1, <2>2 DEF Over
    <3> QED BY <1>1, <3>1, <3>2
  <2> QED BY <2>1, <2>2
<1>2. ASSUME NEW i \in 1 .. k + 1, cs[i] \in {"list", "umap"},
             \A j \in i + 1 .. k + 1 : cs[j] \in Marks
      PROVE  MapOf(d) = i
  <2>1. CASE i = k + 1
    BY <1>2, <2>1
  <2>2. CASE i \in 1 .. k
    <3>1. k + 1 \in i + 1 .. k + 1 /\ i + 1 .. k \subseteq i + 1 .. k + 1
      BY <2>2
    <3>2. MapOf(c) = i
      BY <1>2, <2>2, <3>1 DEF Over
    <3> QED BY <1>2, <3>1, <3>2
  <2> QED BY <2>1, <2>2
<1>3. ASSUME NEW i \in 1 .. k + 1
      PROVE  /\ d.payload_end <= list[i].payload_end
             /\ (\A j \in i .. k + 1 : cs[j] # "bstr") => d.payload_end = list[i].payload_end
  <2>1. CASE i = k + 1
    BY <2>1
  <2>2. CASE i \in 1 .. k
    <3>1. k + 1 \in i .. k + 1 /\ i .. k \subseteq i .. k + 1
      BY <2>2
    <3>2. /\ d.payload_end \in Int /\ c.payload_end \in Int /\ list[i].payload_end \in Int
      BY CountType
    <3>3. /\ c.payload_end <= list[i].payload_end
          /\ (\A j \in i .. k : cs[j] # "bstr") => c.payload_end = list[i].payload_end
      BY <2>2 DEF Over
    <3> QED BY <3>1, <3>2, <3>3
  <2> QED BY <2>1, <2>2
<1> QED BY <1>1, <1>2, <1>3 DEF Over

\* A rollback point may go from between: the cursor takes over its flags.
LEMMA OverDown ==
    ASSUME NEW list, NEW cs, NEW k \in Nat, NEW c \in Cursor, NEW d \in Cursor,
           \A i \in 1 .. k + 1 : list[i] \in Cursor,
           Over(list, cs, k, list[k + 1]), Over(list, cs, k + 1, c),
           cs[k + 1] \in Marks,
           SmartSearch => Start(list[k + 1]) <= Start(d),
           MapOf(d) = MapOf(c), d.payload_end = c.payload_end
    PROVE  Over(list, cs, k, d)
<1>1. ASSUME SmartSearch, NEW i \in 1 .. k
      PROVE  FlagEnd(list[i]) <= Start(d)
  <2>1. Start(d) \in Int /\ FlagEnd(list[i]) \in Int /\ Start(list[k + 1]) \in Int
    BY FlagEndType
  <2>2. FlagEnd(list[i]) <= Start(list[k + 1])
    BY <1>1 DEF Over
  <2> QED BY <1>1, <2>1, <2>2
<1>2. ASSUME NEW i \in 1 .. k, cs[i] \in {"list", "umap"},
             \A j \in i + 1 .. k : cs[j] \in Marks
      PROVE  MapOf(d) = i
  <2>1. i \in 1 .. k + 1 /\ \A j \in i + 1 .. k + 1 : j = k + 1 \/ j \in i + 1 .. k
    OBVIOUS
  <2>2. \A j \in i + 1 .. k + 1 : cs[j] \in Marks
    BY <1>2, <2>1
  <2> QED BY <1>2, <2>1, <2>2 DEF Over
<1>3. ASSUME NEW i \in 1 .. k
      PROVE  /\ d.payload_end <= list[i].payload_end
             /\ (\A j \in i .. k : cs[j] # "bstr") => d.payload_end = list[i].payload_end
  <2>1. i \in 1 .. k + 1 /\ \A j \in i .. k + 1 : j = k + 1 \/ j \in i .. k
    OBVIOUS
  <2>2. cs[k + 1] # "bstr"
    BY DEF Marks
  <2> QED BY <2>1, <2>2 DEF Over
<1> QED BY <1>1, <1>2, <1>3 DEF Over

-----------------------------------------------------------------------------
(* Each kind of step keeps the order.                                      *)

LEMMA OrderedType ==
    ASSUME NEW m, Good(m), NEW cs \in Seq(Calls), Ordered(m, cs)
    PROVE  /\ Len(cs) \in Nat /\ Len(m.backup_list) = Len(cs)
           /\ m.state \in Cursor
           /\ \A i \in 1 .. Len(cs) : m.backup_list[i] \in Cursor /\ cs[i] \in Calls
BY GoodType DEF Ordered

\* The state is replaced on the same backups.
LEMMA StateOrdered ==
    ASSUME NEW m, Good(m), NEW cs \in Seq(Calls), Ordered(m, cs), NEW n,
           n.backup_list = m.backup_list, Over(m.backup_list, cs, Len(cs), n.state)
    PROVE  Ordered(n, cs)
BY DEF Ordered

LEMMA WorkedOrdered ==
    ASSUME NEW m, Good(m), NEW n, Good(n), NEW cs \in Seq(Calls), Ordered(m, cs),
           Worked(m, n)
    PROVE  Ordered(n, cs)
<1>1. n.state \in Cursor /\ Over(m.backup_list, cs, Len(cs), m.state)
  BY GoodType DEF Ordered, Over
<1>2. /\ n.backup_list = m.backup_list /\ Start(n.state) = Start(m.state)
      /\ MapOf(n.state) = MapOf(m.state) /\ n.state.payload_end = m.state.payload_end
  BY <1>1 DEF Worked, Kept, KeptBelow, SameSection
<1>3. Start(n.state) \in Int
  BY <1>1, FlagEndType
<1>4. Over(m.backup_list, cs, Len(cs), n.state)
  BY <1>1, <1>2, <1>3, OrderedType, OverAlike
<1> QED BY <1>2, <1>4, StateOrdered

\* A backup more, of a call more.
LEMMA PushedOrdered ==
    ASSUME NEW m, Good(m), NEW n, Good(n), NEW cs \in Seq(Calls), Ordered(m, cs),
           NEW call \in Calls, OneMore(m, n),
           Start(Top(n)) = Start(m.state), MapOf(Top(n)) = MapOf(m.state),
           Top(n).payload_end = m.state.payload_end,
           BackedUp(Top(n)) <=> SmartSearch /\ call \in Marks,
           SmartSearch => FlagEnd(Top(n)) <= Start(n.state),
           call \in Marks => MapOf(n.state) = MapOf(m.state),
           call \in {"list", "umap"} => MapOf(n.state) = Len(n.backup_list),
           n.state.payload_end <= m.state.payload_end,
           call # "bstr" => n.state.payload_end = m.state.payload_end
    PROVE  Ordered(n, Append(cs, call))
<1> DEFINE k == Len(cs)
           ds == Append(cs, call)
<1>1. /\ k \in Nat /\ Len(m.backup_list) = k /\ m.state \in Cursor
      /\ \A i \in 1 .. k : m.backup_list[i] \in Cursor
  BY OrderedType
<1>2. /\ Len(n.backup_list) = k + 1 /\ Top(n) = n.backup_list[k + 1]
      /\ \A i \in 1 .. k : n.backup_list[i] = m.backup_list[i]
  BY <1>1 DEF OneMore, Top
<1>3. n.state \in Cursor /\ \A i \in 1 .. k + 1 : n.backup_list[i] \in Cursor
  BY <1>2, GoodType
<1>4. Len(ds) = k + 1 /\ ds[k + 1] = call /\ \A i \in 1 .. k : ds[i] = cs[i]
  OBVIOUS
<1> HIDE DEF k, ds
<1>5. \A i \in 1 .. k : n.backup_list[i] = m.backup_list[i] /\ ds[i] = cs[i]
  BY <1>2, <1>4
<1>6. Over(n.backup_list, ds, k, m.state)
  <2>1. Over(m.backup_list, cs, k, m.state)
    BY DEF Ordered, k
  <2>2. SameBelow(m.backup_list, cs, n.backup_list, ds, k)
    BY <1>5 DEF SameBelow
  <2> QED BY <1>1, <2>1, <2>2, OverSame
<1>7. Over(n.backup_list, ds, k, Top(n))
  <2>1. Top(n) \in Cursor /\ Start(Top(n)) \in Int /\ k + 1 \in 1 .. k + 1
    BY <1>1, <1>2, <1>3, FlagEndType
  <2>2. \A i \in 1 .. k : n.backup_list[i] \in Cursor
    BY <1>1, <1>5
  <2> QED BY <1>1, <1>6, <2>1, <2>2, OverAlike
<1>8. Over(n.backup_list, ds, k + 1, n.state)
  <2>1. /\ SmartSearch => Start(n.backup_list[k + 1]) = Start(m.state)
        /\ n.backup_list[k + 1].payload_end = m.state.payload_end
        /\ SmartSearch => FlagEnd(n.backup_list[k + 1]) <= Start(n.state)
        /\ ds[k + 1] \in Marks => MapOf(n.state) = MapOf(m.state)
        /\ ds[k + 1] \in {"list", "umap"} => MapOf(n.state) = k + 1
        /\ ds[k + 1] # "bstr" => n.state.payload_end = m.state.payload_end
    BY <1>2, <1>4
  <2> QED BY <1>1, <1>3, <1>6, <2>1, OverNext
<1>9. ASSUME NEW i \in 1 .. k + 1
      PROVE  /\ Over(n.backup_list, ds, i - 1, n.backup_list[i])
             /\ BackedUp(n.backup_list[i]) <=> SmartSearch /\ ds[i] \in Marks
  <2>1. CASE i = k + 1
    BY <1>1, <1>2, <1>4, <1>7, <2>1
  <2>2. CASE i \in 1 .. k
    <3>1. /\ Over(m.backup_list, cs, i - 1, m.backup_list[i])
          /\ BackedUp(m.backup_list[i]) <=> SmartSearch /\ cs[i] \in Marks
      BY <2>2 DEF Ordered, k
    <3>2. i - 1 \in Nat /\ 1 .. i - 1 \subseteq 1 .. k
      BY <1>1, <2>2
    <3>3. Over(n.backup_list, ds, i - 1, m.backup_list[i])
      <4>1. SameBelow(m.backup_list, cs, n.backup_list, ds, i - 1)
        BY <1>5, <3>2 DEF SameBelow
      <4> QED BY <3>1, <3>2, <4>1, OverSame
    <3> QED BY <1>5, <2>2, <3>1, <3>3
  <2> QED BY <1>1, <1>9, <2>1, <2>2
<1> QED BY <1>2, <1>4, <1>8, <1>9 DEF Ordered, ds

\* The innermost call has returned.
LEMMA CallPopped ==
    ASSUME NEW cs \in Seq(Calls), Len(cs) # 0
    PROVE  LET ds == SubSeq(cs, 1, Len(cs) - 1) IN
           /\ ds \in Seq(Calls) /\ Len(ds) = Len(cs) - 1
           /\ \A i \in 1 .. Len(cs) - 1 : ds[i] = cs[i]
<1> DEFINE n == Len(cs) - 1
<1>1. n \in Nat /\ \A i \in 1 .. n : cs[i] \in Calls
  OBVIOUS
<1> HIDE DEF n
<1>2. /\ SubSeq(cs, 1, n) \in Seq(Calls) /\ Len(SubSeq(cs, 1, n)) = n
      /\ \A i \in 1 .. n : SubSeq(cs, 1, n)[i] = cs[i]
  BY <1>1, SubSeqProperties
<1> QED BY <1>2 DEF n

\* The top backup and its call go; the state is in order on those below.
LEMMA PoppedOrdered ==
    ASSUME NEW m, Good(m), NEW n, Good(n), NEW cs \in Seq(Calls), Ordered(m, cs),
           OneLess(m, n), Over(m.backup_list, cs, Len(cs) - 1, n.state)
    PROVE  Ordered(n, SubSeq(cs, 1, Len(cs) - 1))
<1> DEFINE k == Len(cs) - 1
           ds == SubSeq(cs, 1, k)
<1>1. Len(cs) \in Nat /\ Len(m.backup_list) = Len(cs)
  BY OrderedType
<1>2. /\ k \in Nat /\ Len(n.backup_list) = k
      /\ \A i \in 1 .. k : n.backup_list[i] = m.backup_list[i]
  <2>1. m.backup_list # << >> /\ m.backup_list \in Seq(Cursor)
    BY GoodType DEF OneLess
  <2>2. Len(m.backup_list) > 0
    BY <2>1, EmptySeq
  <2> QED BY <1>1, <2>2 DEF OneLess
<1>3. Len(ds) = k /\ \A i \in 1 .. k : ds[i] = cs[i]
  <2>1. Len(cs) # 0
    BY <1>1, <1>2
  <2> QED BY <2>1, CallPopped
<1> HIDE DEF ds
<1>4. Over(n.backup_list, ds, k, n.state)
  <2>1. SameBelow(m.backup_list, cs, n.backup_list, ds, k)
    BY <1>2, <1>3 DEF SameBelow
  <2> QED BY <1>2, <2>1, OverSame
<1>5. ASSUME NEW i \in 1 .. k
      PROVE  /\ Over(n.backup_list, ds, i - 1, n.backup_list[i])
             /\ BackedUp(n.backup_list[i]) <=> SmartSearch /\ ds[i] \in Marks
  <2>1. i \in 1 .. Len(cs) /\ i - 1 \in Nat /\ 1 .. i - 1 \subseteq 1 .. k
    BY <1>1, <1>2
  <2>2. /\ Over(m.backup_list, cs, i - 1, m.backup_list[i])
        /\ BackedUp(m.backup_list[i]) <=> SmartSearch /\ cs[i] \in Marks
    BY <2>1 DEF Ordered
  <2>3. Over(n.backup_list, ds, i - 1, m.backup_list[i])
    <3>1. SameBelow(m.backup_list, cs, n.backup_list, ds, i - 1)
      BY <1>2, <1>3, <2>1 DEF SameBelow
    <3> QED BY <2>1, <2>2, <3>1, OverSame
  <2> QED BY <1>2, <1>3, <1>5, <2>2, <2>3
<1> QED BY <1>2, <1>3, <1>4, <1>5 DEF Ordered, ds

\* What one cursor stands for is what the other does.
LEMMA AlikeFields ==
    ASSUME NEW m, NEW c, NEW n, NEW d, Alike(m, c, n, d)
    PROVE  /\ d.payload = c.payload /\ d.elem_count = c.elem_count
           /\ d.payload_end = c.payload_end
           /\ MapOf(d) = MapOf(c)
           /\ Within(c) => Within(d)
           /\ FlagsOf(n, d) = FlagsOf(m, c)
           /\ Start(d) = Start(c) => FlagEnd(d) = FlagEnd(c)
BY SameCursorFlags DEF Alike, Snapshot, Within, Count

LEMMA MarkedOrdered ==
    ASSUME NEW m, Good(m), NEW n, Good(n), NEW cs \in Seq(Calls), Ordered(m, cs),
           NEW call \in Marks, StateSaved(m, n, SmartSearch),
           GoesOn(m, n, m.state.elem_count, SmartSearch)
    PROVE  Ordered(n, Append(cs, call))
<1>1. m.state \in Cursor
  BY GoodType DEF Ordered, Over
<1>2. /\ OneMore(m, n)
      /\ Start(Top(n)) = Start(m.state) /\ MapOf(Top(n)) = MapOf(m.state)
      /\ Top(n).payload_end = m.state.payload_end
      /\ FlagEnd(Top(n)) = FlagEnd(m.state)
      /\ BackedUp(Top(n)) <=> SmartSearch
  BY <1>1, AlikeFields DEF StateSaved
<1>3. /\ SmartSearch => Start(n.state) = FlagEnd(m.state)
      /\ MapOf(n.state) = MapOf(m.state) /\ n.state.payload_end = m.state.payload_end
  <2> DEFINE c == [m.state EXCEPT !.elem_count = m.state.elem_count]
  <2>1. c = m.state
    BY <1>1 DEF Cursor
  <2>2. Alike(m, c, n, n.state)
    BY DEF GoesOn
  <2> HIDE DEF c
  <2> QED BY <1>1, <2>1, <2>2, AlikeFields DEF GoesOn
<1>4. FlagEnd(m.state) \in Int /\ m.state.payload_end \in Int
  BY <1>1, FlagEndType, CountType
<1>5. call \in Calls /\ call \notin {"list", "umap"} /\ call # "bstr"
  BY DEF Marks, Calls
<1> QED BY <1>2, <1>3, <1>4, <1>5, PushedOrdered

LEMMA OpenedOrdered ==
    ASSUME NEW m, Good(m), NEW n, Good(n), NEW cs \in Seq(Calls), Ordered(m, cs),
           NEW call \in {"list", "umap", "bstr"}, Opened(m, n),
           call # "bstr" => ListOpened(m, n)
    PROVE  Ordered(n, Append(cs, call))
<1>1. /\ OneMore(m, n)
      /\ Start(Top(n)) = Start(m.state) /\ MapOf(Top(n)) = MapOf(m.state)
      /\ Top(n).payload_end = m.state.payload_end
      /\ ~BackedUp(Top(n))
      /\ SmartSearch => Start(n.state) = FlagEnd(m.state)
      /\ n.state.payload_end <= m.state.payload_end
  BY DEF Opened
<1>2. FlagEnd(Top(n)) = FlagEnd(m.state) /\ FlagEnd(m.state) \in Int
  BY SameCursorFlags, GoodType, FlagEndType DEF Opened, Count
<1>3. call \in {"list", "umap"} => /\ MapOf(n.state) = Len(n.backup_list)
                                   /\ n.state.payload_end = m.state.payload_end
  BY DEF ListOpened
<1>4. call \in Calls /\ call \notin Marks /\ (call # "bstr" => call \in {"list", "umap"})
  BY DEF Marks, Calls
<1> QED BY <1>1, <1>2, <1>3, <1>4, PushedOrdered

\* The top backup is one of those in order.
LEMMA TopOrdered ==
    ASSUME NEW m, Good(m), NEW cs \in Seq(Calls), Ordered(m, cs), m.backup_list # << >>
    PROVE  /\ Len(cs) \in Nat \ {0} /\ Len(cs) \in 1 .. Len(cs) /\ Len(cs) - 1 \in Nat
           /\ Top(m) = m.backup_list[Len(cs)] /\ Top(m) \in Cursor
           /\ Over(m.backup_list, cs, Len(cs) - 1, Top(m))
           /\ BackedUp(Top(m)) <=> SmartSearch /\ cs[Len(cs)] \in Marks
           /\ \A i \in 1 .. Len(cs) : m.backup_list[i] \in Cursor
<1>1. Len(m.backup_list) = Len(cs) /\ Len(cs) \in Nat
      /\ \A i \in 1 .. Len(cs) : m.backup_list[i] \in Cursor
  BY OrderedType
<1>2. Len(cs) # 0
  BY <1>1, GoodType, EmptySeq
<1>3. Len(cs) \in 1 .. Len(cs)
  BY <1>1, <1>2
<1>4. Over(m.backup_list, cs, Len(cs) - 1, m.backup_list[Len(cs)])
      /\ (BackedUp(m.backup_list[Len(cs)]) <=> SmartSearch /\ cs[Len(cs)] \in Marks)
  BY <1>3 DEF Ordered
<1> QED BY <1>1, <1>2, <1>3, <1>4 DEF Top

LEMMA RetriedOrdered ==
    ASSUME NEW m, Good(m), NEW n, Good(n), NEW cs \in Seq(Calls), Ordered(m, cs),
           Retried(m, n), cs[Len(cs)] \in Marks
    PROVE  Ordered(n, cs)
<1> DEFINE k == Len(cs) - 1
<1>1. m.backup_list # << >> /\ n.backup_list = m.backup_list
  BY DEF Retried
<1>2. /\ k \in Nat /\ Len(cs) = k + 1
      /\ Top(m) = m.backup_list[k + 1] /\ Top(m) \in Cursor
      /\ Over(m.backup_list, cs, k, Top(m))
      /\ BackedUp(Top(m)) <=> SmartSearch
      /\ \A i \in 1 .. k + 1 : m.backup_list[i] \in Cursor
  BY <1>1, TopOrdered
<1>3. /\ MapOf(n.state) = MapOf(Top(m)) /\ n.state.payload_end = Top(m).payload_end
      /\ SmartSearch => Start(n.state) = FlagEnd(Top(m))
      /\ n.state \in Cursor
  BY <1>2, AlikeFields, GoodType DEF Retried
<1>4. FlagEnd(Top(m)) \in Int /\ Top(m).payload_end \in Int
  BY <1>2, FlagEndType, CountType
<1>5. cs[k + 1] \in Marks /\ cs[k + 1] \notin {"list", "umap"}
  BY <1>2 DEF Marks
<1> HIDE DEF k
<1>6. Over(m.backup_list, cs, k + 1, n.state)
  <2>1. /\ Over(m.backup_list, cs, k, m.backup_list[k + 1])
        /\ m.backup_list[k + 1] \in Cursor
        /\ MapOf(n.state) = MapOf(m.backup_list[k + 1])
        /\ n.state.payload_end = m.backup_list[k + 1].payload_end
        /\ n.state.payload_end <= m.backup_list[k + 1].payload_end
        /\ SmartSearch => FlagEnd(m.backup_list[k + 1]) <= Start(n.state)
    BY <1>2, <1>3, <1>4
  <2> QED BY <1>2, <1>3, <1>5, <2>1, OverNext
<1> QED BY <1>1, <1>2, <1>6, StateOrdered

LEMMA RolledBackOrdered ==
    ASSUME NEW m, Good(m), NEW n, Good(n), NEW cs \in Seq(Calls), Ordered(m, cs),
           RolledBack(m, n)
    PROVE  Ordered(n, SubSeq(cs, 1, Len(cs) - 1))
BY TopOrdered, PoppedOrdered DEF RolledBack, OneLess

LEMMA CommittedOrdered ==
    ASSUME NEW m, Good(m), NEW n, Good(n), NEW cs \in Seq(Calls), Ordered(m, cs),
           Committed(m, n), cs[Len(cs)] \in Marks
    PROVE  Ordered(n, SubSeq(cs, 1, Len(cs) - 1))
<1> DEFINE k == Len(cs) - 1
<1>1. m.backup_list # << >> /\ OneLess(m, n)
  BY DEF Committed, OneLess
<1>2. /\ k \in Nat /\ Len(cs) = k + 1
      /\ Top(m) = m.backup_list[k + 1] /\ Top(m) \in Cursor
      /\ Over(m.backup_list, cs, k, Top(m))
      /\ BackedUp(Top(m)) <=> SmartSearch
      /\ \A i \in 1 .. k + 1 : m.backup_list[i] \in Cursor
  BY <1>1, TopOrdered
<1>3. Over(m.backup_list, cs, k + 1, m.state)
      /\ m.state \in Cursor /\ n.state \in Cursor
  BY <1>2, GoodType DEF Ordered, Over
<1>4. /\ MapOf(n.state) = MapOf(m.state) /\ n.state.payload_end = m.state.payload_end
      /\ SmartSearch => Start(n.state) = Start(Top(m))
  BY <1>2, <1>3, AlikeFields DEF Committed
<1>5. Start(Top(m)) \in Int
  BY <1>2, FlagEndType
<1> HIDE DEF k
<1>6. Over(m.backup_list, cs, k, n.state)
  <2>1. /\ Over(m.backup_list, cs, k, m.backup_list[k + 1])
        /\ cs[k + 1] \in Marks
        /\ SmartSearch => Start(m.backup_list[k + 1]) <= Start(n.state)
    BY <1>2, <1>4, <1>5
  <2> QED BY <1>2, <1>3, <1>4, <2>1, OverDown
<1> QED BY <1>1, <1>6, PoppedOrdered DEF k

LEMMA ClosedOrdered ==
    ASSUME NEW m, Good(m), NEW n, Good(n), NEW cs \in Seq(Calls), Ordered(m, cs),
           Closed(m, n)
    PROVE  Ordered(n, SubSeq(cs, 1, Len(cs) - 1))
<1> DEFINE k == Len(cs) - 1
<1>1. m.backup_list # << >> /\ OneLess(m, n)
  BY DEF Closed, OneLess
<1>2. /\ k \in Nat /\ Len(cs) = k + 1 /\ Len(cs) \in 1 .. Len(cs)
      /\ Top(m) = m.backup_list[k + 1] /\ Top(m) \in Cursor
      /\ Over(m.backup_list, cs, k, Top(m))
      /\ \A i \in 1 .. k + 1 : m.backup_list[i] \in Cursor
  BY <1>1, TopOrdered
<1>3. m.state.payload_end <= Top(m).payload_end /\ n.state \in Cursor
  BY <1>2, GoodType DEF Ordered, Over
<1>4. /\ MapOf(n.state) = MapOf(Top(m)) /\ Start(n.state) = Start(Top(m))
      /\ n.state.payload_end = Top(m).payload_end
  BY <1>3 DEF Closed, MapOf, Start
<1>5. Start(Top(m)) \in Int /\ \A i \in 1 .. k : i \in 1 .. k + 1
  BY <1>2, FlagEndType
<1>6. \A i \in 1 .. k : m.backup_list[i] \in Cursor
  BY <1>2, <1>5
<1> HIDE DEF k
<1>7. Over(m.backup_list, cs, k, n.state)
  BY <1>2, <1>3, <1>4, <1>5, <1>6, OverAlike
<1> QED BY <1>1, <1>7, PoppedOrdered DEF k

LEMMA MovedOrdered ==
    ASSUME NEW m, Good(m), NEW n, Good(n), NEW cs \in Seq(Calls), Ordered(m, cs),
           Moved(m, n)
    PROVE  Ordered(n, cs)
<1>1. /\ Len(m.backup_list) = Len(cs) /\ Len(n.backup_list) = Len(cs) /\ Len(cs) \in Nat
      /\ \A i \in 1 .. Len(cs) : AtStart(m.backup_list[i], n.backup_list[i])
      /\ AtStart(m.state, n.state)
  BY OrderedType DEF Moved
<1>2. ASSUME NEW k \in 0 .. Len(cs), NEW c, NEW d, AtStart(c, d),
             Over(m.backup_list, cs, k, c)
      PROVE  Over(n.backup_list, cs, k, d)
  <2>1. \A i \in 1 .. k : i \in 1 .. Len(cs)
    BY <1>1
  <2>2. \A i \in 1 .. k : FlagEnd(n.backup_list[i]) = FlagEnd(m.backup_list[i])
    <3>1. ASSUME NEW i \in 1 .. k
          PROVE  n.backup_list[i].decode_state = m.backup_list[i].decode_state
      BY <1>1, <2>1 DEF AtStart
    <3> QED BY <3>1 DEF FlagEnd, FlagLen
  <2>3. Start(d) = Start(c) /\ MapOf(d) = MapOf(c) /\ d.payload_end = PayloadLen
    BY <1>2, PayloadAssumption DEF AtStart, Start, MapOf
  <2>4. \A i \in 1 .. k : n.backup_list[i].payload_end = PayloadLen
    BY <1>1, <2>1 DEF AtStart
  <2>5. SmartSearch => \A i \in 1 .. k : FlagEnd(n.backup_list[i]) <= Start(d)
    BY <1>2, <2>2, <2>3 DEF Over
  <2> QED BY <1>2, <2>3, <2>4, <2>5, PayloadAssumption DEF Over
<1>3. Over(n.backup_list, cs, Len(cs), n.state)
  BY <1>1, <1>2 DEF Ordered
<1>4. ASSUME NEW k \in 1 .. Len(cs)
      PROVE  /\ Over(n.backup_list, cs, k - 1, n.backup_list[k])
             /\ BackedUp(n.backup_list[k]) <=> SmartSearch /\ cs[k] \in Marks
  <2>1. k - 1 \in 0 .. Len(cs)
    BY <1>1
  <2>2. /\ Over(m.backup_list, cs, k - 1, m.backup_list[k])
        /\ BackedUp(m.backup_list[k]) <=> SmartSearch /\ cs[k] \in Marks
    BY DEF Ordered
  <2>3. BackedUp(n.backup_list[k]) = BackedUp(m.backup_list[k])
    BY <1>1 DEF AtStart, BackedUp
  <2> QED BY <1>1, <1>2, <2>1, <2>2, <2>3
<1> QED BY <1>1, <1>3, <1>4 DEF Ordered

LEMMA StartOrdered ==
    ASSUME NEW n, n.backup_list = << >>
    PROVE  Ordered(n, << >>)
BY DEF Ordered, Over

-----------------------------------------------------------------------------
(* What a step may do to the backups and the calls.                        *)

Returned == SubSeq(calls, 1, Len(calls) - 1)

\* Work with the backups as they are.  Where they no longer belong to the calls
\* a search may go back to whatever it takes for the start of its map.
ListKept(n) ==
    /\ n.backup_list = zs.backup_list
    /\ Within(zs.state) => Within(n.state)
    /\ ~Orphaned => Worked(zs, n)

Working == calls' = calls /\ ListKept(zs')

Marking ==
    \E call \in Marks :
        /\ calls' = Append(calls, call)
        /\ StateSaved(zs, zs', SmartSearch)
        /\ GoesOn(zs, zs', zs.state.elem_count, SmartSearch)

Opening ==
    \E call \in {"list", "umap", "bstr"} :
        /\ calls' = Append(calls, call)
        /\ Opened(zs, zs')
        /\ call # "bstr" => ListOpened(zs, zs')

Retrying == calls' = calls /\ calls[Len(calls)] \in Marks /\ Retried(zs, zs')

RollingBack ==
    calls # << >> /\ calls' = Returned /\ calls[Len(calls)] \in Marks /\ RolledBack(zs, zs')

Committing ==
    calls # << >> /\ calls' = Returned /\ calls[Len(calls)] \in Marks /\ Committed(zs, zs')

Closing ==
    /\ calls # << >> /\ calls' = Returned /\ calls[Len(calls)] \notin Marks
    /\ Closed(zs, zs')

Moving == calls' = calls /\ Moved(zs, zs')

\* A call fails and leaves its backup behind, when it starts or when it ends.
Stranding ==
    \/ calls' = calls /\ Spilled(zs, zs')
    \/ calls # << >> /\ calls' = Returned /\ ListKept(zs')

Staying == \/ Working \/ Marking \/ Opening \/ Retrying \/ RollingBack
           \/ Committing \/ Closing \/ Stranding

Effect == Staying \/ Moving

\* There is a backup for each call, or more; a search runs in an unordered map;
\* and the backups are in order.
Paired  == Len(calls) <= Len(zs.backup_list)
Searching == search # << >> => ~failing /\ InUnorderedMap
InOrder == ~Orphaned => Ordered(zs, calls)
OInv    == IInv /\ Paired /\ Searching /\ InOrder

LEMMA WorkedListKept ==
    ASSUME NEW n, Worked(zs, n)
    PROVE  ListKept(n)
BY DEF ListKept, Worked, Kept, KeptBelow

LEMMA ListKeptThrough ==
    ASSUME IInv, NEW k, Good(k), ListKept(k), NEW n, Good(n), Worked(k, n)
    PROVE  ListKept(n)
<1>1. Good(zs)
  BY DEF IInv
<1>2. n.backup_list = k.backup_list /\ (Within(k.state) => Within(n.state))
  BY DEF Worked, Kept, KeptBelow
<1>3. ~Orphaned => Worked(zs, n)
  BY <1>1, WorkedThrough DEF ListKept
<1> QED BY <1>2, <1>3 DEF ListKept

\* An entry that succeeds opens or marks; one that fails does nothing, or strands
\* its backup.
LEMMA EnterOpens ==
    ASSUME IInv, NEW call \in {"list", "umap", "bstr"}, NEW r, Enter(call, r),
           r.ok => Opened(zs, r.m) /\ (call # "bstr" => ListOpened(zs, r.m)),
           ~r.ok => Worked(zs, r.m) \/ Spilled(zs, r.m)
    PROVE  Opening \/ Working \/ Stranding
<1>1. CASE r.ok
  BY <1>1 DEF Enter, Return, Opening
<1>2. CASE ~r.ok
  BY <1>2, WorkedListKept DEF Enter, Return, Working, Stranding
<1> QED BY <1>1, <1>2

LEMMA EnterMarks ==
    ASSUME IInv, NEW call \in Marks,
           Enter(call, zcbor_new_backup_w_elem_state(zs, zs.state.elem_count, TRUE))
    PROVE  Marking \/ Working
<1> DEFINE r == zcbor_new_backup_w_elem_state(zs, zs.state.elem_count, TRUE)
<1>1. Good(zs) /\ zs.state.elem_count \in 0 .. SIZE_MAX /\ (SmartSearch /\ TRUE) = SmartSearch
  BY GoodType, ModeAssumption DEF IInv, Cursor
<1>2. /\ r.ok => /\ StateSaved(zs, r.m, SmartSearch)
                 /\ GoesOn(zs, r.m, zs.state.elem_count, SmartSearch)
      /\ ~r.ok => \E err \in Errors : r.m \in {zs, zcbor_error(zs, err)}
  BY <1>1, NewBackupSaves
<1> HIDE DEF r
<1>3. CASE r.ok
  BY <1>2, <1>3 DEF Enter, Return, Marking, r
<1>4. CASE ~r.ok
  <2>1. Worked(zs, r.m)
    BY <1>1, <1>2, <1>4, RefusedWorks
  <2>2. zs' = r.m /\ calls' = calls
    BY <1>4 DEF Enter, Return, r
  <2> QED BY <2>1, <2>2, WorkedListKept DEF Working
<1> QED BY <1>3, <1>4

LEMMA LeaveCloses ==
    ASSUME IInv, NEW call \in {"list", "umap", "bstr"}, NEW r, Leave(call, r),
           Closed(zs, r.m) \/ Worked(zs, r.m)
    PROVE  Closing \/ Stranding
<1>1. calls # << >> /\ calls' = Returned /\ zs' = r.m /\ calls[Len(calls)] \notin Marks
  BY DEF Leave, In, Returned, Marks
<1> QED BY <1>1, WorkedListKept DEF Closing, Stranding

LEMMA ValueEffects ==
    ASSUME IInv
    PROVE  (Decode \/ AnySkip => Staying) /\ (MovePayload => Moving)
<1>1. Good(zs)
  BY DEF IInv
<1>2. ASSUME Decode PROVE Staying
  <2>1. PICK h \in Headers :
          /\ Return(IF type_check(zs, h, PINT).ok THEN value_extract(zs, h, 8, FALSE)
                                                  ELSE type_check(zs, h, PINT))
          /\ UNCHANGED calls
    BY <1>2 DEF Decode
  <2>2. Worked(zs, type_check(zs, h, PINT).m) /\ Worked(zs, value_extract(zs, h, 8, FALSE).m)
    BY <1>1, HeadersType, TypeCheckWorks, ValueExtractWorks
  <2>3. Worked(zs, zs')
    BY <2>1, <2>2 DEF Return
  <2> QED BY <2>1, <2>3, WorkedListKept DEF Staying, Working
<1>3. ASSUME MovePayload PROVE Moving
  <2>1. zs' = zcbor_update_state(zs, PayloadLen) /\ calls' = calls
    BY <1>3 DEF MovePayload, Return, Success
  <2> QED BY <1>1, <2>1, UpdateStateMoves DEF Moving
<1>4. ASSUME AnySkip PROVE Staying
  <2>1. PICK taken \in SkipResults(zs.state) :
          zs' = any_skip(zs, taken).m /\ calls' = calls
    BY <1>4 DEF AnySkip, Return
  <2>2. Worked(zs, zs')
    BY <1>1, <2>1, SkipsType, AnySkipWorks
  <2> QED BY <2>1, <2>2, WorkedListKept DEF Staying, Working
<1> QED BY <1>2, <1>3, <1>4

LEMMA StartEffects ==
    ASSUME IInv
    PROVE  ListStart \/ MapStart \/ UnorderedMapStart \/ BstrStart \/ UnionStart
             \/ IterationStart => Staying
<1>1. Good(zs)
  BY DEF IInv
<1>2. ASSUME NEW h \in Headers
      PROVE  /\ LET r == zcbor_list_start_decode(zs, h) IN
                /\ r.ok => ListOpened(zs, r.m)
                /\ ~r.ok => Worked(zs, r.m)
             /\ LET r == zcbor_map_start_decode(zs, h) IN
                /\ r.ok => ListOpened(zs, r.m)
                /\ ~r.ok => Worked(zs, r.m) \/ Spilled(zs, r.m)
             /\ LET r == zcbor_unordered_map_start_decode(zs, h) IN
                /\ r.ok => ListOpened(zs, r.m)
                /\ ~r.ok => Worked(zs, r.m) \/ Spilled(zs, r.m)
             /\ LET r == zcbor_bstr_start_decode(zs, h) IN
                /\ r.ok => Opened(zs, r.m)
                /\ ~r.ok => Worked(zs, r.m)
  <2>1. h \in HeaderSet
    BY HeadersType
  <2> QED BY <1>1, <2>1, ListMapStartOpens, MapStartOpens, UnorderedMapStartOpens,
             BstrStartOpens DEF zcbor_list_start_decode
<1>3. ASSUME NEW m, NEW n, ListOpened(m, n) PROVE Opened(m, n)
  BY <1>3 DEF ListOpened
<1>4. ListStart => Staying
  BY <1>2, <1>3, EnterOpens DEF ListStart, Staying
<1>5. MapStart => Staying
  BY <1>2, <1>3, EnterOpens DEF MapStart, Staying
<1>6. UnorderedMapStart => Staying
  BY <1>2, <1>3, EnterOpens DEF UnorderedMapStart, Staying
<1>7. BstrStart => Staying
  BY <1>2, EnterOpens DEF BstrStart, Staying
<1>8. UnionStart \/ IterationStart => Staying
  BY EnterMarks DEF UnionStart, IterationStart, zcbor_union_start_code, Staying, Marks
<1> QED BY <1>4, <1>5, <1>6, <1>7, <1>8

LEMMA EndEffects ==
    ASSUME IInv
    PROVE  ListEnd \/ UnorderedMapEnd \/ ListForceEnd \/ BstrEnd => Staying
<1>1. Good(zs)
  BY DEF IInv
<1>2. ASSUME ListEnd PROVE Staying
  <2>1. PICK at_break \in BOOLEAN : Leave("list", list_map_end_decode(zs, at_break))
    BY <1>2 DEF ListEnd
  <2> QED BY <1>1, <2>1, ListMapEndCloses, LeaveCloses DEF Staying
<1>3. ASSUME UnorderedMapEnd PROVE Staying
  <2>1. PICK at_break \in BOOLEAN :
          LET c == EndChecks(zs, at_break)
              loops == c.ok /\ ~zcbor_array_at_end(zs.state, at_break)
          IN  \E rest \in IF loops THEN Rests(c.m) ELSE {Skipped(zs.state.payload)} :
                Leave("umap", zcbor_unordered_map_end_decode(zs, at_break, rest))
    BY <1>3 DEF UnorderedMapEnd
  <2> DEFINE c == EndChecks(zs, at_break)
  <2>2. Good(c.m) /\ c.m.state = zs.state
    BY <1>1, EndChecksGood DEF GoodResult
  <2>3. PICK rest \in Rests(c.m) \cup {Skipped(c.m.state.payload)} :
          Leave("umap", zcbor_unordered_map_end_decode(zs, at_break, rest))
    BY <2>1, <2>2
  <2> HIDE DEF c
  <2>4. rest \in Skips
    BY <2>2, RestsType
  <2> QED BY <1>1, <2>3, <2>4, UnorderedMapEndCloses, LeaveCloses DEF Staying
<1>4. ASSUME ListForceEnd PROVE Staying
  <2>1. PICK call \in {"list", "umap"} : Leave(call, zcbor_list_map_end_force_decode(zs))
    BY <1>4 DEF ListForceEnd
  <2>2. LET r == zcbor_list_map_end_force_decode(zs) IN Closed(zs, r.m) \/ Worked(zs, r.m)
    BY <1>1, Closes DEF zcbor_list_map_end_force_decode
  <2> QED BY <2>1, <2>2, LeaveCloses DEF Staying
<1>5. ASSUME BstrEnd PROVE Staying
  BY <1>1, <1>5, BstrEndCloses, LeaveCloses DEF BstrEnd, Staying
<1> QED BY <1>2, <1>3, <1>4, <1>5

LEMMA UnionEffects ==
    ASSUME IInv
    PROVE  UnionElem \/ UnionEnd \/ IterationOk \/ IterationFails => Staying
<1>1. Good(zs) /\ {"union", "multi"} \subseteq Marks
  BY DEF IInv, Marks
<1>2. ASSUME UnionElem PROVE Staying
  <2>1. /\ zs' = zcbor_union_elem_code(zs).m /\ calls' = calls
        /\ calls[Len(calls)] \in Marks
    BY <1>1, <1>2 DEF UnionElem, Return, In
  <2>2. Retried(zs, zs') \/ Worked(zs, zs')
    BY <1>1, <2>1, UnionElemRetries
  <2> QED BY <2>1, <2>2, WorkedListKept DEF Staying, Retrying, Working
<1>3. ASSUME NEW call \in Marks, Leave(call, zcbor_process_backup(zs, {"CONSUME"}))
      PROVE  Staying
  <2>1. /\ zs' = zcbor_process_backup(zs, {"CONSUME"}).m
        /\ calls # << >> /\ calls' = Returned /\ calls[Len(calls)] \in Marks
    BY <1>3 DEF Leave, In, Returned
  <2>2. Committed(zs, zs') \/ Worked(zs, zs')
    BY <1>1, <2>1, Commits
  <2> QED BY <2>1, <2>2, WorkedListKept DEF Staying, Committing, Stranding
<1>4. UnionEnd \/ IterationOk => Staying
  BY <1>1, <1>3 DEF UnionEnd, IterationOk, zcbor_union_end_code
<1>5. ASSUME IterationFails PROVE Staying
  <2>1. /\ zs' = zcbor_process_backup(zs, {"CONSUME", "RESTORE"}).m
        /\ calls # << >> /\ calls' = Returned /\ calls[Len(calls)] \in Marks
    BY <1>1, <1>5 DEF IterationFails, Leave, In, Returned
  <2>2. RolledBack(zs, zs') \/ Worked(zs, zs')
    BY <1>1, <2>1, RollsBack
  <2> QED BY <2>1, <2>2, WorkedListKept DEF Staying, RollingBack, Stranding
<1> QED BY <1>2, <1>4, <1>5

-----------------------------------------------------------------------------
(* What the steps of a search do.                                          *)

\* Whatever backup a search restarts from, the list and the map stay.
LEMMA PlaceKept ==
    ASSUME NEW m, Good(m), NEW num \in Nat
    PROVE  LET r == zcbor_process_backup_num(m, {"RESTORE", "KEEP_DECODE_STATE"}, num) IN
           r.m.backup_list = m.backup_list /\ r.m.state.decode_state = m.state.decode_state
<1> DEFINE flags == {"RESTORE", "KEEP_DECODE_STATE"}
           backup == m.backup_list[num]
           consume == "CONSUME" \in flags
           r == RestoreFrom(m, backup, consume)
           p == [r.m EXCEPT !.state.decode_state = m.state.decode_state]
           result == zcbor_process_backup_num(m, flags, num)
           Right(x) == /\ x.m.backup_list = m.backup_list
                       /\ x.m.state.decode_state = m.state.decode_state
<1>1. {"BAD_ARG", "PAYLOAD_OUTDATED"} \subseteq Errors
  BY DEF Errors
<1>2. m.state.decode_state \in DecodeState /\ Len(m.backup_list) \in Nat
  BY GoodType
<1>3. /\ "RESTORE" \in flags /\ "CONSUME" \notin flags /\ "KEEP_PAYLOAD" \notin flags
      /\ "KEEP_DECODE_STATE" \in flags
  OBVIOUS
<1>4. Right(Failure(m)) /\ \A err \in Errors : Right(Err(m, err))
  BY ErrGood, ResultGood
<1>5. ASSUME num \in 1 .. Len(m.backup_list) PROVE Right(Success(p)) /\ r.ok = TRUE
  <2>1. r.ok = TRUE /\ r.m \in Machine /\ r.m.backup_list = m.backup_list
    <3>1. consume \in BOOLEAN
      OBVIOUS
    <3> HIDE DEF consume
    <3> QED BY <1>5, <3>1, RestoreFromType
  <2> HIDE DEF r
  <2>2. p.backup_list = m.backup_list /\ p.state.decode_state = m.state.decode_state
    BY <1>2, <2>1 DEF Machine, Cursor
  <2>3. Success(p).m = p
    BY DEF Success
  <2> HIDE DEF p
  <2> QED BY <2>1, <2>2, <2>3
<1> HIDE DEF flags, Right, p, consume
<1>6. CASE ~zcbor_check_error(m)
  BY <1>4, <1>6 DEF zcbor_process_backup_num, flags, Right
<1>7. CASE zcbor_check_error(m) /\ (num = 0 \/ num > Len(m.backup_list))
  BY <1>1, <1>4, <1>7 DEF zcbor_process_backup_num, flags, Right
<1>8. CASE zcbor_check_error(m) /\ ~(num = 0 \/ num > Len(m.backup_list))
  <2>1. num \in 1 .. Len(m.backup_list)
    BY <1>2, <1>8
  <2>2. result \in {Err(m, "PAYLOAD_OUTDATED"), Success(p)}
    BY <1>3, <1>5, <1>8, <2>1 DEF zcbor_process_backup_num, p, consume
  <2> QED BY <1>1, <1>4, <1>5, <2>1, <2>2 DEF flags, Right
<1> QED BY <1>6, <1>7, <1>8

LEMMA MapRestartKept ==
    ASSUME NEW m, Good(m)
    PROVE  LET r == handle_map_end(m) IN
           /\ r.m.backup_list = m.backup_list
           /\ Within(m.state) => Within(r.m.state)
<1> DEFINE num == m.state.decode_state.map_start_backup_num
           k == [m EXCEPT !.state.decode_state.counting_map_elems = FALSE]
           q == zcbor_process_backup_num(k, {"RESTORE", "KEEP_DECODE_STATE"}, num)
           n == [q.m EXCEPT !.state.elem_count = zcbor_current_max_elem_count(q.m.state)]
           R == handle_map_end(m)
<1>1. m \in Machine /\ num \in Nat
  BY GoodType, BackupAssumption DEF DecodeState
<1>2. /\ k \in Machine /\ k.backup_list = m.backup_list
      /\ Start(k.state) = Start(m.state)
      /\ k.state.decode_state.map_start_backup_num = num
      /\ Count(k.state) = Count(m.state) /\ Processed(k.state) = Processed(m.state)
  BY <1>1 DEF Machine, Cursor, DecodeState, Start, Count, Processed
<1>3. R = AllElements(q)
  BY <1>2 DEF handle_map_end, map_restart
<1> HIDE DEF k, num
<1>4. Good(k)
  BY <1>2, SameFlags DEF Count
<1>5. /\ q.m.backup_list = m.backup_list
      /\ q.m.state.decode_state = k.state.decode_state
      /\ q.m \in Machine
  <2>1. GoodResult(q)
    BY <1>1, <1>4, PlaceRestored
  <2> QED BY <1>1, <1>2, <1>4, <2>1, PlaceKept, GoodType DEF GoodResult
<1> HIDE DEF q
<1>6. n.backup_list = m.backup_list /\ n.state.decode_state = k.state.decode_state
  BY <1>5 DEF Machine, Cursor
<1>7. R.m \in {q.m, n}
  BY <1>3 DEF AllElements, Success
<1> HIDE DEF n, R
<1>8. R.m.backup_list = m.backup_list /\ R.m.state.decode_state = k.state.decode_state
  BY <1>5, <1>6, <1>7
<1>9. Within(m.state) => Within(R.m.state)
  BY <1>2, <1>8 DEF Within, Count, Processed
<1> QED BY <1>8, <1>9 DEF R

\* Where the backups are in order the map knows its own, which is in the section
\* the search is in, so the restart stays within the map.
LEMMA RestartListKept ==
    ASSUME OInv, search # << >>
    PROVE  ListKept(handle_map_end(zs).m)
<1> DEFINE r == handle_map_end(zs)
           list == zs.backup_list
<1>1. Good(zs) /\ r.m.backup_list = list /\ (Within(zs.state) => Within(r.m.state))
  BY MapRestartKept DEF OInv, IInv
<1>2. ASSUME ~Orphaned PROVE Worked(zs, r.m)
  <2>1. Ordered(zs, calls) /\ Over(list, calls, Len(calls), zs.state)
    BY <1>2 DEF OInv, InOrder, Ordered
  <2>2. /\ Len(list) = Len(calls) /\ Len(calls) \in Nat
    BY <1>1, <2>1, OrderedType DEF OInv, IInv
  <2>3. PICK i \in 1 .. Len(calls) :
          calls[i] = "umap" /\ \A j \in i + 1 .. Len(calls) : calls[j] \in {"union", "multi"}
    BY DEF OInv, Searching, InUnorderedMap
  <2>4. MapOf(zs.state) = i
    BY <2>1, <2>3 DEF Over, Marks
  <2>5. zs.state.payload_end = list[i].payload_end
    <3>1. \A j \in i .. Len(calls) : j = i \/ j \in i + 1 .. Len(calls)
      BY <2>2
    <3>2. \A j \in i .. Len(calls) : calls[j] # "bstr"
      BY <2>3, <3>1
    <3> QED BY <2>1, <3>2 DEF Over
  <2>6. ~BackedUp(list[i])
    <3>1. BackedUp(list[i]) <=> SmartSearch /\ calls[i] \in Marks
      BY <2>1 DEF Ordered
    <3> QED BY <2>3, <3>1 DEF Marks
  <2>7. /\ Kept(zs, r.m)
        /\ r.ok => r.m.state.payload = list[i].payload
                   /\ r.m.state.payload_end = list[i].payload_end
        /\ ~r.ok => Worked(zs, r.m)
    BY <1>1, <2>2, <2>4, <2>6, MapRestartKeeps
  <2> HIDE DEF r
  <2>8. CASE r.ok
    BY <2>5, <2>6, <2>7, <2>8 DEF Worked, SameSection
  <2> QED BY <2>7, <2>8
<1> QED BY <1>1, <1>2 DEF ListKept

\* An undone search leaves the backups and the section.
LEMMA UndoneListKept ==
    ASSUME OInv, search # << >>, NEW m, Good(m), ListKept(m)
    PROVE  ListKept(BackToStart(m).m)
<1> DEFINE r == BackToStart(m)
<1>1. Kept(m, r.m) /\ r.m.state.payload_end = m.state.payload_end
  BY BackToStartKeeps DEF OInv
<1>2. Good(zs) /\ Good(r.m)
  BY BackToStartGood DEF OInv, IInv, GoodResult
<1> HIDE DEF r
<1>3. r.m.backup_list = zs.backup_list /\ (Within(zs.state) => Within(r.m.state))
  BY <1>1 DEF Kept, KeptBelow, ListKept
<1>4. ASSUME ~Orphaned PROVE Worked(zs, r.m)
  <2>1. Worked(zs, m)
    BY <1>4 DEF ListKept
  <2>2. Kept(zs, r.m)
    BY <1>1, <1>2, <2>1, KeptThrough DEF Worked
  <2> QED BY <1>1, <2>1, <2>2 DEF Worked, SameSection
<1> QED BY <1>3, <1>4 DEF ListKept, r

LEMMA ErrorListKept ==
    ASSUME IInv, NEW m, Good(m), ListKept(m), NEW err \in Errors
    PROVE  ListKept(zcbor_error(m, err)) /\ Good(zcbor_error(m, err))
BY ErrorGood, ErrorWorks, ListKeptThrough

\* The search goes on where it was, or ends.
Searched == Working /\ (search' # << >> => search' = search /\ failing' = failing)

LEMMA ReturnSearched ==
    ASSUME NEW r, ListKept(r.m), SearchReturns(r), UNCHANGED calls
    PROVE  Searched
BY DEF SearchReturns, Searched, Working

LEMMA GoesOnSearched ==
    ASSUME OInv, search # << >>, NEW m, Good(m), ListKept(m), SearchGoesOn(m),
           UNCHANGED calls
    PROVE  Searched
<1> DEFINE r == BackToStart(zcbor_error(m, "ELEM_NOT_FOUND"))
<1>1. CASE m.state.elem_count = search[1].elem_count
  <2>1. "ELEM_NOT_FOUND" \in Errors /\ IInv
    BY DEF Errors, OInv
  <2>2. ListKept(r.m)
    BY <2>1, ErrorListKept, UndoneListKept
  <2>3. SearchReturns(r)
    BY <1>1 DEF SearchGoesOn
  <2> HIDE DEF r
  <2> QED BY <2>2, <2>3, ReturnSearched
<1>2. CASE m.state.elem_count # search[1].elem_count
  BY <1>2 DEF SearchGoesOn, Searched, Working
<1> QED BY <1>1, <1>2

\* A key decoder reads its key.
LEMMA KeyReadWorks ==
    ASSUME NEW m, Good(m),
           m.state.elem_count > 0, m.state.payload < m.state.payload_end
    PROVE  Worked(m, [m EXCEPT !.state.payload_bak = m.state.payload,
                               !.state.payload = @ + 1, !.state.elem_count = @ - 1])
<1> DEFINE k == [m EXCEPT !.state.payload_bak = m.state.payload,
                          !.state.payload = @ + 1, !.state.elem_count = @ - 1]
<1>1. Good(k) /\ m \in Machine
  BY KeyReadGood, GoodType
<1>2. /\ k.backup_list = m.backup_list /\ k.mem = m.mem
      /\ k.state.decode_state = m.state.decode_state
      /\ k.state.payload_end = m.state.payload_end
  BY <1>1 DEF Machine, Cursor
<1> HIDE DEF k
<1>3. Kept(m, k)
  BY <1>1, <1>2, CursorMoves DEF Start, MapOf, Count, Processed
<1> QED BY <1>2, <1>3 DEF Worked, SameSection, k

\* It finds another key.
LEMMA KeysRefusedWorks ==
    ASSUME NEW m, Good(m), NEW n \in KeysRefused(m)
    PROVE  Worked(m, n)
<1> DEFINE e == zcbor_error(m, "WRONG_VALUE")
           k == [e EXCEPT !.state.payload_bak = m.state.payload]
<1>1. "WRONG_TYPE" \in Errors /\ "WRONG_VALUE" \in Errors
  BY DEF Errors
<1>2. Good(e) /\ Worked(m, e) /\ Worked(m, zcbor_error(m, "WRONG_TYPE"))
  BY <1>1, ErrorGood, ErrorWorks
<1>3. Worked(m, initial_checks(m).m)
  <2>1. "NO_PAYLOAD" \in Errors
    BY DEF Errors
  <2> QED BY <2>1, ErrWorks, ResultWorks, WorkedSelf DEF initial_checks, Failure, Success
<1>4. ASSUME n = k PROVE Worked(m, n)
  <2>1. Good(k)
    BY <1>4, KeysRefusedGood
  <2> HIDE DEF e
  <2>2. e \in Machine
    BY <1>2, GoodType
  <2>3. /\ k.backup_list = e.backup_list /\ k.mem = e.mem
        /\ k.state.decode_state = e.state.decode_state
        /\ k.state.payload_end = e.state.payload_end
    BY <2>2 DEF Machine, Cursor
  <2> HIDE DEF k
  <2>4. Worked(e, k)
    BY <1>2, <2>1, <2>3, CursorMoves DEF Start, MapOf, Count, Processed, Worked, SameSection
  <2> QED BY <1>2, <1>4, <2>1, <2>4, WorkedThrough
<1> QED BY <1>2, <1>3, <1>4 DEF KeysRefused

LEMMA SearchFlagsWorks == ASSUME IInv PROVE Worked(zs, SearchFlags.m)
<1>1. Good(zs) /\ zs.state.elem_count \in Int
  BY GoodType DEF IInv, Cursor
<1>2. SizeT(ZCBOR_LARGE_ELEM_COUNT - zs.state.elem_count + 2) \in 0 .. SIZE_MAX
  <2>1. ZCBOR_LARGE_ELEM_COUNT - zs.state.elem_count + 2 \in Int
    BY <1>1, SizeAssumption DEF ZCBOR_LARGE_ELEM_COUNT
  <2> QED BY <2>1, SizeTType
<1> QED BY <1>1, <1>2, GrowMapWorks, ResultWorks DEF SearchFlags

LEMMA SearchEffects ==
    ASSUME OInv
    PROVE  /\ SearchRestarts \/ SearchFinds \/ SearchSkips => Searched
           /\ ElemProcessed => Working
           /\ SearchStart =>
                /\ Working
                /\ search' # << >> => InUnorderedMap /\ ~failing'
<1> DEFINE g == SearchFlags
           t == should_try_key(g.m)
<1>1. IInv /\ Good(zs)
  BY DEF OInv, IInv
<1>2. /\ Good(g.m) /\ Good(t.m)
      /\ Worked(zs, g.m) /\ ListKept(g.m) /\ ListKept(t.m)
  <2>1. Good(g.m) /\ Worked(zs, g.m)
    BY <1>1, SearchFlagsGood, SearchFlagsWorks DEF GoodResult
  <2>2. Good(t.m) /\ Worked(g.m, t.m)
    BY <2>1, ShouldTryKeyGood, ShouldTryKeyWorks DEF GoodResult
  <2>3. ListKept(g.m)
    BY <2>1, WorkedListKept
  <2> HIDE DEF g, t
  <2> QED BY <1>1, <2>1, <2>2, <2>3, ListKeptThrough
<1>3. "MAP_MISALIGNED" \in Errors
  BY DEF Errors
<1>4. ASSUME SearchStart
      PROVE  /\ Working
             /\ search' # << >> => InUnorderedMap /\ ~failing'
  <2>1. /\ calls' = calls /\ InUnorderedMap
        /\ \/ zs' = Err(zs, "MAP_MISALIGNED").m /\ search' = << >>
           \/ zs' = zs /\ ~failing'
    BY <1>4 DEF SearchStart, Return, Decoding
  <2>2. Worked(zs, zs')
    BY <1>1, <1>3, <2>1, ErrWorks, WorkedSelf
  <2> QED BY <2>1, <2>2, WorkedListKept DEF Working
<1>5. ASSUME SearchRestarts PROVE Searched
  <2> DEFINE r == handle_map_end(zs)
  <2>1. search # << >> /\ UNCHANGED calls
    BY <1>5 DEF SearchRestarts
  <2>2. Good(r.m) /\ ListKept(r.m)
    BY <1>1, <2>1, MapRestartGood, RestartListKept DEF GoodResult
  <2>3. CASE r.ok
    <3>1. SearchGoesOn(r.m)
      BY <1>5, <2>3 DEF SearchRestarts
    <3> HIDE DEF r
    <3> QED BY <2>1, <2>2, <3>1, GoesOnSearched
  <2>4. CASE ~r.ok
    <3>1. SearchReturns(BackToStart(r.m))
      BY <1>5, <2>4 DEF SearchRestarts
    <3> HIDE DEF r
    <3>2. ListKept(BackToStart(r.m).m)
      BY <2>1, <2>2, UndoneListKept
    <3> QED BY <2>1, <3>1, <3>2, ReturnSearched
  <2> QED BY <2>3, <2>4
<1>6. ASSUME SearchFinds PROVE Searched
  <2> DEFINE key == [g.m EXCEPT !.state.payload_bak = g.m.state.payload,
                                !.state.payload = @ + 1, !.state.elem_count = @ - 1]
  <2>1. /\ g.m.state.elem_count > 0 /\ g.m.state.payload < g.m.state.payload_end
        /\ SearchReturns(IF ManuallyProcess THEN Success(key) ELSE zcbor_elem_processed(key))
        /\ UNCHANGED calls
    BY <1>6 DEF SearchFinds
  <2> HIDE DEF g
  <2>3. Good(key) /\ Worked(g.m, key)
    BY <1>2, <2>1, KeyReadGood, KeyReadWorks
  <2> HIDE DEF key
  <2>4. ListKept(key)
    BY <1>1, <1>2, <2>3, ListKeptThrough
  <2>5. ListKept(Success(key).m) /\ ListKept(zcbor_elem_processed(key).m)
    <3>1. Good(zcbor_elem_processed(key).m) /\ Worked(key, zcbor_elem_processed(key).m)
      BY <2>3, ElemProcessedGood, ElemProcessedWorks DEF GoodResult
    <3>2. Success(key).m = key
      BY DEF Success
    <3> QED BY <1>1, <2>3, <2>4, <3>1, <3>2, ListKeptThrough
  <2> QED BY <2>1, <2>5, ReturnSearched
<1>7. ASSUME SearchSkips PROVE Searched
  <2>1. search # << >> /\ UNCHANGED calls
    BY <1>7 DEF SearchSkips
  <2>2. CASE ~g.ok
    <3>1. SearchReturns(g)
      BY <1>7, <2>2 DEF SearchSkips
    <3> HIDE DEF g
    <3> QED BY <1>2, <2>1, <3>1, ReturnSearched
  <2>3. CASE g.ok
    <3>1. PICK m \in IF t.ok THEN KeysRefused(t.m) ELSE {t.m} :
            \E key \in {any_skip(m, taken) : taken \in SkipResults(m.state)} :
            \E value \in {any_skip(key.m, taken) : taken \in SkipResults(key.m.state)} :
               IF key.ok /\ value.ok THEN SearchGoesOn(value.m)
               ELSE SearchReturns(BackToStart(IF key.ok THEN value.m ELSE key.m))
      BY <1>7, <2>3 DEF SearchSkips
    <3> HIDE DEF g, t
    <3>2. Good(m) /\ ListKept(m)
      BY <1>1, <1>2, <3>1, KeysRefusedGood, KeysRefusedWorks, ListKeptThrough
    <3>3. PICK key \in {any_skip(m, taken) : taken \in SkipResults(m.state)} :
            \E value \in {any_skip(key.m, taken) : taken \in SkipResults(key.m.state)} :
               IF key.ok /\ value.ok THEN SearchGoesOn(value.m)
               ELSE SearchReturns(BackToStart(IF key.ok THEN value.m ELSE key.m))
      BY <3>1
    <3>4. Good(key.m) /\ ListKept(key.m)
      <4>1. Good(key.m) /\ Worked(m, key.m)
        BY <3>2, SkipsType, AnySkipGood, AnySkipWorks DEF GoodResult
      <4> QED BY <1>1, <3>2, <4>1, ListKeptThrough
    <3>5. PICK value \in {any_skip(key.m, taken) : taken \in SkipResults(key.m.state)} :
            IF key.ok /\ value.ok THEN SearchGoesOn(value.m)
            ELSE SearchReturns(BackToStart(IF key.ok THEN value.m ELSE key.m))
      BY <3>3
    <3>6. Good(value.m) /\ ListKept(value.m)
      <4>1. Good(value.m) /\ Worked(key.m, value.m)
        BY <3>4, SkipsType, AnySkipGood, AnySkipWorks DEF GoodResult
      <4> QED BY <1>1, <3>4, <4>1, ListKeptThrough
    <3>7. ListKept(BackToStart(key.m).m) /\ ListKept(BackToStart(value.m).m)
      BY <2>1, <3>4, <3>6, UndoneListKept
    <3>8. CASE key.ok /\ value.ok
      BY <2>1, <3>5, <3>6, <3>8, GoesOnSearched
    <3>9. CASE ~(key.ok /\ value.ok)
      BY <2>1, <3>5, <3>7, <3>9, ReturnSearched
    <3> QED BY <3>8, <3>9
  <2> QED BY <2>2, <2>3
<1>8. ASSUME ElemProcessed PROVE Working
  <2>1. zs' = zcbor_elem_processed(zs).m /\ calls' = calls
    BY <1>8 DEF ElemProcessed, Return
  <2> QED BY <1>1, <2>1, ElemProcessedWorks, WorkedListKept DEF Working
<1> QED BY <1>4, <1>5, <1>6, <1>7, <1>8

-----------------------------------------------------------------------------
(* Every step keeps the order.                                             *)

LEMMA NextEffect ==
    ASSUME OInv, Next
    PROVE  Staying \/ (MovePayload /\ Moving) \/ NewState
<1>1. IInv
  BY DEF OInv
<1>2. Searched => Staying
  BY DEF Searched, Staying
<1>3. Working => Staying
  BY DEF Staying
<1>4. (Decode \/ AnySkip => Staying) /\ (MovePayload => Moving)
  BY <1>1, ValueEffects
<1>5. ListStart \/ MapStart \/ UnorderedMapStart \/ BstrStart \/ UnionStart
        \/ IterationStart => Staying
  BY <1>1, StartEffects
<1>6. ListEnd \/ UnorderedMapEnd \/ ListForceEnd \/ BstrEnd => Staying
  BY <1>1, EndEffects
<1>7. UnionElem \/ UnionEnd \/ IterationOk \/ IterationFails => Staying
  BY <1>1, UnionEffects
<1>8. SearchStart \/ SearchRestarts \/ SearchFinds \/ SearchSkips \/ ElemProcessed => Staying
  BY <1>2, <1>3, SearchEffects
<1> QED BY <1>4, <1>5, <1>6, <1>7, <1>8 DEF Next

LEMMA NewStateFresh ==
    ASSUME IInv, NewState
    PROVE  /\ zs'.backup_list = << >> /\ calls = << >> /\ calls' = << >>
           /\ failing /\ search' = search
           /\ Within(zs'.state)
           /\ Good(zs')
<1> DEFINE n == zcbor_new_state(zs, PayloadLen, RootElems)
<1>1. PICK stop \in StopModes : zs' = [n EXCEPT !.stop_on_error = stop]
  BY DEF NewState
<1>2. /\ n.backup_list = << >> /\ Within(n.state) /\ n \in Machine
  BY NewStateStarts, NewStateGood, GoodType DEF IInv
<1> HIDE DEF n
<1>3. zs'.backup_list = n.backup_list /\ zs'.state = n.state
  BY <1>1, <1>2 DEF Machine
<1>4. Good(zs')
  BY NewStateStep DEF IInv
<1> QED BY <1>2, <1>3, <1>4 DEF NewState

\* Once a backup was left behind there are more backups than calls, until a new
\* start.
LEMMA EffectPairs ==
    ASSUME OInv, Effect, Good(zs')
    PROVE  Paired' /\ (Orphaned => Orphaned') /\ (Stranding => Orphaned')
<1> DEFINE n == Len(calls)     nn == Len(calls')
           b == Len(zs.backup_list)    bb == Len(zs'.backup_list)
<1>1. n \in Nat /\ b \in Nat /\ n <= b /\ bb \in Nat
  BY GoodType DEF OInv, IInv, Paired
<1>2. calls' = calls => nn = n
  OBVIOUS
<1>3. \A call : calls' = Append(calls, call) => nn = n + 1
  <2>1. ASSUME NEW call PROVE Len(Append(calls, call)) = n + 1
    BY DEF OInv, IInv
  <2> QED BY <2>1
<1>4. calls # << >> /\ calls' = Returned => nn = n - 1 /\ nn \in Nat
  <2>1. calls # << >> => n # 0
    BY EmptySeq DEF OInv, IInv
  <2> QED BY <1>1, <2>1, CallPopped DEF OInv, IInv, Returned
<1>5. zs'.backup_list = zs.backup_list => bb = b
  OBVIOUS
<1> HIDE DEF n, nn, b, bb
<1>6. Working => bb = b /\ nn = n
  BY <1>2, <1>5 DEF Working, ListKept
<1>7. Marking \/ Opening => bb = b + 1 /\ nn = n + 1
  BY <1>3 DEF Marking, Opening, StateSaved, Opened, OneMore, b, bb
<1>8. Retrying \/ Moving => bb = b /\ nn = n
  BY <1>2 DEF Retrying, Retried, Moving, Moved, b, bb
<1>9. RollingBack \/ Committing \/ Closing => bb = b - 1 /\ nn = n - 1
  BY <1>4 DEF RollingBack, RolledBack, Committing, Committed, Closing, Closed, OneLess, b, bb
<1>10. Stranding => (bb = b + 1 /\ nn = n) \/ (bb = b /\ nn = n - 1)
  BY <1>2, <1>4, <1>5 DEF Stranding, Spilled, OneMore, ListKept, b, bb
<1>11. bb - nn = b - n \/ (bb - nn = b - n + 1)
  BY <1>1, <1>6, <1>7, <1>8, <1>9, <1>10, <1>3, <1>4 DEF Effect, Staying
<1>12. nn \in Int
  BY <1>1, <1>6, <1>7, <1>8, <1>9, <1>10 DEF Effect, Staying
<1>13. nn <= bb /\ (n # b => nn # bb)
  BY <1>1, <1>11, <1>12
<1>14. Stranding => nn # bb
  BY <1>1, <1>10
<1> QED BY <1>13, <1>14 DEF Paired, Orphaned, n, nn, b, bb

LEMMA EffectOrders ==
    ASSUME OInv, Effect, Good(zs'), ~Orphaned'
    PROVE  ~Orphaned /\ Ordered(zs, calls) /\ Ordered(zs', calls')
<1>1. ~Orphaned /\ ~Stranding
  BY EffectPairs
<1>2. Good(zs) /\ calls \in Seq(Calls) /\ Ordered(zs, calls)
  BY <1>1 DEF OInv, IInv, InOrder
<1>3. Working => Ordered(zs', calls')
  BY <1>1, <1>2, WorkedOrdered DEF Working, ListKept
<1>4. Marking => Ordered(zs', calls')
  BY <1>2, MarkedOrdered DEF Marking
<1>5. Opening => Ordered(zs', calls')
  BY <1>2, OpenedOrdered DEF Opening
<1>6. Retrying => Ordered(zs', calls')
  BY <1>2, RetriedOrdered DEF Retrying
<1>7. RollingBack => Ordered(zs', calls')
  BY <1>2, RolledBackOrdered DEF RollingBack, Returned
<1>8. Committing => Ordered(zs', calls')
  BY <1>2, CommittedOrdered DEF Committing, Returned
<1>9. Closing => Ordered(zs', calls')
  BY <1>2, ClosedOrdered DEF Closing, Returned
<1>10. Moving => Ordered(zs', calls')
  BY <1>2, MovedOrdered DEF Moving
<1> QED BY <1>1, <1>2, <1>3, <1>4, <1>5, <1>6, <1>7, <1>8, <1>9, <1>10 DEF Effect, Staying

\* A search goes on until it returns; nothing else happens meanwhile.
LEMMA SearchOnly ==
    ASSUME OInv, Next, search' # << >>
    PROVE  SearchStart \/ SearchRestarts \/ SearchFinds \/ SearchSkips
<1>1. search # << >> => ~failing
  BY DEF OInv, Searching
<1>2. ~(Decode \/ AnySkip \/ MovePayload)
  BY DEF Decode, AnySkip, MovePayload, Return, Decoding
<1>3. ~(ListStart \/ MapStart \/ UnorderedMapStart \/ BstrStart \/ UnionStart
          \/ IterationStart)
  BY DEF ListStart, MapStart, UnorderedMapStart, BstrStart, UnionStart, IterationStart,
         Enter, Return, Decoding
<1>4. ~(ListEnd \/ UnorderedMapEnd \/ ListForceEnd \/ BstrEnd)
  BY <1>1 DEF ListEnd, UnorderedMapEnd, ListForceEnd, BstrEnd, Leave, Decoding
<1>5. ~(UnionElem \/ UnionEnd \/ IterationOk \/ IterationFails)
  BY <1>1 DEF UnionElem, UnionEnd, IterationOk, IterationFails, Leave, Return, Decoding
<1>6. ~(ElemProcessed \/ NewState)
  BY <1>1 DEF ElemProcessed, NewState, Return, Decoding
<1> QED BY <1>2, <1>3, <1>4, <1>5, <1>6 DEF Next

LEMMA SearchStaysInMap ==
    ASSUME OInv, Next, Good(zs')
    PROVE  Searching'
<1> SUFFICES ASSUME search' # << >>
             PROVE  ~failing' /\ InUnorderedMap'
  BY DEF Searching
<1>1. Working /\ InUnorderedMap /\ ~failing'
  <2>1. CASE SearchStart
    BY <2>1, SearchEffects
  <2>2. CASE SearchRestarts \/ SearchFinds \/ SearchSkips
    <3>1. Searched /\ search # << >>
      BY <2>2, SearchEffects DEF SearchRestarts, SearchFinds, SearchSkips
    <3>2. ~failing /\ InUnorderedMap
      BY <3>1 DEF OInv, Searching
    <3> QED BY <3>1, <3>2 DEF Searched
  <2> QED BY <2>1, <2>2, SearchOnly
<1> QED BY <1>1 DEF Working, InUnorderedMap

LEMMA InitOrdered == Init => OInv
<1> SUFFICES ASSUME Init PROVE OInv
  OBVIOUS
<1>1. IInv
  BY InitInvariant
<1>2. zs.backup_list = << >> /\ zs.state = InitialCursor /\ calls = << >> /\ search = << >>
  BY DEF Init
<1> QED BY <1>1, <1>2, StartOrdered DEF OInv, Paired, Searching, InOrder

LEMMA StepOrdered == OInv /\ [Next]_vars => OInv'
<1> SUFFICES ASSUME OInv, [Next]_vars PROVE OInv'
  OBVIOUS
<1>1. IInv'
  BY StepInvariant DEF OInv
<1>2. CASE UNCHANGED vars
  <2>1. Paired' = Paired /\ Orphaned' = Orphaned /\ InUnorderedMap' = InUnorderedMap
    BY <1>2 DEF vars, Paired, Orphaned, InUnorderedMap
  <2> QED BY <1>1, <1>2, <2>1 DEF OInv, vars, Searching, InOrder
<1>3. CASE Next
  <2>1. Good(zs')
    BY <1>1 DEF IInv
  <2>2. Searching'
    BY <1>3, <2>1, SearchStaysInMap
  <2>3. CASE Effect
    <3>1. Paired'
      BY <2>1, <2>3, EffectPairs
    <3>2. InOrder'
      BY <2>1, <2>3, EffectOrders DEF InOrder
    <3> QED BY <1>1, <2>2, <3>1, <3>2 DEF OInv
  <2>4. CASE NewState
    <3>1. zs'.backup_list = << >> /\ calls' = << >>
      BY <2>4, NewStateFresh DEF OInv
    <3> QED BY <1>1, <2>2, <3>1, StartOrdered DEF OInv, Paired, InOrder
  <2> QED BY <1>3, <2>3, <2>4, NextEffect DEF Effect
<1> QED BY <1>2, <1>3

\* The inductive invariant: the machine is sound, and while every call has its
\* backup the calls, the backups and the state are in order.
THEOREM OrderInvariance == Spec => []OInv
BY InitOrdered, StepOrdered, PTL DEF Spec

-----------------------------------------------------------------------------
(* What a backup saved stays saved.                                        *)

\* Backup i is the one it was, or has moved to another piece of payload; the
\* bytes up to the end of its flags have stayed.
StaysSaved(i) ==
    LET b == zs.backup_list[i]  bb == zs'.backup_list[i] IN
    /\ bb = b \/ (AtStart(b, bb) /\ bb.payload_moved)
    /\ Below(zs, zs', FlagEnd(b))

LEMMA EffectSaves ==
    ASSUME OInv, Effect, Good(zs'), ~Orphaned',
           NEW i \in 1 .. Len(zs.backup_list), i <= Len(zs'.backup_list)
    PROVE  StaysSaved(i)
<1> DEFINE b == zs.backup_list[i]
<1>1. /\ ~Orphaned /\ ~Stranding /\ Ordered(zs, calls)
      /\ Good(zs) /\ calls \in Seq(Calls)
  BY EffectPairs, EffectOrders DEF OInv, IInv
<1>2. /\ Len(zs.backup_list) = Len(calls) /\ Len(calls) \in Nat /\ i \in 1 .. Len(calls)
      /\ zs.state \in Cursor
      /\ \A j \in 1 .. Len(calls) : zs.backup_list[j] \in Cursor
  BY <1>1, OrderedType
<1>3. FlagEnd(b) \in Int /\ Start(zs.state) \in Int /\ FlagEnd(zs.state) \in Int
      /\ Start(zs.state) <= FlagEnd(zs.state)
  BY <1>2, FlagEndType
<1>4. SmartSearch => FlagEnd(b) <= Start(zs.state)
  <2>1. Over(zs.backup_list, calls, Len(calls), zs.state)
    BY <1>1 DEF Ordered
  <2> QED BY <1>2, <2>1 DEF Over
<1>5. ASSUME zs.backup_list # << >>
      PROVE  /\ Top(zs) \in Cursor /\ Top(zs) = zs.backup_list[Len(calls)]
             /\ SmartSearch /\ i # Len(calls) => FlagEnd(b) <= Start(Top(zs))
             /\ Start(Top(zs)) \in Int /\ FlagEnd(Top(zs)) \in Int
             /\ Start(Top(zs)) <= FlagEnd(Top(zs))
  <2>1. /\ Top(zs) = zs.backup_list[Len(calls)] /\ Top(zs) \in Cursor
        /\ Over(zs.backup_list, calls, Len(calls) - 1, Top(zs))
    BY <1>1, <1>5, TopOrdered
  <2>2. i # Len(calls) => i \in 1 .. Len(calls) - 1
    BY <1>2
  <2> QED BY <2>1, <2>2, FlagEndType DEF Over
<1> HIDE DEF b
\* Without smart search no memory is used.
<1>6. ASSUME NEW a \in Int, Below(zs, zs', a), SmartSearch => FlagEnd(b) <= a
      PROVE  Below(zs, zs', FlagEnd(b))
  <2>1. CASE SmartSearch
    BY <1>3, <1>6, <2>1, BelowLess
  <2>2. CASE ~SmartSearch
    BY <1>6, <2>2 DEF Below
  <2> QED BY <2>1, <2>2
<1>7. CASE Working
  <2>1. zs'.backup_list = zs.backup_list /\ Below(zs, zs', Start(zs.state))
    BY <1>1, <1>7 DEF Working, ListKept, Worked, Kept, KeptBelow
  <2> QED BY <1>3, <1>4, <1>6, <2>1 DEF StaysSaved, b
<1>8. CASE Marking \/ Opening
  <2>1. OneMore(zs, zs') /\ Below(zs, zs', FlagEnd(zs.state))
    BY <1>8 DEF Marking, Opening, StateSaved, Opened
  <2>2. zs'.backup_list[i] = b
    BY <1>2, <2>1 DEF OneMore, b
  <2>3. SmartSearch => FlagEnd(b) <= FlagEnd(zs.state)
    BY <1>3, <1>4
  <2> QED BY <1>3, <1>6, <2>1, <2>2, <2>3 DEF StaysSaved, b
<1>9. CASE Retrying
  <2>1. /\ zs.backup_list # << >> /\ zs'.backup_list = zs.backup_list
        /\ Below(zs, zs', FlagEnd(Top(zs)))
    BY <1>9 DEF Retrying, Retried
  <2>2. SmartSearch => FlagEnd(b) <= FlagEnd(Top(zs))
    BY <1>3, <1>5, <2>1 DEF b
  <2> QED BY <1>5, <1>6, <2>1, <2>2 DEF StaysSaved, b
<1>10. CASE RollingBack \/ Committing \/ Closing
  <2>1. /\ OneLess(zs, zs')
        /\ \E a \in Int : Below(zs, zs', a) /\ a \in {Start(Top(zs)), Start(zs.state)}
    <3>1. CASE RollingBack
      BY <1>3, <3>1, BelowSame DEF RollingBack, RolledBack
    <3>2. CASE Committing
      BY <1>5, <3>2 DEF Committing, Committed, OneLess
    <3>3. CASE Closing
      BY <1>3, <3>3 DEF Closing, Closed
    <3> QED BY <1>10, <3>1, <3>2, <3>3
  <2>2. PICK a \in Int : Below(zs, zs', a) /\ a \in {Start(Top(zs)), Start(zs.state)}
    BY <2>1
  <2>3. zs.backup_list # << >> /\ i # Len(calls) /\ zs'.backup_list[i] = b
    <3>1. Len(zs'.backup_list) \in Nat
      BY GoodType
    <3> QED BY <1>2, <2>1, <3>1 DEF OneLess, b
  <2>4. SmartSearch => FlagEnd(b) <= a
    BY <1>4, <1>5, <2>2, <2>3
  <2> QED BY <1>6, <2>2, <2>3, <2>4 DEF StaysSaved, b
<1>11. CASE Moving
  <2>1. zs'.mem = zs.mem /\ AtStart(b, zs'.backup_list[i]) /\ zs'.backup_list[i].payload_moved
    BY <1>11 DEF Moving, Moved, b
  <2> QED BY <2>1, BelowSame DEF StaysSaved, b
<1> QED BY <1>1, <1>7, <1>8, <1>9, <1>10, <1>11 DEF Effect, Staying

-----------------------------------------------------------------------------
(* Theorems.                                                               *)

LEMMA StackType ==
    ASSUME Good(zs)
    PROVE  /\ Len(zs.backup_list) \in Nat
           /\ DOMAIN Stack = 1 .. Len(zs.backup_list) + 1
           /\ \A j \in 1 .. Len(zs.backup_list) : Stack[j] = zs.backup_list[j]
           /\ Stack[Len(zs.backup_list) + 1] = zs.state
<1>1. zs.state \in Cursor /\ zs.backup_list \in Seq(Cursor) /\ Len(zs.backup_list) \in Nat
  BY GoodType
<1> QED BY <1>1, AppendProperties, LenProperties DEF Stack

\* On a stack in order, each cursor is in order on those below it.
LEMMA StackOrdered ==
    ASSUME OInv, ~Orphaned, NEW j \in DOMAIN Stack
    PROVE  /\ Over(zs.backup_list, calls, j - 1, Stack[j])
           /\ \A i \in DOMAIN Stack : i < j => /\ i \in 1 .. j - 1
                                               /\ Stack[i] = zs.backup_list[i]
<1>1. Good(zs) /\ Ordered(zs, calls)
  BY DEF OInv, IInv, InOrder
<1>2. Len(zs.backup_list) = Len(calls) /\ Len(calls) \in Nat
  BY <1>1, OrderedType DEF OInv, IInv
<1>3. j \in 1 .. Len(calls) + 1
  BY <1>1, <1>2, StackType
<1>4. Over(zs.backup_list, calls, j - 1, Stack[j])
  <2>1. CASE j \in 1 .. Len(calls)
    BY <1>1, <1>2, <2>1, StackType DEF Ordered
  <2>2. CASE j = Len(calls) + 1
    <3>1. j - 1 = Len(calls) /\ Stack[j] = zs.state
      BY <1>1, <1>2, <2>2, StackType
    <3> QED BY <1>1, <3>1 DEF Ordered
  <2> QED BY <1>2, <1>3, <2>1, <2>2
<1>5. ASSUME NEW i \in DOMAIN Stack, i < j
      PROVE  i \in 1 .. j - 1 /\ Stack[i] = zs.backup_list[i]
  BY <1>1, <1>2, <1>3, <1>5, StackType
<1> QED BY <1>4, <1>5 DEF Over

\* The flags of each backup lie below those of all later ones and of the state,
\* whatever the nesting of unions, repetitions, lists and maps and however the
\* maps grow, as long as no call has left its backup behind.
THEOREM FlagsStayApart == Spec => []FlagsApart
<1>1. OInv => FlagsApart
  BY StackOrdered DEF FlagsApart, Over, Start
<1> QED BY <1>1, OrderInvariance, PTL

\* The section of every cursor lies within the sections of the cursors below it,
\* also after searches, rollbacks and new pieces of payload, as long as no call
\* has left its backup behind; where the cursors themselves are is left open.
THEOREM SectionsStayNested == Spec => []SectionsNest
<1>1. OInv => SectionsNest
  BY StackOrdered DEF SectionsNest, Over
<1> QED BY <1>1, OrderInvariance, PTL

\* No step changes a backup or the flags it owns, until the backup is removed;
\* zcbor_update_state alone takes its place in the payload away.
THEOREM BackupsStaySaved == Spec => SavedStaysSaved
<1>1. ASSUME OInv, [Next]_vars
      PROVE  [~Orphaned /\ ~Orphaned' =>
                \A i \in DOMAIN zs.backup_list \cap DOMAIN zs'.backup_list :
                   LET b == zs.backup_list[i]  bb == zs'.backup_list[i] IN
                   /\ b.elem_count = bb.elem_count
                   /\ b.decode_state = bb.decode_state
                   /\ b.payload # bb.payload => bb.payload_moved
                   /\ \A a \in FlagAddresses(b) : zs'.mem[a] = zs.mem[a]]_vars
  <2> SUFFICES ASSUME Next, ~Orphaned, ~Orphaned',
                      NEW i \in DOMAIN zs.backup_list \cap DOMAIN zs'.backup_list
               PROVE  LET b == zs.backup_list[i]  bb == zs'.backup_list[i] IN
                      /\ b.elem_count = bb.elem_count
                      /\ b.decode_state = bb.decode_state
                      /\ b.payload # bb.payload => bb.payload_moved
                      /\ \A a \in FlagAddresses(b) : zs'.mem[a] = zs.mem[a]
    BY <1>1
  <2> DEFINE b == zs.backup_list[i]
  <2>1. Good(zs) /\ Good(zs')
    BY <1>1, StepInvariant DEF OInv, IInv
  <2>2. /\ i \in 1 .. Len(zs.backup_list) /\ i <= Len(zs'.backup_list)
        /\ i \in 1 .. Len(zs'.backup_list)
    <3>1. /\ DOMAIN zs.backup_list = 1 .. Len(zs.backup_list)
          /\ DOMAIN zs'.backup_list = 1 .. Len(zs'.backup_list)
          /\ Len(zs.backup_list) \in Nat /\ Len(zs'.backup_list) \in Nat
      BY <2>1, GoodType, LenProperties
    <3> QED BY <3>1
  <2>3. ~NewState
    BY <1>1, <2>2, NewStateFresh DEF OInv
  <2>4. StaysSaved(i)
    BY <1>1, <2>1, <2>2, <2>3, NextEffect, EffectSaves DEF Effect
  <2>5. /\ b \in Cursor /\ Start(b) \in Nat /\ FlagEnd(b) \in Nat
        /\ SmartSearch => FlagEnd(b) <= FlagBytes
    <3>1. b \in Cursor
      BY <2>1, <2>2, GoodType
    <3>2. SmartSearch => FlagEnd(b) <= FlagBytes
      BY <2>1, <2>2 DEF Good, FlagsSound
    <3>3. \A x \in 0 .. FlagBytes : x \in Nat
      BY FlagAssumption
    <3> QED BY <3>1, <3>2, <3>3, FlagEndType
  <2>6. ASSUME NEW a \in FlagAddresses(b) PROVE zs'.mem[a] = zs.mem[a]
    <3>1. Below(zs, zs', FlagEnd(b))
      BY <2>4 DEF StaysSaved
    <3>2. a \in Start(b) .. FlagEnd(b) - 1
      BY DEF FlagAddresses, Start
    <3>3. SmartSearch => a \in Address /\ a < FlagEnd(b)
      <4> HIDE DEF b
      <4> QED BY <2>5, <3>2, FlagAssumption DEF Address
    <3> QED BY <3>1, <3>3 DEF Below
  <2> QED BY <2>4, <2>6 DEF StaysSaved, AtStart
<1> QED BY <1>1, OrderInvariance, PTL DEF Spec, SavedStaysSaved

-----------------------------------------------------------------------------
(* Counting elements, where there are no flags.                            *)

AllWithin(m) ==
    /\ \A i \in 1 .. Len(m.backup_list) : Within(m.backup_list[i])
    /\ Within(m.state)

LEMMA MoreWithin ==
    ASSUME NEW m, Good(m), NEW n, Good(n), OneMore(m, n), AllWithin(m),
           Within(Top(n)), Within(n.state)
    PROVE  AllWithin(n)
<1>1. Len(m.backup_list) \in Nat /\ Len(n.backup_list) = Len(m.backup_list) + 1
  BY GoodType DEF OneMore
<1>2. \A i \in 1 .. Len(n.backup_list) :
        i \in 1 .. Len(m.backup_list) \/ i = Len(n.backup_list)
  BY <1>1
<1> QED BY <1>2 DEF OneMore, AllWithin, Top

LEMMA FewerWithin ==
    ASSUME NEW m, Good(m), NEW n, OneLess(m, n), AllWithin(m),
           Within(Top(m)) => Within(n.state)
    PROVE  AllWithin(n)
<1>1. Len(m.backup_list) \in Nat /\ Len(m.backup_list) \in 1 .. Len(m.backup_list)
  BY GoodType, TopType DEF OneLess
<1>2. \A i \in 1 .. Len(n.backup_list) : i \in 1 .. Len(m.backup_list)
  BY <1>1 DEF OneLess
<1> QED BY <1>1, <1>2 DEF OneLess, AllWithin, Top

LEMMA EffectWithin ==
    ASSUME OInv, Effect, Good(zs'), AllWithin(zs)
    PROVE  AllWithin(zs')
<1>1. Good(zs) /\ Within(zs.state)
  BY DEF OInv, IInv, AllWithin
<1>2. CASE Working
  BY <1>2 DEF Working, ListKept, AllWithin
<1>3. CASE Marking
  <2>1. /\ OneMore(zs, zs') /\ Alike(zs, zs.state, zs', Top(zs'))
        /\ Alike(zs, [zs.state EXCEPT !.elem_count = zs.state.elem_count], zs', zs'.state)
    BY <1>3 DEF Marking, StateSaved, GoesOn
  <2>2. [zs.state EXCEPT !.elem_count = zs.state.elem_count] = zs.state
    BY <1>1, GoodType DEF Cursor
  <2>3. Within(Top(zs')) /\ Within(zs'.state)
    BY <1>1, <2>1, <2>2, AlikeFields
  <2> QED BY <1>1, <2>1, <2>3, MoreWithin
<1>4. CASE Opening
  <2>1. /\ OneMore(zs, zs') /\ Within(zs'.state)
        /\ Count(Top(zs')) = Count(zs.state)
        /\ ~SmartSearch => Processed(Top(zs')) = Processed(zs.state)
    BY <1>4 DEF Opening, Opened
  <2> QED BY <1>1, <2>1, MoreWithin DEF Within
<1>5. CASE Retrying
  <2>1. /\ zs.backup_list # << >> /\ zs'.backup_list = zs.backup_list
        /\ Alike(zs, Top(zs), zs', zs'.state)
    BY <1>5 DEF Retrying, Retried
  <2>2. Within(Top(zs))
    BY <1>1, <2>1, TopType DEF AllWithin, Top
  <2>3. Within(zs'.state)
    BY <2>1, <2>2, AlikeFields
  <2> QED BY <2>1, <2>3 DEF AllWithin
<1>6. CASE RollingBack
  BY <1>1, <1>6, FewerWithin DEF RollingBack, RolledBack
<1>7. CASE Committing
  <2>1. OneLess(zs, zs') /\ Alike(zs, zs.state, zs', zs'.state)
    BY <1>7 DEF Committing, Committed
  <2>2. Within(zs'.state)
    BY <1>1, <2>1, AlikeFields
  <2> QED BY <1>1, <2>1, <2>2, FewerWithin
<1>8. CASE Closing
  BY <1>1, <1>8, FewerWithin DEF Closing, Closed, Within, Count, Processed
<1>9. CASE Moving
  BY <1>9 DEF Moving, Moved, AtStart, AllWithin, Within, Count, Processed
<1>10. CASE Stranding
  BY <1>1, <1>10, MoreWithin DEF Stranding, Spilled, ListKept, AllWithin
<1> QED BY <1>2, <1>3, <1>4, <1>5, <1>6, <1>7, <1>8, <1>9, <1>10 DEF Effect, Staying

\* Without smart search no cursor has processed more of the elements of its map
\* than the map has, orphaned backups included: the count of processed elements
\* is saved, restored and given up together with the number of elements.
THEOREM ProcessedStaysWithin == Spec => []ProcessedWithinCount
<1>1. Init => AllWithin(zs)
  BY DEF Init, InitialCursor, AllWithin, Within, Count, Processed
<1>2. OInv /\ AllWithin(zs) /\ [Next]_vars => AllWithin(zs)'
  <2> SUFFICES ASSUME OInv, AllWithin(zs), [Next]_vars PROVE AllWithin(zs')
    OBVIOUS
  <2>1. Good(zs')
    BY StepInvariant DEF OInv, IInv
  <2>2. CASE Effect
    BY <2>1, <2>2, EffectWithin
  <2>3. CASE NewState
    <3>1. zs'.backup_list = << >> /\ Within(zs'.state)
      BY <2>3, NewStateFresh DEF OInv
    <3> QED BY <3>1 DEF AllWithin
  <2>4. CASE UNCHANGED vars
    BY <2>4 DEF vars, AllWithin
  <2> QED BY <2>2, <2>3, <2>4, NextEffect DEF Effect
<1>3. OInv /\ AllWithin(zs) => ProcessedWithinCount
  <2> SUFFICES ASSUME OInv, AllWithin(zs), NEW i \in DOMAIN Stack, ~SmartSearch
               PROVE  Processed(Stack[i]) <= Count(Stack[i])
    BY DEF ProcessedWithinCount, Processed, Count
  <2>1. i \in 1 .. Len(zs.backup_list) \/ i = Len(zs.backup_list) + 1
    BY StackType DEF OInv, IInv
  <2>2. Within(Stack[i])
    BY <2>1, StackType DEF OInv, IInv, AllWithin
  <2> QED BY <2>2 DEF Within
<1> QED BY <1>1, <1>2, <1>3, OrderInvariance, PTL DEF Spec

=============================================================================
