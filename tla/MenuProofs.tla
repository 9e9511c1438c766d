----------------------------- MODULE MenuProofs -----------------------------
(***************************************************************************)
(* parseMenuEntries reports exactly the selectable entries of a file of    *)
(* any length and nesting.                                                 *)
(*                                                                         *)
(* The invariant relates the parser's stack of submenu depths to GRUB's    *)
(* nesting: the submenus a block lies in are those contexts that are less  *)
(* deep than the block.  It is what makes the pops right: after a line     *)
(* that closes blocks, the contexts to keep are those of the outermost     *)
(* closed block.                                                           *)
(***************************************************************************)
EXTENDS MenuParser, SequenceTheorems, TLAPS

\* The contexts of s that are less deep than d are its first k.
Split(s, d, k) == \A i \in 1..Len(s) : i <= k <=> s[i].depth < d

MenuInv ==
    /\ TypeOK
    /\ braceDepth = Len(nest)
    /\ StackIsPath
    /\ TargetsReported
    /\ Split(stack, Len(nest), Len(stack))
    /\ \A j \in 1..Len(nest) : nest[j] \in 0..Len(path) /\ Split(stack, j - 1, nest[j])

LEMMA Contexts ==
    ASSUME NEW s \in Seq(Context)
    PROVE  Len(s) \in Nat /\ \A i \in 1..Len(s) : s[i] \in Context /\ s[i].depth \in Nat
<1>1. \A i \in 1..Len(s) : s[i] \in Context
  BY ElementOfSeq
<1>2. \A e \in Context : e.depth \in Nat
  BY DEF Context
<1> QED
  BY <1>1, <1>2, LenProperties

LEMMA Prefix ==
    ASSUME NEW S, NEW s \in Seq(S), NEW k \in 0..Len(s)
    PROVE  /\ SubSeq(s, 1, k) \in Seq(S)
           /\ Len(SubSeq(s, 1, k)) = k
           /\ \A i \in 1..k : SubSeq(s, 1, k)[i] = s[i]
<1>1. Len(s) \in Nat /\ \A i \in 1..k : s[i] \in S
  BY LenProperties, ElementOfSeq
<1> QED
  BY <1>1, SubSeqProperties

LEMMA PoppedIsPrefix ==
    ASSUME NEW s \in Seq(Context), NEW d \in Int, NEW k \in 0..Len(s), Split(s, d, k)
    PROVE  Popped(s, d) = SubSeq(s, 1, k)
<1> DEFINE P(n) == /\ n > 0 => s[n].depth < d
                   /\ \A i \in (n + 1)..Len(s) : s[i].depth >= d
<1>0. Len(s) \in Nat /\ \A i \in 1..Len(s) : s[i].depth \in Nat
  BY Contexts
<1>1. P(k)
  BY <1>0 DEF Split
<1>2. ASSUME NEW n \in 0..Len(s), P(n) PROVE n = k
  <2>1. CASE n < k
    BY <1>0, <1>2, <2>1, k \in (n + 1)..Len(s) DEF Split
  <2>2. CASE n > k
    BY <1>0, <1>2, <2>2 DEF Split
  <2> QED
    BY <1>0, <2>1, <2>2
<1>3. (CHOOSE n \in 0..Len(s) : P(n)) = k
  BY <1>1, <1>2
<1> QED
  BY <1>3 DEF Popped

LEMMA PoppedNothing ==
    ASSUME NEW s \in Seq(Context), NEW d \in Int, Split(s, d, Len(s))
    PROVE  Popped(s, d) = s
BY PoppedIsPrefix, SubSeqFull

LEMMA MenuInit == Init => MenuInv
BY DEF Init, MenuInv, TypeOK, StackIsPath, TargetsReported, Split

LEMMA TargetIsPath ==
    ASSUME MenuInv, NEW t
    PROVE  Target(stack, t) = Append(path, t)
<1>1. path = [i \in 1..Len(path) |-> path[i]]
  BY DEF MenuInv, TypeOK
<1>2. [i \in 1..Len(stack) |-> stack[i].title] = path
  BY <1>1 DEF MenuInv, StackIsPath
<1> QED
  BY <1>2 DEF Target

\* A line that opens no submenu and ends at the nesting it leaves: no pop.
LEMMA ScanInside ==
    ASSUME MenuInv, NEW d \in Nat, d >= Len(nest)
    PROVE  Popped(stack, d) = stack
<1>1. \A i \in 1..Len(stack) : stack[i].depth \in Nat
  BY Contexts DEF MenuInv, TypeOK
<1>2. Len(nest) \in Nat /\ Len(stack) \in Nat
  BY LenProperties DEF MenuInv, TypeOK
<1>3. Split(stack, d, Len(stack))
  BY <1>1, <1>2 DEF MenuInv, Split
<1> QED
  BY <1>3, PoppedNothing DEF MenuInv, TypeOK

\* A line that opens a block which is not a submenu.
LEMMA OpenPreserves ==
    ASSUME MenuInv, Open, stack' = stack, braceDepth' = braceDepth + 1, path' = path,
           entries' = targets', targets' \in Seq(Seq(Titles)), lines' \in Nat
    PROVE  MenuInv'
<1>1. /\ Len(nest) \in Nat /\ Len(stack) \in Nat /\ Len(path) \in Nat
      /\ \A i \in 1..Len(stack) : stack[i].depth \in Nat
  BY LenProperties, Contexts DEF MenuInv, TypeOK
<1>2. /\ nest' \in Seq(Nat) /\ Len(nest') = Len(nest) + 1
      /\ \A j \in 1..Len(nest) : nest'[j] = nest[j]
      /\ nest'[Len(nest) + 1] = Len(path)
  BY <1>1, AppendProperties DEF Open, MenuInv, TypeOK
<1>3. TypeOK' /\ StackIsPath' /\ TargetsReported'
  BY <1>1, <1>2 DEF MenuInv, TypeOK, StackIsPath, TargetsReported
<1>4. Split(stack', Len(nest'), Len(stack'))
  BY <1>1, <1>2 DEF MenuInv, Split
<1>5. ASSUME NEW j \in 1..Len(nest') PROVE nest'[j] \in 0..Len(path') /\ Split(stack', j - 1, nest'[j])
  <2>1. CASE j \in 1..Len(nest)
    BY <1>2, <2>1 DEF MenuInv
  <2>2. CASE j = Len(nest) + 1
    BY <1>1, <1>2, <2>2 DEF MenuInv, StackIsPath
  <2> QED
    BY <1>1, <1>2, <2>1, <2>2
<1> QED
  BY <1>2, <1>3, <1>4, <1>5 DEF MenuInv

LEMMA OpenSubmenuStep ==
    ASSUME MenuInv, NEW t \in Titles, OpenSubmenu(t), lines' \in Nat
    PROVE  MenuInv'
<1> DEFINE c == [depth |-> braceDepth, title |-> t]
<1>0. t # NoTitle
  BY MenuAssumption
<1>1. /\ Len(nest) \in Nat /\ Len(stack) \in Nat /\ Len(path) = Len(stack)
      /\ \A i \in 1..Len(stack) : stack[i].depth \in Nat
  BY LenProperties, Contexts DEF MenuInv, TypeOK, StackIsPath
<1>c. c \in Context /\ c.depth = Len(nest) /\ c.title = t
  BY <1>1 DEF Context, MenuInv
<1> HIDE DEF c
<1>2. /\ nest' \in Seq(Nat) /\ Len(nest') = Len(nest) + 1
      /\ \A j \in 1..Len(nest) : nest'[j] = nest[j]
      /\ nest'[Len(nest) + 1] = Len(path)
  BY <1>1, AppendProperties DEF OpenSubmenu, Open, MenuInv, TypeOK
<1>3. /\ path' \in Seq(Titles) /\ Len(path') = Len(path) + 1
      /\ \A i \in 1..Len(path) : path'[i] = path[i]
      /\ path'[Len(path) + 1] = t
  BY <1>1, AppendProperties DEF OpenSubmenu, MenuInv, TypeOK
<1>4. /\ Append(stack, c) \in Seq(Context) /\ Len(Append(stack, c)) = Len(stack) + 1
      /\ \A i \in 1..Len(stack) : Append(stack, c)[i] = stack[i]
      /\ Append(stack, c)[Len(stack) + 1] = c
  BY <1>1, <1>c, AppendProperties DEF MenuInv, TypeOK
<1>5. braceDepth' = Len(nest) + 1 /\ entries' = entries /\ targets' = targets
      /\ stack' = Popped(Append(stack, c), Len(nest) + 1)
  BY <1>0 DEF OpenSubmenu, Scan, Titled, MenuInv, c
<1>6. Split(Append(stack, c), Len(nest) + 1, Len(Append(stack, c)))
  BY <1>1, <1>c, <1>4 DEF MenuInv, Split
<1>7. stack' = Append(stack, c)
  BY <1>4, <1>5, <1>6, PoppedNothing, Len(nest) + 1 \in Int
<1>8. TypeOK'
  <2>1. braceDepth' \in Int /\ entries' \in Seq(Seq(Titles)) /\ targets' \in Seq(Seq(Titles))
    BY <1>1, <1>5 DEF MenuInv, TypeOK
  <2> QED
    BY <1>2, <1>3, <1>4, <1>7, <2>1 DEF TypeOK
<1>9. StackIsPath' /\ TargetsReported'
  <2>1. \A i \in 1..Len(stack) : stack[i].title = path[i]
    BY <1>1 DEF MenuInv, StackIsPath
  <2>2. Len(stack') = Len(path')
    BY <1>1, <1>3, <1>4, <1>7
  <2>3. ASSUME NEW i \in 1..Len(path') PROVE stack'[i].title = path'[i]
    <3>1. CASE i \in 1..Len(stack)
      BY <1>1, <1>3, <1>4, <1>7, <2>1, <3>1
    <3>2. CASE i = Len(stack) + 1
      BY <1>1, <1>c, <1>3, <1>4, <1>7, <3>2
    <3> QED
      BY <1>1, <1>3, <2>3, <3>1, <3>2
  <2>4. TargetsReported'
    BY <1>5 DEF MenuInv, TargetsReported
  <2> QED
    BY <2>2, <2>3, <2>4 DEF StackIsPath
<1>10. ASSUME NEW j \in 1..Len(nest') PROVE nest'[j] \in 0..Len(path') /\ Split(stack', j - 1, nest'[j])
  <2>1. CASE j \in 1..Len(nest)
    <3>1. nest[j] \in 0..Len(path) /\ Split(stack, j - 1, nest[j])
      BY <2>1 DEF MenuInv
    <3>2. Split(Append(stack, c), j - 1, nest[j])
      BY <1>1, <1>c, <1>4, <2>1, <3>1 DEF Split
    <3> QED
      BY <1>1, <1>2, <1>3, <1>7, <2>1, <3>1, <3>2
  <2>2. CASE j = Len(nest) + 1
    <3>1. Split(Append(stack, c), Len(nest), Len(path))
      BY <1>1, <1>c, <1>4 DEF MenuInv, Split
    <3> QED
      BY <1>1, <1>2, <1>3, <1>7, <2>2, <3>1
  <2> QED
    BY <1>1, <1>2, <2>1, <2>2
<1> QED
  BY <1>2, <1>4, <1>5, <1>6, <1>7, <1>8, <1>9, <1>10 DEF MenuInv

LEMMA EntryStep ==
    ASSUME MenuInv, NEW t \in Titles \cup {NoTitle}, NEW closed \in BOOLEAN, Entry(t, closed), lines' \in Nat
    PROVE  MenuInv'
<1>1. braceDepth = Len(nest) /\ Len(nest) \in Nat
  BY LenProperties DEF MenuInv, TypeOK
<1>2. stack' = Popped(stack, braceDepth')
      /\ braceDepth' = IF closed THEN Len(nest) ELSE Len(nest) + 1
  BY <1>1 DEF Entry, Scan
<1>3. stack' = stack
  BY <1>1, <1>2, ScanInside
<1>4. entries' = targets' /\ targets' \in Seq(Seq(Titles))
  <2>1. CASE t = NoTitle
    BY <2>1 DEF Entry, Scan, Titled, MenuInv, TypeOK, TargetsReported
  <2>2. CASE t # NoTitle
    <3>1. Append(path, t) \in Seq(Titles) /\ Append(targets, Append(path, t)) \in Seq(Seq(Titles))
      BY <2>2, AppendProperties DEF MenuInv, TypeOK
    <3> QED
      BY <2>2, <3>1, TargetIsPath DEF Entry, Scan, Titled, MenuInv, TargetsReported
  <2> QED
    BY <2>1, <2>2
<1>5. CASE closed
  BY <1>1, <1>2, <1>3, <1>4, <1>5 DEF Entry, MenuInv, TypeOK, StackIsPath, TargetsReported
<1>6. CASE ~closed
  BY <1>1, <1>2, <1>3, <1>4, <1>6, OpenPreserves DEF Entry
<1> QED
  BY <1>5, <1>6

LEMMA CloseStep ==
    ASSUME MenuInv, NEW n \in 1..Len(nest), Close(n), lines' \in Nat
    PROVE  MenuInv'
<1> DEFINE d == Len(nest) - n
           k == nest[d + 1]
<1>1. /\ Len(nest) \in Nat /\ Len(stack) \in Nat /\ Len(path) = Len(stack)
      /\ d \in Nat /\ d + 1 \in 1..Len(nest) /\ d = Len(nest) - n
  BY LenProperties DEF MenuInv, TypeOK, StackIsPath
<1>2. k \in 0..Len(path) /\ Split(stack, d, k)
  BY <1>1 DEF MenuInv
<1> HIDE DEF d, k
<1>3. /\ nest' = SubSeq(nest, 1, d) /\ path' = SubSeq(path, 1, k)
      /\ braceDepth' = d /\ stack' = Popped(stack, d) /\ entries' = entries /\ targets' = targets
  BY <1>1 DEF Close, Scan, MenuInv, d, k
<1>t. nest \in Seq(Nat) /\ path \in Seq(Titles) /\ stack \in Seq(Context)
  BY DEF MenuInv, TypeOK
<1>s. d \in 0..Len(nest) /\ k \in 0..Len(stack)
  BY <1>1, <1>2
<1>4. stack' = SubSeq(stack, 1, k)
  BY <1>1, <1>2, <1>3, <1>s, <1>t, PoppedIsPrefix
<1>5. nest' \in Seq(Nat) /\ Len(nest') = d /\ \A j \in 1..d : nest'[j] = nest[j]
  BY <1>s, <1>t, <1>3, Prefix
<1>6. path' \in Seq(Titles) /\ Len(path') = k /\ \A i \in 1..k : path'[i] = path[i]
  BY <1>s, <1>t, <1>1, <1>3, Prefix
<1>7. stack' \in Seq(Context) /\ Len(stack') = k /\ \A i \in 1..k : stack'[i] = stack[i]
  BY <1>s, <1>t, <1>4, Prefix
<1>8. TypeOK' /\ StackIsPath' /\ TargetsReported'
  <2>1. braceDepth' \in Int /\ entries' \in Seq(Seq(Titles)) /\ targets' \in Seq(Seq(Titles))
    BY <1>1, <1>3 DEF MenuInv, TypeOK
  <2>2. \A i \in 1..k : stack'[i].title = path'[i]
    <3> SUFFICES ASSUME NEW i \in 1..k PROVE stack'[i].title = path'[i]
      OBVIOUS
    <3>1. i \in 1..Len(path)
      BY <1>1, <1>2
    <3>2. stack[i].title = path[i]
      BY <3>1 DEF MenuInv, StackIsPath
    <3>3. stack'[i] = stack[i] /\ path'[i] = path[i]
      BY <1>6, <1>7
    <3> QED
      BY <3>2, <3>3
  <2> QED
    BY <1>3, <1>5, <1>6, <1>7, <2>1, <2>2 DEF MenuInv, TypeOK, StackIsPath, TargetsReported
<1>9. \A i \in 1..Len(stack) : stack[i].depth \in Nat
  BY Contexts DEF MenuInv, TypeOK
<1>10. Split(stack', d, k)
  BY <1>1, <1>2, <1>7 DEF Split
<1>11. ASSUME NEW j \in 1..d PROVE nest'[j] \in 0..k /\ Split(stack', j - 1, nest'[j])
  <2>1. nest[j] \in 0..Len(path) /\ Split(stack, j - 1, nest[j])
    BY <1>1 DEF MenuInv
  <2>2. nest[j] <= k
    BY <1>1, <1>2, <1>9, <2>1 DEF Split
  <2>3. Split(stack', j - 1, nest[j])
    BY <1>1, <1>2, <1>7, <2>1, <2>2 DEF Split
  <2> QED
    BY <1>5, <2>1, <2>2, <2>3
<1> QED
  BY <1>3, <1>5, <1>6, <1>7, <1>8, <1>10, <1>11 DEF MenuInv

LEMMA MenuStep == MenuInv /\ [Next]_vars => MenuInv'
<1> SUFFICES ASSUME MenuInv, [Next]_vars PROVE MenuInv'
  OBVIOUS
<1>1. CASE UNCHANGED vars
  BY <1>1 DEF vars, grubVars, parserVars, MenuInv, TypeOK, StackIsPath, TargetsReported
<1>2. CASE Next
  <2>0. lines' \in Nat /\ Len(nest) \in Nat /\ braceDepth = Len(nest)
    BY <1>2, LenProperties DEF Next, MenuInv, TypeOK
  <2>1. ASSUME NEW t \in Titles, OpenSubmenu(t) PROVE MenuInv'
    BY <2>0, <2>1, OpenSubmenuStep
  <2>2. ASSUME NEW t \in Titles \cup {NoTitle}, Entry(t, TRUE) \/ Entry(t, FALSE) PROVE MenuInv'
    BY <2>0, <2>2, EntryStep
  <2>3. CASE OpenBlock
    <3>1. Popped(stack, Len(nest) + 1) = stack
      BY <2>0, ScanInside
    <3>2. stack' = stack /\ braceDepth' = braceDepth + 1 /\ entries' = entries
      BY <2>0, <2>3, <3>1 DEF OpenBlock, Scan
    <3> QED
      BY <2>0, <2>3, <3>2, OpenPreserves DEF OpenBlock, MenuInv, TypeOK, TargetsReported
  <2>4. ASSUME NEW n \in 1..Len(nest), Close(n) PROVE MenuInv'
    BY <2>0, <2>4, CloseStep
  <2>5. ASSUME NEW b \in 0..1, Plain(b) PROVE MenuInv'
    <3>1. Popped(stack, Len(nest)) = stack
      BY <2>0, ScanInside
    <3>2. stack' = stack /\ braceDepth' = braceDepth /\ entries' = entries
      BY <2>0, <2>5, <3>1 DEF Plain, Scan
    <3> QED
      BY <2>0, <2>5, <3>2 DEF Plain, grubVars, MenuInv, TypeOK, StackIsPath, TargetsReported
  <2> QED
    BY <1>2, <2>1, <2>2, <2>3, <2>4, <2>5 DEF Next
<1> QED
  BY <1>1, <1>2

\* The stack, the depth and the entries keep their types, whatever the file.
THEOREM ParserTypeCorrect == Spec => []TypeOK
<1>1. MenuInv => TypeOK
  BY DEF MenuInv
<1> QED
  BY <1>1, MenuInit, MenuStep, PTL DEF Spec

\* After every line the stack names exactly the submenus that are open.
THEOREM StackFollowsPath == Spec => []StackIsPath
<1>1. MenuInv => StackIsPath
  BY DEF MenuInv
<1> QED
  BY <1>1, MenuInit, MenuStep, PTL DEF Spec

\* parseMenuEntries reports exactly the selectable entries, with their
\* submenus, of every well-formed file.
THEOREM ParserCorrect == Spec => []TargetsReported
<1>1. MenuInv => TargetsReported
  BY DEF MenuInv
<1> QED
  BY <1>1, MenuInit, MenuStep, PTL DEF Spec
=============================================================================
