---------------------------- MODULE TriageProofs -----------------------------
(***************************************************************************)
(* The excerpt of a log and its fingerprint, for logs of any length, any   *)
(* words and any budget.                                                   *)
(***************************************************************************)
EXTENDS Triage, DiagnosisProofs, Induction

Text == Seq(Words)
Line == [stamp : Stamps \cup {NoStamp}, text : Text]
Block == Seq(Text)
Excerpts == Seq(Words \cup {Newline, Truncated})

-----------------------------------------------------------------------------
(* The loops, line by line *)

LEMMA StripType == \A line \in Line : Strip(line) \in Text
  BY HeadTailProperties DEF Strip, Line, Text

LEMMA KeepLineType == \A kept \in Block, line \in Line : KeepLine(kept, line) \in Block
  BY StripType, AppendProperties DEF KeepLine, Block

\* The loop of preprocess_logs.
LEMMA KeptLoop ==
  /\ Kept(<<>>) = <<>>
  /\ \A raw \in Seq(Line) : Kept(raw) \in Block
  /\ \A raw \in Seq(Line), x \in Line :
       Kept(Append(raw, x)) = KeepLine(Kept(raw), x)
<1> DEFINE step == [z \in Block \X Line |-> KeepLine(z[1], z[2])]
           F == [raw \in Seq(Line) |-> Kept(raw)]
           Turns(g, raw) ==
             g = [s \in SUBSET DOMAIN raw |->
                    IF s = {} THEN <<>> ELSE KeepLine(g[s \ {Max(s)}], raw[Max(s)])]
           Chosen(raw) == CHOOSE g : Turns(g, raw)
<1>1. step \in [Block \X Line -> Block] /\ <<>> \in Block
  BY KeepLineType, EmptySeq DEF Block
<1>2. ASSUME NEW raw \in Seq(Line)
      PROVE  \E g : F[raw] = g[DOMAIN raw] /\ FoldsLeft(g, raw, Block, <<>>, step)
  <2>1. PICK g \in [SUBSET DOMAIN raw -> Block] : Unfolds(g, raw, Line, Block, <<>>, step)
    <3> HIDE DEF step
    <3>1. QED
      BY <1>1, FoldLeftExists
  <2>2. Turns(g, raw)
    BY <2>1 DEF Unfolds
  <2>3. Turns(Chosen(raw), raw)
    <3> HIDE DEF Turns
    <3>1. QED
      BY <2>2
  <2>4. Kept(raw) = Chosen(raw)[DOMAIN raw]
    BY DEF Kept, FoldLeft, MapThenFoldSet
  <2> DEFINE h == Chosen(raw)
  <2> HIDE DEF h
  <2>5. \A s \in SUBSET DOMAIN raw :
          h[s] = IF s = {} THEN <<>> ELSE KeepLine(h[s \ {Max(s)}], raw[Max(s)])
    BY <2>3 DEF h
  <2>6. \A s \in SUBSET DOMAIN raw : s # {} => raw[Max(s)] \in Line
    BY <2>1 DEF Unfolds
  <2>7. FoldsLeft(h, raw, Block, <<>>, step)
    BY <2>5, <2>6 DEF FoldsLeft
  <2>8. QED
    BY <2>4, <2>7 DEF h
<1>3. IsFoldLeft(F, Line, Block, <<>>, step)
  BY <1>2 DEF IsFoldLeft
<1>4. ByElement(F, Line, Block, <<>>, step)
  <2> HIDE DEF F, step
  <2>1. QED
    BY <1>1, <1>3, FoldOfAppend
<1>5. QED
  BY <1>4, EmptySeq, AppendProperties DEF ByElement

\* The two list comprehensions behind it.
LEMMA SignalLinesLoop ==
  /\ SignalLines(<<>>) = <<>>
  /\ \A lines \in Seq(Text) : SignalLines(lines) \in Block
  /\ \A lines \in Seq(Text), x \in Text :
       SignalLines(Append(lines, x)) = AddSignal(SignalLines(lines), x)
<1> DEFINE step == [z \in Block \X Text |-> AddSignal(z[1], z[2])]
           F == [lines \in Seq(Text) |-> SignalLines(lines)]
           Turns(g, lines) ==
             g = [s \in SUBSET DOMAIN lines |->
                    IF s = {} THEN <<>> ELSE AddSignal(g[s \ {Max(s)}], lines[Max(s)])]
           Chosen(lines) == CHOOSE g : Turns(g, lines)
<1>1. step \in [Block \X Text -> Block] /\ <<>> \in Block
  BY AppendProperties, EmptySeq DEF AddSignal, Block
<1>2. ASSUME NEW lines \in Seq(Text)
      PROVE  \E g : F[lines] = g[DOMAIN lines] /\ FoldsLeft(g, lines, Block, <<>>, step)
  <2>1. PICK g \in [SUBSET DOMAIN lines -> Block] : Unfolds(g, lines, Text, Block, <<>>, step)
    <3> HIDE DEF step
    <3>1. QED
      BY <1>1, FoldLeftExists
  <2>2. Turns(g, lines)
    BY <2>1 DEF Unfolds
  <2>3. Turns(Chosen(lines), lines)
    <3> HIDE DEF Turns
    <3>1. QED
      BY <2>2
  <2>4. SignalLines(lines) = Chosen(lines)[DOMAIN lines]
    BY DEF SignalLines, FoldLeft, MapThenFoldSet
  <2> DEFINE h == Chosen(lines)
  <2> HIDE DEF h
  <2>5. \A s \in SUBSET DOMAIN lines :
          h[s] = IF s = {} THEN <<>> ELSE AddSignal(h[s \ {Max(s)}], lines[Max(s)])
    BY <2>3 DEF h
  <2>6. \A s \in SUBSET DOMAIN lines : s # {} => lines[Max(s)] \in Text
    BY <2>1 DEF Unfolds
  <2>7. FoldsLeft(h, lines, Block, <<>>, step)
    BY <2>5, <2>6 DEF FoldsLeft
  <2>8. QED
    BY <2>4, <2>7 DEF h
<1>3. IsFoldLeft(F, Text, Block, <<>>, step)
  BY <1>2 DEF IsFoldLeft
<1>4. ByElement(F, Text, Block, <<>>, step)
  <2> HIDE DEF F, step
  <2>1. QED
    BY <1>1, <1>3, FoldOfAppend
<1>5. QED
  BY <1>4, EmptySeq, AppendProperties DEF ByElement

LEMMA OtherLinesLoop ==
  /\ OtherLines(<<>>) = <<>>
  /\ \A lines \in Seq(Text) : OtherLines(lines) \in Block
  /\ \A lines \in Seq(Text), x \in Text :
       OtherLines(Append(lines, x)) = AddOther(OtherLines(lines), x)
<1> DEFINE step == [z \in Block \X Text |-> AddOther(z[1], z[2])]
           F == [lines \in Seq(Text) |-> OtherLines(lines)]
           Turns(g, lines) ==
             g = [s \in SUBSET DOMAIN lines |->
                    IF s = {} THEN <<>> ELSE AddOther(g[s \ {Max(s)}], lines[Max(s)])]
           Chosen(lines) == CHOOSE g : Turns(g, lines)
<1>1. step \in [Block \X Text -> Block] /\ <<>> \in Block
  BY AppendProperties, EmptySeq DEF AddOther, Block
<1>2. ASSUME NEW lines \in Seq(Text)
      PROVE  \E g : F[lines] = g[DOMAIN lines] /\ FoldsLeft(g, lines, Block, <<>>, step)
  <2>1. PICK g \in [SUBSET DOMAIN lines -> Block] : Unfolds(g, lines, Text, Block, <<>>, step)
    <3> HIDE DEF step
    <3>1. QED
      BY <1>1, FoldLeftExists
  <2>2. Turns(g, lines)
    BY <2>1 DEF Unfolds
  <2>3. Turns(Chosen(lines), lines)
    <3> HIDE DEF Turns
    <3>1. QED
      BY <2>2
  <2>4. OtherLines(lines) = Chosen(lines)[DOMAIN lines]
    BY DEF OtherLines, FoldLeft, MapThenFoldSet
  <2> DEFINE h == Chosen(lines)
  <2> HIDE DEF h
  <2>5. \A s \in SUBSET DOMAIN lines :
          h[s] = IF s = {} THEN <<>> ELSE AddOther(h[s \ {Max(s)}], lines[Max(s)])
    BY <2>3 DEF h
  <2>6. \A s \in SUBSET DOMAIN lines : s # {} => lines[Max(s)] \in Text
    BY <2>1 DEF Unfolds
  <2>7. FoldsLeft(h, lines, Block, <<>>, step)
    BY <2>5, <2>6 DEF FoldsLeft
  <2>8. QED
    BY <2>4, <2>7 DEF h
<1>3. IsFoldLeft(F, Text, Block, <<>>, step)
  BY <1>2 DEF IsFoldLeft
<1>4. ByElement(F, Text, Block, <<>>, step)
  <2> HIDE DEF F, step
  <2>1. QED
    BY <1>1, <1>3, FoldOfAppend
<1>5. QED
  BY <1>4, EmptySeq, AppendProperties DEF ByElement

LEMMA JoinType ==
  \A text \in Excerpts, words \in Text :
    words \in Excerpts /\ text \o <<Newline>> \o words \in Excerpts
<1>1. \A words \in Text : words \in Excerpts
  BY SeqMonotonic DEF Text, Excerpts
<1>2. <<Newline>> \in Excerpts
  BY DEF Excerpts
<1>3. QED
  BY <1>1, <1>2, ConcatProperties DEF Excerpts

\* The join of the lines that are sent.
LEMMA JoinedLoop ==
  /\ Joined(<<>>) = <<>>
  /\ \A lines \in Seq(Text) : Joined(lines) \in Excerpts
  /\ \A lines \in Seq(Text), x \in Text :
       Joined(Append(lines, x)) = JoinLine(Joined(lines), x)
<1> DEFINE step == [z \in Excerpts \X Text |-> JoinLine(z[1], z[2])]
           F == [lines \in Seq(Text) |-> Joined(lines)]
           Turns(g, lines) ==
             g = [s \in SUBSET DOMAIN lines |->
                    IF s = {} THEN <<>> ELSE JoinLine(g[s \ {Max(s)}], lines[Max(s)])]
           Chosen(lines) == CHOOSE g : Turns(g, lines)
<1>1. step \in [Excerpts \X Text -> Excerpts] /\ <<>> \in Excerpts
  BY JoinType, EmptySeq DEF JoinLine, Excerpts
<1>2. ASSUME NEW lines \in Seq(Text)
      PROVE  \E g : F[lines] = g[DOMAIN lines] /\ FoldsLeft(g, lines, Excerpts, <<>>, step)
  <2>1. PICK g \in [SUBSET DOMAIN lines -> Excerpts] : Unfolds(g, lines, Text, Excerpts, <<>>, step)
    <3> HIDE DEF step
    <3>1. QED
      BY <1>1, FoldLeftExists
  <2>2. Turns(g, lines)
    BY <2>1 DEF Unfolds
  <2>3. Turns(Chosen(lines), lines)
    <3> HIDE DEF Turns
    <3>1. QED
      BY <2>2
  <2>4. Joined(lines) = Chosen(lines)[DOMAIN lines]
    BY DEF Joined, FoldLeft, MapThenFoldSet
  <2> DEFINE h == Chosen(lines)
  <2> HIDE DEF h
  <2>5. \A s \in SUBSET DOMAIN lines :
          h[s] = IF s = {} THEN <<>> ELSE JoinLine(h[s \ {Max(s)}], lines[Max(s)])
    BY <2>3 DEF h
  <2>6. \A s \in SUBSET DOMAIN lines : s # {} => lines[Max(s)] \in Text
    BY <2>1 DEF Unfolds
  <2>7. FoldsLeft(h, lines, Excerpts, <<>>, step)
    BY <2>5, <2>6 DEF FoldsLeft
  <2>8. QED
    BY <2>4, <2>7 DEF h
<1>3. IsFoldLeft(F, Text, Excerpts, <<>>, step)
  BY <1>2 DEF IsFoldLeft
<1>4. ByElement(F, Text, Excerpts, <<>>, step)
  <2> HIDE DEF F, step
  <2>1. QED
    BY <1>1, <1>3, FoldOfAppend
<1>5. QED
  BY <1>4, EmptySeq, AppendProperties DEF ByElement

\* What SignalsQuoted is about.
LEMMA SignallingLoop ==
  /\ Signalling(<<>>) = <<>>
  /\ \A raw \in Seq(Line) : Signalling(raw) \in Block
  /\ \A raw \in Seq(Line), x \in Line :
       Signalling(Append(raw, x)) = AddSignalling(Signalling(raw), x)
<1> DEFINE step == [z \in Block \X Line |-> AddSignalling(z[1], z[2])]
           F == [raw \in Seq(Line) |-> Signalling(raw)]
           Turns(g, raw) ==
             g = [s \in SUBSET DOMAIN raw |->
                    IF s = {} THEN <<>> ELSE AddSignalling(g[s \ {Max(s)}], raw[Max(s)])]
           Chosen(raw) == CHOOSE g : Turns(g, raw)
<1>1. step \in [Block \X Line -> Block] /\ <<>> \in Block
  BY StripType, AppendProperties, EmptySeq DEF AddSignalling, Block
<1>2. ASSUME NEW raw \in Seq(Line)
      PROVE  \E g : F[raw] = g[DOMAIN raw] /\ FoldsLeft(g, raw, Block, <<>>, step)
  <2>1. PICK g \in [SUBSET DOMAIN raw -> Block] : Unfolds(g, raw, Line, Block, <<>>, step)
    <3> HIDE DEF step
    <3>1. QED
      BY <1>1, FoldLeftExists
  <2>2. Turns(g, raw)
    BY <2>1 DEF Unfolds
  <2>3. Turns(Chosen(raw), raw)
    <3> HIDE DEF Turns
    <3>1. QED
      BY <2>2
  <2>4. Signalling(raw) = Chosen(raw)[DOMAIN raw]
    BY DEF Signalling, FoldLeft, MapThenFoldSet
  <2> DEFINE h == Chosen(raw)
  <2> HIDE DEF h
  <2>5. \A s \in SUBSET DOMAIN raw :
          h[s] = IF s = {} THEN <<>> ELSE AddSignalling(h[s \ {Max(s)}], raw[Max(s)])
    BY <2>3 DEF h
  <2>6. \A s \in SUBSET DOMAIN raw : s # {} => raw[Max(s)] \in Line
    BY <2>1 DEF Unfolds
  <2>7. FoldsLeft(h, raw, Block, <<>>, step)
    BY <2>5, <2>6 DEF FoldsLeft
  <2>8. QED
    BY <2>4, <2>7 DEF h
<1>3. IsFoldLeft(F, Line, Block, <<>>, step)
  BY <1>2 DEF IsFoldLeft
<1>4. ByElement(F, Line, Block, <<>>, step)
  <2> HIDE DEF F, step
  <2>1. QED
    BY <1>1, <1>3, FoldOfAppend
<1>5. QED
  BY <1>4, EmptySeq, AppendProperties DEF ByElement

-----------------------------------------------------------------------------
(* The fingerprint *)

\* What is kept depends on the lines without their timestamps.
LEMMA KeptOfAlike ==
  ASSUME NEW raw \in Seq(Line), NEW other \in Seq(Line), Len(other) = Len(raw),
         \A i \in 1 .. Len(raw) : Strip(other[i]) = Strip(raw[i])
  PROVE  Kept(other) = Kept(raw)
<1> DEFINE Alike(n, r, o) ==
             Len(r) = n /\ Len(o) = n /\ \A i \in 1 .. n : Strip(o[i]) = Strip(r[i])
           N == {n \in Nat : \A r, o \in Seq(Line) : Alike(n, r, o) => Kept(o) = Kept(r)}
<1>1. 0 \in N
  BY EmptySeq
<1>2. ASSUME NEW n \in N PROVE n + 1 \in N
  <2>1. ASSUME NEW r \in Seq(Line), NEW o \in Seq(Line), Alike(n + 1, r, o)
        PROVE  Kept(o) = Kept(r)
    <3>1. r # <<>> /\ o # <<>>
      BY <2>1, EmptySeq
    <3>2. PICK s \in Seq(Line), x \in Line : r = Append(s, x)
      BY <3>1, SequenceEmptyOrAppend
    <3>3. PICK t \in Seq(Line), y \in Line : o = Append(t, y)
      BY <3>1, SequenceEmptyOrAppend
    <3>4. /\ Len(s) = n /\ r[n + 1] = x /\ \A i \in 1 .. n : r[i] = s[i]
          /\ Len(t) = n /\ o[n + 1] = y /\ \A i \in 1 .. n : o[i] = t[i]
      BY <2>1, <3>2, <3>3, AppendProperties, LenProperties
    <3>5. Strip(y) = Strip(x) /\ Alike(n, s, t)
      BY <2>1, <3>4
    <3>6. Kept(t) = Kept(s)
      BY <3>5
    <3>7. Kept(r) = KeepLine(Kept(s), x) /\ Kept(o) = KeepLine(Kept(t), y)
      BY <3>2, <3>3, KeptLoop
    <3>8. QED
      BY <3>5, <3>6, <3>7 DEF KeepLine
  <2>2. n + 1 \in Nat
    OBVIOUS
  <2> HIDE DEF Alike
  <2>3. QED
    BY <2>1, <2>2
<1>3. N = Nat
  <2>1. N \in SUBSET Nat
    OBVIOUS
  <2> HIDE DEF N
  <2>2. QED
    BY ONLY <1>1, <1>2, <2>1, NatSetInduction
<1>4. Len(raw) \in N /\ Alike(Len(raw), raw, other)
  BY <1>3, LenProperties
<1>5. QED
  BY <1>4

\* What is kept of a log depends on its beginning by what was kept of that.
LEMMA KeptGoesOn ==
  ASSUME NEW r \in Seq(Line), NEW o \in Seq(Line), Kept(o) = Kept(r)
  PROVE  \A t \in Seq(Line) : Kept(o \o t) = Kept(r \o t)
<1> DEFINE T == {t \in Seq(Line) : Kept(o \o t) = Kept(r \o t)}
<1>1. <<>> \in T
  BY EmptySeq, ConcatEmptySeq
<1>2. ASSUME NEW t \in T, NEW x \in Line PROVE Append(t, x) \in T
  <2>1. ASSUME NEW s \in Seq(Line)
        PROVE  s \o Append(t, x) = Append(s \o t, x) /\ s \o t \in Seq(Line)
    <3>1. s \o t \in Seq(Line) /\ <<x>> \in Seq(Line)
      BY ConcatProperties
    <3>2. Append(t, x) = t \o <<x>> /\ Append(s \o t, x) = (s \o t) \o <<x>>
      BY <3>1, AppendIsConcat
    <3>3. (s \o t) \o <<x>> = s \o (t \o <<x>>)
      BY <3>1, ConcatAssociative
    <3>4. QED
      BY <3>1, <3>2, <3>3
  <2>2. o \o t \in Seq(Line) /\ r \o t \in Seq(Line) /\ Kept(o \o t) = Kept(r \o t)
    BY <2>1
  <2>3. /\ Kept(Append(o \o t, x)) = KeepLine(Kept(o \o t), x)
        /\ Kept(Append(r \o t, x)) = KeepLine(Kept(r \o t), x)
    BY <2>2, KeptLoop
  <2>4. Append(t, x) \in Seq(Line)
    BY AppendProperties
  <2>5. QED
    BY <2>1, <2>2, <2>3, <2>4
<1>3. T = Seq(Line)
  <2>1. T \in SUBSET Seq(Line)
    OBVIOUS
  <2> HIDE DEF T
  <2>2. QED
    BY ONLY <1>1, <1>2, <2>1, SeqInduction
<1>4. QED
  BY <1>3

LEMMA KeepTwice ==
  ASSUME NEW kept \in Block, NEW line \in Line
  PROVE  KeepLine(KeepLine(kept, line), line) = KeepLine(kept, line)
<1> DEFINE text == Strip(line)
<1>1. text \in Text
  BY StripType
<1>2. Append(kept, text) # <<>> /\ Last(Append(kept, text)) = text
  BY <1>1, AppendProperties, LenProperties DEF Block, Last
<1>3. QED
  BY <1>2 DEF KeepLine

\* A line that is repeated is dropped.
LEMMA KeptOfRepeated ==
  ASSUME NEW raw \in Seq(Line), NEW i \in DOMAIN raw
  PROVE  /\ InsertAt(raw, i, raw[i]) \in Seq(Line)
         /\ Len(InsertAt(raw, i, raw[i])) = Len(raw) + 1
         /\ Kept(InsertAt(raw, i, raw[i])) = Kept(raw)
<1> DEFINE p == SubSeq(raw, 1, i - 1)
           q == SubSeq(raw, i + 1, Len(raw))
           x == raw[i]
<1>1. i \in 1 .. Len(raw) /\ Len(raw) \in Nat /\ x \in Line /\ <<x>> \in Seq(Line)
  BY LenProperties, ElementOfSeq
<1>2. \A j \in 1 .. Len(raw) : raw[j] \in Line
  BY ElementOfSeq
<1>3. p \in Seq(Line) /\ q \in Seq(Line)
  BY <1>1, <1>2, SubSeqProperties
<1>4. SubSeq(raw, 1, i) = Append(p, x)
  BY <1>1, <1>3, SubSeqRecursiveSecond, AppendIsConcat
<1>5. raw = Append(p, x) \o q
  <2>1. 1 \in 1 .. Len(raw) + 1 /\ i \in 1 - 1 .. Len(raw) /\ Len(raw) \in i .. Len(raw)
    BY <1>1
  <2>2. SubSeq(raw, 1, i) \o SubSeq(raw, i + 1, Len(raw)) = SubSeq(raw, 1, Len(raw))
    BY ONLY raw \in Seq(Line), <2>1, ConcatAdjacentSubSeq
  <2>3. QED
    BY <1>4, <2>2, SubSeqFull
<1>6. SubSeq(raw, i, Len(raw)) = <<x>> \o q
  <2>1. Len(raw) \in i .. Len(raw)
    BY <1>1
  <2>2. QED
    BY ONLY raw \in Seq(Line), <1>1, <2>1, SubSeqRecursiveFirst
<1> HIDE DEF p, q, x
<1>7. Append(p, x) \in Seq(Line) /\ Append(Append(p, x), x) \in Seq(Line)
  BY <1>1, <1>3, AppendProperties
<1>8. InsertAt(raw, i, x) = Append(Append(p, x), x) \o q
  <2>1. InsertAt(raw, i, x) = (p \o <<x>>) \o (<<x>> \o q)
    BY <1>6 DEF InsertAt, p
  <2>2. p \o <<x>> = Append(p, x) /\ Append(p, x) \o <<x>> = Append(Append(p, x), x)
    BY <1>1, <1>3, <1>7, AppendIsConcat
  <2>3. (Append(p, x) \o <<x>>) \o q = Append(p, x) \o (<<x>> \o q)
    BY <1>1, <1>3, <1>7, ConcatAssociative
  <2>4. QED
    BY <2>1, <2>2, <2>3
<1>9. Kept(Append(Append(p, x), x)) = Kept(Append(p, x))
  BY <1>1, <1>3, <1>7, KeptLoop, KeepTwice
<1>10. Kept(Append(Append(p, x), x) \o q) = Kept(Append(p, x) \o q)
  BY <1>3, <1>7, <1>9, KeptGoesOn
<1>11. /\ Append(Append(p, x), x) \o q \in Seq(Line)
       /\ Len(Append(Append(p, x), x) \o q) = Len(Append(p, x)) + 1 + Len(q)
       /\ Len(Append(p, x) \o q) = Len(Append(p, x)) + Len(q)
       /\ Len(Append(p, x)) \in Nat /\ Len(q) \in Nat
  BY <1>1, <1>3, <1>7, ConcatProperties, AppendProperties, LenProperties
<1>12. Len(Append(Append(p, x), x) \o q) = Len(raw) + 1
  BY <1>5, <1>11
<1>13. InsertAt(raw, i, x) = InsertAt(raw, i, raw[i])
  BY DEF x
<1>14. QED
  BY <1>5, <1>8, <1>10, <1>11, <1>12, <1>13

\* A log of which something is kept is not taken for an empty one.
LEMMA KeptOfBlank == \A raw \in Seq(Line) : Blank(raw) => Kept(raw) = <<>>
<1> DEFINE T == {raw \in Seq(Line) : Blank(raw) => Kept(raw) = <<>>}
<1>1. <<>> \in T
  BY EmptySeq, KeptLoop
<1>2. ASSUME NEW s \in T, NEW x \in Line PROVE Append(s, x) \in T
  <2>1. Append(s, x) \in Seq(Line)
    BY AppendProperties
  <2>2. ASSUME Blank(Append(s, x)) PROVE Kept(Append(s, x)) = <<>>
    <3>1. /\ DOMAIN s = 1 .. Len(s) /\ DOMAIN Append(s, x) = 1 .. Len(s) + 1 /\ Len(s) \in Nat
          /\ \A i \in 1 .. Len(s) : Append(s, x)[i] = s[i]
          /\ Append(s, x)[Len(s) + 1] = x
      BY <2>1, AppendProperties, LenProperties
    <3>2. Whole(x) = <<>> /\ Blank(s)
      BY <2>2, <3>1 DEF Blank
    <3>3. Strip(x) = <<>>
      <4>1. x.text \in Text
        BY DEF Line
      <4>2. CASE x.stamp = NoStamp
        BY <3>2, <4>2 DEF Whole, Strip
      <4>3. CASE x.stamp # NoStamp
        <5>1. <<x.stamp>> \o x.text = <<>>
          BY <3>2, <4>3 DEF Whole
        <5>2. QED
          BY <4>1, <5>1 DEF Text
      <4>4. QED
        BY <4>2, <4>3
    <3>4. QED
      BY <3>2, <3>3, KeptLoop DEF KeepLine
  <2>3. QED
    BY <2>1, <2>2
<1>3. T = Seq(Line)
  <2>1. T \in SUBSET Seq(Line)
    OBVIOUS
  <2> HIDE DEF T
  <2>2. QED
    BY ONLY <1>1, <1>2, <2>1, SeqInduction
<1>4. QED
  BY <1>3

LEMMA KeptDecides ==
  ASSUME NEW raw \in Seq(Line), NEW other \in Seq(Line), Kept(raw) # <<>>, Kept(other) = Kept(raw)
  PROVE  preprocess_logs(other, ErrorState) = preprocess_logs(raw, ErrorState)
<1>1. ~Blank(raw) /\ ~Blank(other)
  BY KeptOfBlank
<1>2. Cleaned(other) = Cleaned(raw)
  BY DEF Cleaned
<1>3. QED
  BY <1>1, <1>2 DEF preprocess_logs

\* Written at other times, every line is the same once it is stripped.
LEMMA RestampedLines ==
  ASSUME NEW raw \in Seq(Line), NEW other \in Restamped(raw)
  PROVE  /\ other \in Seq(Line) /\ Len(other) = Len(raw)
         /\ \A i \in 1 .. Len(raw) : Strip(other[i]) = Strip(raw[i])
<1>1. PICK time \in [DOMAIN raw -> Stamps] :
        other = [i \in DOMAIN raw |-> IF raw[i].stamp = NoStamp THEN raw[i]
                                      ELSE [raw[i] EXCEPT !.stamp = time[i]]]
  BY DEF Restamped
<1>2. /\ DOMAIN raw = 1 .. Len(raw) /\ Len(raw) \in Nat
      /\ \A i \in 1 .. Len(raw) : raw[i] \in Line
  BY LenProperties, ElementOfSeq
<1>3. ASSUME NEW i \in 1 .. Len(raw)
      PROVE  other[i] \in Line /\ Strip(other[i]) = Strip(raw[i])
  <2>1. CASE raw[i].stamp = NoStamp
    BY <1>1, <1>2, <2>1
  <2>2. CASE raw[i].stamp # NoStamp
    <3>1. other[i] = [raw[i] EXCEPT !.stamp = time[i]] /\ time[i] \in Stamps
      BY <1>1, <1>2, <2>2
    <3>2. other[i].stamp = time[i] /\ other[i].text = raw[i].text /\ other[i] \in Line
      BY <1>2, <3>1 DEF Line
    <3>3. QED
      BY <2>2, <3>1, <3>2, TriageAssumption DEF Strip
  <2>3. QED
    BY <2>1, <2>2
<1>4. other \in [1 .. Len(raw) -> Line]
  BY <1>1, <1>2, <1>3
<1>5. other \in Seq(Line) /\ Len(other) = Len(raw)
  BY <1>2, <1>4, SeqDef
<1>6. QED
  BY <1>3, <1>5

\* The tail that is fetched.
First(s) == IF Len(s) > TailLines THEN Len(s) - TailLines + 1 ELSE 1

LEMMA LastLinesType ==
  ASSUME NEW raw \in Seq(Line)
  PROVE  /\ LastLines(raw) \in Seq(Line)
         /\ First(raw) \in Nat \ {0} /\ First(raw) <= Len(raw) + 1
         /\ Len(LastLines(raw)) = Len(raw) + 1 - First(raw)
         /\ \A i \in 1 .. Len(LastLines(raw)) : LastLines(raw)[i] = raw[First(raw) + i - 1]
         /\ Len(raw) <= TailLines => LastLines(raw) = raw
<1>1. /\ Len(raw) \in Nat /\ First(raw) \in Nat \ {0} /\ First(raw) <= Len(raw) + 1
      /\ Len(raw) <= TailLines => First(raw) = 1
  BY TriageAssumption, LenProperties DEF First
<1>2. LastLines(raw) = SubSeq(raw, First(raw), Len(raw))
  BY DEF LastLines, First
<1> DEFINE from == First(raw)
<1> HIDE DEF from
<1>3. \A i \in from .. Len(raw) : raw[i] \in Line
  BY <1>1, ElementOfSeq DEF from
<1>4. /\ SubSeq(raw, from, Len(raw)) \in Seq(Line)
      /\ Len(SubSeq(raw, from, Len(raw))) = Len(raw) + 1 - from
      /\ \A i \in 1 .. Len(raw) + 1 - from :
           SubSeq(raw, from, Len(raw))[i] = raw[from + i - 1]
  <2>1. from \in Int /\ Len(raw) \in Int /\ from <= Len(raw) + 1
    BY <1>1 DEF from
  <2>2. /\ SubSeq(raw, from, Len(raw)) \in Seq(Line)
        /\ Len(SubSeq(raw, from, Len(raw))) =
             IF from <= Len(raw) THEN Len(raw) - from + 1 ELSE 0
        /\ \A i \in 1 .. Len(raw) - from + 1 :
             SubSeq(raw, from, Len(raw))[i] = raw[from + i - 1]
    BY <1>3, <2>1, SubSeqProperties
  <2>3. QED
    BY <2>1, <2>2
<1>5. Len(raw) <= TailLines => LastLines(raw) = raw
  BY <1>1, <1>2, SubSeqFull
<1>6. QED
  BY <1>1, <1>2, <1>4, <1>5 DEF from

LEMMA RestampedAlike ==
  ASSUME NEW raw \in Seq(Line), NEW other \in Restamped(raw)
  PROVE  LastLines(other) \in Seq(Line) /\ Kept(LastLines(other)) = Kept(LastLines(raw))
<1>1. /\ other \in Seq(Line) /\ Len(other) = Len(raw)
      /\ \A i \in 1 .. Len(raw) : Strip(other[i]) = Strip(raw[i])
  BY RestampedLines
<1>2. First(other) = First(raw) /\ Len(raw) \in Nat
  BY <1>1, LenProperties DEF First
<1> DEFINE from == First(raw)
           a == LastLines(raw)
           b == LastLines(other)
<1>3. /\ a \in Seq(Line) /\ Len(a) = Len(raw) + 1 - from
      /\ \A i \in 1 .. Len(a) : a[i] = raw[from + i - 1]
      /\ from \in Nat \ {0} /\ from <= Len(raw) + 1
  BY LastLinesType
<1>4. /\ b \in Seq(Line) /\ Len(b) = Len(raw) + 1 - from
      /\ \A i \in 1 .. Len(b) : b[i] = other[from + i - 1]
  BY <1>1, <1>2, LastLinesType
<1> HIDE DEF from, a, b
<1>5. \A i \in 1 .. Len(a) : Strip(b[i]) = Strip(a[i])
  <2>1. \A i \in 1 .. Len(a) : from + i - 1 \in 1 .. Len(raw)
    BY <1>2, <1>3
  <2>2. QED
    BY <1>1, <1>3, <1>4, <2>1
<1>6. b \in Seq(Line) /\ Kept(b) = Kept(a)
  BY <1>3, <1>4, <1>5, KeptOfAlike
<1>7. QED
  BY <1>6 DEF a, b

LEMMA RepeatedAlike ==
  ASSUME NEW raw \in Seq(Line), Len(raw) < TailLines, NEW other \in Repeated(raw)
  PROVE  LastLines(other) \in Seq(Line) /\ Kept(LastLines(other)) = Kept(LastLines(raw))
<1>1. other \in Seq(Line) /\ Len(other) = Len(raw) + 1 /\ Kept(other) = Kept(raw)
  BY KeptOfRepeated DEF Repeated
<1>2. Len(raw) <= TailLines /\ Len(other) <= TailLines
  BY <1>1, TriageAssumption, LenProperties
<1>3. QED
  BY <1>1, <1>2, LastLinesType

LEMMA SameFingerprint == log \in Seq(Line) => SamePatternSameFingerprint
<1> SUFFICES ASSUME log \in Seq(Line), Kept(LastLines(log)) # <<>>,
                    NEW other, \/ other \in Restamped(log)
                               \/ Len(log) < TailLines /\ other \in Repeated(log)
             PROVE  make_fingerprint(preprocess_logs(LastLines(other), ErrorState), ErrorState) =
                    make_fingerprint(preprocess_logs(LastLines(log), ErrorState), ErrorState)
  BY DEF SamePatternSameFingerprint
<1>1. LastLines(other) \in Seq(Line) /\ Kept(LastLines(other)) = Kept(LastLines(log))
  BY RestampedAlike, RepeatedAlike
<1>2. QED
  BY <1>1, LastLinesType, KeptDecides

-----------------------------------------------------------------------------
(* Signals and the budget *)

\* text starts with words; words stand somewhere in text.
Begins(text, words) == \E b \in Excerpts : text = words \o b
Inside(text, words) == \E a, b \in Excerpts : text = (a \o words) \o b

LEMMA TextInExcerpts == Text \subseteq Excerpts /\ <<Newline>> \in Excerpts /\ <<>> \in Excerpts
  BY SeqMonotonic, EmptySeq DEF Text, Excerpts

LEMMA BeginsTwice ==
  ASSUME NEW text, NEW words \in Excerpts, NEW first \in Excerpts,
         Begins(text, words), Begins(words, first)
  PROVE  Begins(text, first)
<1>1. PICK b \in Excerpts, c \in Excerpts : text = (first \o c) \o b
  BY DEF Begins
<1>2. text = first \o (c \o b) /\ c \o b \in Excerpts
  BY <1>1, ConcatAssociative, ConcatProperties DEF Excerpts
<1>3. QED
  BY <1>2 DEF Begins

LEMMA InsideLonger ==
  ASSUME NEW text, NEW first \in Excerpts, NEW words \in Excerpts,
         Begins(text, first), Inside(first, words)
  PROVE  Inside(text, words)
<1>1. PICK a \in Excerpts, b \in Excerpts, c \in Excerpts : text = ((a \o words) \o b) \o c
  BY DEF Begins, Inside
<1>2. a \o words \in Excerpts /\ b \o c \in Excerpts
  BY ConcatProperties DEF Excerpts
<1>3. ((a \o words) \o b) \o c = (a \o words) \o (b \o c)
  <2> DEFINE d == a \o words
  <2>1. d \in Excerpts
    BY <1>2
  <2> HIDE DEF d
  <2>2. (d \o b) \o c = d \o (b \o c)
    BY <2>1, ConcatAssociative DEF Excerpts
  <2>3. QED
    BY <2>2 DEF d
<1>4. QED
  BY <1>1, <1>2, <1>3 DEF Inside

LEMMA InsideIsQuoted ==
  ASSUME NEW text \in Excerpts, NEW words \in Excerpts, words # <<>>, Inside(text, words)
  PROVE  Quotes(text, words)
<1>1. PICK a \in Excerpts, b \in Excerpts : text = (a \o words) \o b
  BY DEF Inside
<1> DEFINE i == Len(a) + 1
           j == Len(a) + Len(words)
<1>2. Len(a) \in Nat /\ Len(words) \in Nat \ {0} /\ Len(b) \in Nat
  BY LenProperties, EmptySeq DEF Excerpts
<1>3. /\ a \o words \in Excerpts /\ Len(a \o words) = j
      /\ \A k \in 1 .. Len(words) : (a \o words)[Len(a) + k] = words[k]
  BY <1>2, ConcatProperties DEF Excerpts
<1>4. /\ Len(text) = j + Len(b) /\ DOMAIN text = 1 .. Len(text)
      /\ \A k \in 1 .. j : text[k] = (a \o words)[k]
  BY <1>1, <1>2, <1>3, ConcatProperties, LenProperties DEF Excerpts
<1>5. i \in DOMAIN text /\ j \in DOMAIN text
  BY <1>2, <1>4
<1>6. \A k \in i .. j : text[k] \in Words \cup {Newline, Truncated}
  BY <1>2, <1>4, ElementOfSeq DEF Excerpts
<1>7. /\ SubSeq(text, i, j) \in Excerpts /\ Len(SubSeq(text, i, j)) = Len(words)
      /\ \A k \in 1 .. Len(words) : SubSeq(text, i, j)[k] = text[i + k - 1]
  BY <1>2, <1>6, SubSeqProperties DEF Excerpts
<1>8. ASSUME NEW k \in 1 .. Len(words) PROVE SubSeq(text, i, j)[k] = words[k]
  <2>1. i + k - 1 = Len(a) + k /\ Len(a) + k \in 1 .. j
    BY <1>2
  <2>2. SubSeq(text, i, j)[k] = text[Len(a) + k]
    BY <1>7, <2>1
  <2>3. text[Len(a) + k] = (a \o words)[Len(a) + k]
    BY <1>4, <2>1
  <2>4. QED
    BY <1>3, <2>2, <2>3
<1>9. SubSeq(text, i, j) = words
  BY <1>7, <1>8, SeqEqual DEF Excerpts
<1>10. QED
  BY <1>5, <1>9 DEF Quotes

\* A budget that a beginning fits into keeps it.
LEMMA UpToKeeps ==
  ASSUME NEW X, NEW a \in Seq(X), NEW b \in Seq(X), NEW n \in Nat, Len(a) <= n
  PROVE  \E c \in Seq(X) : UpTo(a \o b, n) = a \o c
<1> DEFINE s == a \o b
           m == IF Len(s) < n THEN Len(s) ELSE n
           c == SubSeq(b, 1, m - Len(a))
<1>1. /\ s \in Seq(X) /\ Len(a) \in Nat /\ Len(b) \in Nat /\ Len(s) = Len(a) + Len(b)
      /\ \A i \in 1 .. Len(s) : s[i] = IF i <= Len(a) THEN a[i] ELSE b[i - Len(a)]
  BY ConcatProperties, LenProperties
<1>2. m \in Len(a) .. Len(s)
  BY <1>1
<1>3. /\ UpTo(s, n) = SubSeq(s, 1, m)
      /\ SubSeq(s, 1, m) \in Seq(X) /\ Len(SubSeq(s, 1, m)) = m
      /\ \A i \in 1 .. m : SubSeq(s, 1, m)[i] = s[i]
  <2>1. \A i \in 1 .. m : s[i] \in X
    BY <1>1, <1>2, ElementOfSeq
  <2>2. m \in Nat /\ m - 1 + 1 = m
    BY <1>1, <1>2
  <2> HIDE DEF m, s
  <2>3. /\ SubSeq(s, 1, m) \in Seq(X) /\ Len(SubSeq(s, 1, m)) = m
        /\ \A i \in 1 .. m : SubSeq(s, 1, m)[i] = s[i]
    BY <2>1, <2>2, SubSeqProperties
  <2>4. QED
    BY <2>3 DEF UpTo, m
<1>4. /\ c \in Seq(X) /\ Len(c) = m - Len(a)
      /\ \A i \in 1 .. m - Len(a) : c[i] = b[i]
  <2>1. m - Len(a) \in 0 .. Len(b)
    BY <1>1, <1>2
  <2>2. \A i \in 1 .. m - Len(a) : b[i] \in X
    BY <2>1, ElementOfSeq, <1>1
  <2> HIDE DEF m
  <2>3. QED
    BY <1>1, <2>1, <2>2, SubSeqProperties
<1>5. /\ a \o c \in Seq(X) /\ Len(a \o c) = m
      /\ \A i \in 1 .. m : (a \o c)[i] = IF i <= Len(a) THEN a[i] ELSE c[i - Len(a)]
  <2> HIDE DEF c, m
  <2>1. Len(a) + Len(c) = m
    BY <1>1, <1>2, <1>4
  <2>2. QED
    BY <1>4, <2>1, ConcatProperties
<1>6. ASSUME NEW i \in 1 .. m PROVE SubSeq(s, 1, m)[i] = (a \o c)[i]
  <2> HIDE DEF c, m, s
  <2>1. SubSeq(s, 1, m)[i] = s[i] /\ i \in 1 .. Len(s)
    BY <1>1, <1>2, <1>3
  <2>2. s[i] = IF i <= Len(a) THEN a[i] ELSE b[i - Len(a)]
    BY <1>1, <2>1
  <2>3. i > Len(a) => i - Len(a) \in 1 .. m - Len(a)
    BY <1>1, <1>2
  <2>4. i > Len(a) => c[i - Len(a)] = b[i - Len(a)]
    BY <1>4, <2>3
  <2>5. (a \o c)[i] = IF i <= Len(a) THEN a[i] ELSE c[i - Len(a)]
    BY <1>5
  <2>6. i \in Nat /\ Len(a) \in Nat
    BY <1>1, <1>2
  <2>7. CASE i <= Len(a)
    BY <2>1, <2>2, <2>5, <2>7
  <2>8. CASE i > Len(a)
    <3>1. ~(i <= Len(a))
      BY <2>6, <2>8
    <3>2. QED
      BY <2>1, <2>2, <2>4, <2>5, <2>8, <3>1
  <2>9. i <= Len(a) \/ i > Len(a)
    BY <2>6
  <2>10. QED
    BY ONLY <2>7, <2>8, <2>9
<1>7. SubSeq(s, 1, m) = a \o c
  <2> HIDE DEF c, m, s
  <2>1. QED
    BY <1>3, <1>5, <1>6, SeqEqual
<1>8. QED
  BY <1>3, <1>4, <1>7

\* Joining more lines goes on from what was joined, and ends in the last line.
LEMMA JoinedBegins ==
  ASSUME NEW s \in Block, NEW x \in Text
  PROVE  /\ Begins(Joined(Append(s, x)), Joined(s)) /\ Inside(Joined(Append(s, x)), x)
         /\ Len(Joined(Append(s, x))) =
              IF Len(Joined(s)) = 0 THEN Len(x) ELSE Len(Joined(s)) + 1 + Len(x)
<1> DEFINE joined == Joined(s)
           longer == Joined(Append(s, x))
<1>1. joined \in Excerpts /\ x \in Excerpts /\ longer = JoinLine(joined, x)
  BY JoinedLoop, TextInExcerpts DEF Block
<1>2. (joined = <<>> <=> Len(joined) = 0) /\ Len(joined) \in Nat /\ Len(x) \in Nat
  BY <1>1, EmptySeq, LenProperties DEF Excerpts
<1> HIDE DEF joined, longer
<1>3. CASE joined = <<>>
  <2>1. longer = x
    BY <1>1, <1>3 DEF JoinLine
  <2>2. x = <<>> \o x /\ x = (<<>> \o x) \o <<>>
    BY <1>1, ConcatEmptySeq DEF Excerpts
  <2>3. Begins(longer, joined) /\ Inside(longer, x)
    BY <1>1, <1>3, <2>1, <2>2, TextInExcerpts DEF Begins, Inside
  <2>4. QED
    BY <1>2, <1>3, <2>1, <2>3 DEF joined, longer
<1>4. CASE joined # <<>>
  <2>1. longer = (joined \o <<Newline>>) \o x
    BY <1>1, <1>4 DEF JoinLine
  <2>2. joined \o <<Newline>> \in Excerpts /\ <<Newline>> \o x \in Excerpts /\ longer \in Excerpts
    BY <1>1, <2>1, TextInExcerpts, ConcatProperties DEF Excerpts
  <2>3. longer = joined \o (<<Newline>> \o x)
    BY <1>1, <2>1, TextInExcerpts, ConcatAssociative DEF Excerpts
  <2>4. longer = ((joined \o <<Newline>>) \o x) \o <<>>
    BY <2>1, <2>2, ConcatEmptySeq DEF Excerpts
  <2>5. Begins(longer, joined) /\ Inside(longer, x)
    BY <2>2, <2>3, <2>4, TextInExcerpts DEF Begins, Inside
  <2>6. Len(longer) = Len(joined) + 1 + Len(x)
    <3>1. Len(<<Newline>>) = 1
      OBVIOUS
    <3>2. Len(joined \o <<Newline>>) = Len(joined) + 1
      BY <1>1, <3>1, TextInExcerpts, ConcatProperties DEF Excerpts
    <3>3. Len(longer) = Len(joined \o <<Newline>>) + Len(x)
      BY <1>1, <2>1, <2>2, ConcatProperties DEF Excerpts
    <3>4. QED
      BY <3>2, <3>3
  <2>7. QED
    BY <1>2, <1>4, <2>5, <2>6 DEF joined, longer
<1>5. QED
  BY <1>3, <1>4

LEMMA LinesInside == \A lines \in Block : \A j \in 1 .. Len(lines) : Inside(Joined(lines), lines[j])
<1> DEFINE All(lines) == \A j \in 1 .. Len(lines) : Inside(Joined(lines), lines[j])
           T == {lines \in Block : All(lines)}
<1>1. <<>> \in T
  BY EmptySeq DEF Block
<1>2. ASSUME NEW s \in T, NEW x \in Text PROVE Append(s, x) \in T
  <2>1. /\ Append(s, x) \in Block /\ Len(Append(s, x)) = Len(s) + 1 /\ Len(s) \in Nat
        /\ \A j \in 1 .. Len(s) : Append(s, x)[j] = s[j] /\ s[j] \in Text
        /\ Append(s, x)[Len(s) + 1] = x
    BY AppendProperties, LenProperties, ElementOfSeq DEF Block
  <2>2. /\ Begins(Joined(Append(s, x)), Joined(s)) /\ Inside(Joined(Append(s, x)), x)
        /\ Joined(s) \in Excerpts
    BY JoinedBegins, JoinedLoop DEF Block
  <2>3. ASSUME NEW j \in 1 .. Len(s) PROVE Inside(Joined(Append(s, x)), s[j])
    <3>1. Inside(Joined(s), s[j]) /\ s[j] \in Excerpts
      BY <2>1, TextInExcerpts
    <3>2. QED
      BY <2>2, <3>1, InsideLonger
  <2>4. ASSUME NEW j \in 1 .. Len(Append(s, x))
        PROVE  Inside(Joined(Append(s, x)), Append(s, x)[j])
    <3>1. j \in 1 .. Len(s) \/ j = Len(s) + 1
      BY <2>1
    <3>2. QED
      BY <2>1, <2>2, <2>3, <3>1
  <2>5. QED
    BY <2>1, <2>4
<1>3. T = Seq(Text)
  <2>1. T \in SUBSET Seq(Text)
    BY DEF Block
  <2> HIDE DEF T
  <2>2. QED
    BY ONLY <1>1, <1>2, <2>1, SeqInduction
<1>4. QED
  BY <1>3 DEF Block

LEMMA JoinedBeginsAll ==
  ASSUME NEW s \in Block
  PROVE  \A t \in Block : Begins(Joined(s \o t), Joined(s))
<1> DEFINE T == {t \in Block : Begins(Joined(s \o t), Joined(s))}
<1>1. <<>> \in T
  <2>1. s \o <<>> = s /\ <<>> \in Block
    BY ConcatEmptySeq, EmptySeq DEF Block
  <2>2. Joined(s) = Joined(s) \o <<>>
    BY JoinedLoop, ConcatEmptySeq DEF Block, Excerpts
  <2>3. Begins(Joined(s), Joined(s))
    BY <2>2, TextInExcerpts DEF Begins
  <2>4. QED
    BY <2>1, <2>3
<1>2. ASSUME NEW t \in T, NEW x \in Text PROVE Append(t, x) \in T
  <2>1. s \o t \in Block /\ <<x>> \in Block /\ Append(t, x) \in Block
    BY ConcatProperties, AppendProperties DEF Block
  <2>2. s \o Append(t, x) = Append(s \o t, x)
    <3>1. Append(t, x) = t \o <<x>> /\ Append(s \o t, x) = (s \o t) \o <<x>>
      BY <2>1, AppendIsConcat DEF Block
    <3>2. (s \o t) \o <<x>> = s \o (t \o <<x>>)
      BY <2>1, ConcatAssociative DEF Block
    <3>3. QED
      BY <3>1, <3>2
  <2>3. Begins(Joined(Append(s \o t, x)), Joined(s \o t)) /\ Begins(Joined(s \o t), Joined(s))
    BY <2>1, JoinedBegins
  <2>4. Joined(s \o t) \in Excerpts /\ Joined(s) \in Excerpts
    BY <2>1, JoinedLoop DEF Block
  <2>5. Begins(Joined(Append(s \o t, x)), Joined(s))
    BY <2>3, <2>4, BeginsTwice
  <2>6. QED
    BY <2>1, <2>2, <2>5
<1>3. T = Seq(Text)
  <2>1. T \in SUBSET Seq(Text)
    BY DEF Block
  <2> HIDE DEF T
  <2>2. QED
    BY ONLY <1>1, <1>2, <2>1, SeqInduction
<1>4. QED
  BY <1>3 DEF Block

\* Lines that come first and fit into the budget are at the beginning of the
\* excerpt, whether or not what comes behind them is cut off.
LEMMA ExcerptBegins ==
  ASSUME NEW first \in Block, NEW rest \in Block, Fits(first)
  PROVE  Begins(Excerpt(first \o rest), Joined(first)) /\ Excerpt(first \o rest) \in Excerpts
<1>1. MaxLines \in Nat /\ MaxChars \in Nat
  BY LogAssumption
<1>2. PICK more \in Block : UpTo(first \o rest, MaxLines) = first \o more
  BY <1>1, UpToKeeps DEF Fits, Block
<1> DEFINE result == Joined(first \o more)
<1>3. first \o more \in Block
  BY ConcatProperties DEF Block
<1>4. result \in Excerpts /\ Joined(first) \in Excerpts
  BY <1>3, JoinedLoop DEF Block
<1>5. PICK b \in Excerpts : result = Joined(first) \o b
  BY JoinedBeginsAll DEF Begins
<1>6. PICK c \in Excerpts : UpTo(result, MaxChars) = Joined(first) \o c
  <2> HIDE DEF result
  <2>1. Len(Joined(first)) <= MaxChars
    BY DEF Fits
  <2>2. \E c \in Excerpts : UpTo(Joined(first) \o b, MaxChars) = Joined(first) \o c
    BY <1>1, <1>4, <2>1, UpToKeeps DEF Excerpts
  <2>3. QED
    BY <1>5, <2>2
<1>7. Excerpt(first \o rest) = IF Len(result) > MaxChars
                               THEN UpTo(result, MaxChars) \o <<Newline, Truncated>> ELSE result
  BY <1>2 DEF Excerpt
<1>8. CASE Len(result) > MaxChars
  <2>1. <<Newline, Truncated>> \in Excerpts
    BY DEF Excerpts
  <2>2. /\ c \o <<Newline, Truncated>> \in Excerpts
        /\ (Joined(first) \o c) \o <<Newline, Truncated>> =
             Joined(first) \o (c \o <<Newline, Truncated>>)
    BY <1>4, <2>1, ConcatAssociative, ConcatProperties DEF Excerpts
  <2>3. Excerpt(first \o rest) = Joined(first) \o (c \o <<Newline, Truncated>>)
    BY <1>6, <1>7, <1>8, <2>2
  <2>4. Joined(first) \o (c \o <<Newline, Truncated>>) \in Excerpts
    BY <1>4, <2>2, ConcatProperties DEF Excerpts
  <2>5. QED
    BY <2>2, <2>3, <2>4 DEF Begins
<1>9. CASE ~(Len(result) > MaxChars)
  BY <1>4, <1>5, <1>7, <1>9 DEF Begins
<1>10. QED
  BY <1>8, <1>9

-----------------------------------------------------------------------------
(* The lines with a signal, with and without repetitions *)

\* Leaving out what repeats the line before loses no signal and saves room.
SignalsKept(raw) ==
  LET all == Signalling(raw)
      kept == SignalLines(Kept(raw))
  IN /\ Len(kept) <= Len(all)
     /\ Len(Joined(kept)) <= Len(Joined(all))
     /\ \A i \in 1 .. Len(all) : all[i] # <<>> /\ \E j \in 1 .. Len(kept) : kept[j] = all[i]

\* In a log that ends in the line x.
LEMMA SignalsStillKept ==
  ASSUME NEW raw \in Seq(Line), NEW x \in Line, SignalsKept(raw)
  PROVE  SignalsKept(Append(raw, x))
<1> DEFINE text == Strip(x)
           all == Signalling(raw)
           block == Kept(raw)
           kept == SignalLines(block)
           all2 == Signalling(Append(raw, x))
           kept2 == SignalLines(Kept(Append(raw, x)))
<1>1. /\ text \in Text /\ block \in Block /\ all \in Block /\ kept \in Block
      /\ Kept(Append(raw, x)) = KeepLine(block, x)
      /\ all2 = AddSignalling(all, x)
  BY StripType, KeptLoop, SignallingLoop, SignalLinesLoop DEF Block
<1>2. /\ Len(kept) \in Nat /\ Len(all) \in Nat /\ Len(Joined(kept)) \in Nat
      /\ Len(Joined(all)) \in Nat /\ Len(text) \in Nat
  BY <1>1, JoinedLoop, LenProperties DEF Block, Excerpts, Text
<1>3. SignalLines(Append(block, text)) = IF IsSignal(text) THEN Append(kept, text) ELSE kept
  BY <1>1, SignalLinesLoop DEF AddSignal, Block
<1>4. /\ Len(kept) <= Len(all) /\ Len(Joined(kept)) <= Len(Joined(all))
      /\ \A i \in 1 .. Len(all) : all[i] # <<>> /\ \E j \in 1 .. Len(kept) : kept[j] = all[i]
  BY DEF SignalsKept
<1>5. /\ Len(Append(kept, text)) = Len(kept) + 1 /\ Len(Append(all, text)) = Len(all) + 1
      /\ \A j \in 1 .. Len(kept) : Append(kept, text)[j] = kept[j]
      /\ \A i \in 1 .. Len(all) : Append(all, text)[i] = all[i]
      /\ Append(kept, text)[Len(kept) + 1] = text /\ Append(all, text)[Len(all) + 1] = text
  BY <1>1, AppendProperties DEF Block
<1>6. /\ Len(Joined(Append(kept, text))) =
           IF Len(Joined(kept)) = 0 THEN Len(text) ELSE Len(Joined(kept)) + 1 + Len(text)
      /\ Len(Joined(Append(all, text))) =
           IF Len(Joined(all)) = 0 THEN Len(text) ELSE Len(Joined(all)) + 1 + Len(text)
  BY <1>1, JoinedBegins
<1> HIDE DEF text, all, block, kept, all2, kept2
<1>7. CASE IsSignal(text) /\ ~Mentions(text, Noises)
  <2>1. all2 = Append(all, text) /\ text # <<>>
    BY <1>1, <1>7 DEF AddSignalling, text, IsSignal, Mentions
  <2>2. CASE block # <<>> /\ text = Last(block)
    <3>1. kept2 = kept
      BY <1>1, <2>2 DEF KeepLine, text, kept2, kept
    <3>2. PICK older \in Block : block = Append(older, text)
      <4>1. PICK older \in Seq(Text), last \in Text : block = Append(older, last)
        BY <1>1, <2>2, SequenceEmptyOrAppend DEF Block
      <4>2. Last(block) = last
        BY <4>1, AppendProperties, LenProperties DEF Last
      <4>3. QED
        BY <2>2, <4>1, <4>2 DEF Block
    <3>3. kept = Append(SignalLines(older), text) /\ SignalLines(older) \in Block
      BY <1>1, <1>7, <3>2, SignalLinesLoop DEF AddSignal, Block, kept
    <3>4. \E j \in 1 .. Len(kept) : kept[j] = text
      BY <1>1, <3>3, AppendProperties, LenProperties DEF Block
    <3>5. Len(kept2) <= Len(all2) /\ Len(Joined(kept2)) <= Len(Joined(all2))
      BY <1>2, <1>4, <1>5, <1>6, <2>1, <3>1
    <3>6. ASSUME NEW i \in 1 .. Len(all2)
          PROVE  all2[i] # <<>> /\ \E j \in 1 .. Len(kept2) : kept2[j] = all2[i]
      <4>1. i \in 1 .. Len(all) \/ i = Len(all) + 1
        BY <1>2, <1>5, <2>1
      <4>2. QED
        BY <1>4, <1>5, <2>1, <3>1, <3>4, <4>1
    <3>7. QED
      BY <3>5, <3>6 DEF SignalsKept, all2, kept2
  <2>3. CASE ~(block # <<>> /\ text = Last(block))
    <3>1. kept2 = Append(kept, text)
      BY <1>1, <1>3, <1>7, <2>1, <2>3 DEF KeepLine, text, kept2
    <3>2. Len(kept2) <= Len(all2) /\ Len(Joined(kept2)) <= Len(Joined(all2))
      BY <1>2, <1>4, <1>5, <1>6, <2>1, <3>1
    <3>3. ASSUME NEW i \in 1 .. Len(all2)
          PROVE  all2[i] # <<>> /\ \E j \in 1 .. Len(kept2) : kept2[j] = all2[i]
      <4>1. CASE i \in 1 .. Len(all)
        <5>1. PICK j \in 1 .. Len(kept) : kept[j] = all[i]
          BY <1>4, <4>1
        <5>2. j \in 1 .. Len(kept2) /\ kept2[j] = kept[j]
          BY <1>2, <1>5, <3>1
        <5>3. QED
          BY <1>4, <1>5, <2>1, <4>1, <5>1, <5>2
      <4>2. CASE i = Len(all) + 1
        <5>1. Len(kept) + 1 \in 1 .. Len(kept2) /\ kept2[Len(kept) + 1] = text
          BY <1>2, <1>5, <3>1
        <5>2. QED
          BY <1>5, <2>1, <4>2, <5>1
      <4>3. QED
        BY <1>2, <1>5, <2>1, <4>1, <4>2
    <3>4. QED
      BY <3>2, <3>3 DEF SignalsKept, all2, kept2
  <2>4. QED
    BY <2>2, <2>3
<1>8. CASE ~(IsSignal(text) /\ ~Mentions(text, Noises))
  <2>1. all2 = all
    BY <1>1, <1>8 DEF AddSignalling, text
  <2>2. kept2 = kept
    BY <1>1, <1>3, <1>8 DEF KeepLine, text, kept2, kept
  <2>3. QED
    BY <1>4, <2>1, <2>2 DEF SignalsKept, all2, kept2
<1>9. QED
  BY <1>7, <1>8

LEMMA SignalsAreKept == \A raw \in Seq(Line) : SignalsKept(raw)
<1> DEFINE T == {raw \in Seq(Line) : SignalsKept(raw)}
<1>1. <<>> \in T
  <2>1. Signalling(<<>>) = <<>> /\ SignalLines(Kept(<<>>)) = <<>>
    BY KeptLoop, SignallingLoop, SignalLinesLoop
  <2>2. Len(Joined(<<>>)) = 0 /\ <<>> \in Seq(Line)
    BY JoinedLoop, EmptySeq
  <2>3. QED
    BY <2>1, <2>2, EmptySeq DEF SignalsKept
<1>2. ASSUME NEW s \in T, NEW x \in Line PROVE Append(s, x) \in T
  BY SignalsStillKept, AppendProperties
<1>3. T = Seq(Line)
  <2>1. T \in SUBSET Seq(Line)
    OBVIOUS
  <2> HIDE DEF T
  <2>2. QED
    BY ONLY <1>1, <1>2, <2>1, SeqInduction
<1>4. QED
  BY <1>3

LEMMA AllSignalsQuoted == log \in Seq(Line) => SignalsQuoted
<1> DEFINE raw == LastLines(log)
           lines == Signalling(raw)
           block == Kept(raw)
           kept == SignalLines(block)
           text == preprocess_logs(raw, ErrorState)
<1> SUFFICES ASSUME log \in Seq(Line), Fits(lines), NEW i \in DOMAIN lines
             PROVE  Quotes(text, lines[i])
  BY DEF SignalsQuoted
<1>1. /\ raw \in Seq(Line) /\ lines \in Block /\ block \in Block /\ kept \in Block /\ OtherLines(block) \in Block
      /\ DOMAIN lines = 1 .. Len(lines) /\ Len(lines) \in Nat /\ Len(kept) \in Nat
      /\ Len(Joined(lines)) \in Nat /\ Len(Joined(kept)) \in Nat
  BY LastLinesType, KeptLoop, SignallingLoop, SignalLinesLoop, OtherLinesLoop, JoinedLoop,
     LenProperties DEF Block, Excerpts
<1>2. /\ Len(kept) <= Len(lines) /\ Len(Joined(kept)) <= Len(Joined(lines))
      /\ lines[i] # <<>> /\ \E j \in 1 .. Len(kept) : kept[j] = lines[i]
  BY <1>1, SignalsAreKept DEF SignalsKept
<1>3. PICK j \in 1 .. Len(kept) : kept[j] = lines[i]
  BY <1>2
<1>4. Fits(kept)
  BY <1>1, <1>2, LogAssumption DEF Fits
<1>5. block # <<>>
  BY <1>3, SignalLinesLoop, EmptySeq
<1>6. text = Excerpt(kept \o OtherLines(block))
  <2>1. ~Blank(raw)
    BY <1>1, <1>5, KeptOfBlank
  <2>2. QED
    BY <1>5, <2>1 DEF preprocess_logs, Cleaned, SignalsFirst
<1>7. lines[i] \in Text /\ lines[i] \in Excerpts
  BY <1>1, ElementOfSeq, TextInExcerpts DEF Block
<1> HIDE DEF raw, lines, block, kept, text
<1>8. Begins(text, Joined(kept)) /\ text \in Excerpts /\ Joined(kept) \in Excerpts
  BY <1>1, <1>4, <1>6, ExcerptBegins, JoinedLoop DEF Block
<1>9. Inside(Joined(kept), lines[i])
  BY <1>1, <1>3, LinesInside
<1>10. Inside(text, lines[i])
  BY <1>7, <1>8, <1>9, InsideLonger
<1>11. QED
  BY <1>2, <1>7, <1>8, <1>10, InsideIsQuoted

-----------------------------------------------------------------------------
(* The theorems *)

TriageInvariant == IInv /\ log \in Seq(Line)

LEMMA TriageInvariantHolds == TriageSpec => []TriageInvariant
<1>1. TriageInit => TriageInvariant
  BY InitInv, EmptySeq DEF TriageInit, TriageInvariant
<1>2. TriageInvariant /\ [TriageNext]_triageVars => TriageInvariant'
  <2> SUFFICES ASSUME TriageInvariant, [TriageNext]_triageVars PROVE TriageInvariant'
    OBVIOUS
  <2>1. IInv'
    <3>1. [Next]_vars
      BY DEF TriageNext, triageVars, WriteLine, FetchLogs
    <3>2. QED
      BY <3>1, StepInv DEF TriageInvariant
  <2>2. (log \in Seq(Line))'
    <3>1. CASE WriteLine
      <4>1. PICK line \in Lines : log' = Append(log, line)
        BY <3>1 DEF WriteLine
      <4>2. line \in Line
        BY TriageAssumption DEF Line, Text
      <4>3. QED
        BY <4>1, <4>2, AppendProperties DEF TriageInvariant
    <3>2. CASE FetchLogs
      BY <3>2, EmptySeq DEF FetchLogs
    <3>3. CASE UNCHANGED log
      BY <3>3 DEF TriageInvariant
    <3>4. QED
      BY <3>1, <3>2, <3>3 DEF TriageNext, triageVars
  <2>3. QED
    BY <2>1, <2>2 DEF TriageInvariant
<1>3. QED
  BY <1>1, <1>2, PTL DEF TriageSpec

\* Whatever was logged before, the diagnosis of an incident has the types and
\* the guarantees it has by itself (main.py:474-598).
THEOREM TriageDiagnosisCorrect ==
  TriageSpec => [](TypeOK /\ (~Claims => ProposedWasAccepted))
<1>1. TriageInvariant => TypeOK /\ (~Claims => ProposedWasAccepted)
  BY DEF TriageInvariant, IInv, PassedInv
<1>2. QED
  BY <1>1, TriageInvariantHolds, PTL

\* A crash that repeats has the fingerprint it had, at other times and, as long
\* as the whole log is fetched, with lines repeated: what layer 2 rests on, for
\* any length of the log and of its tail (log_preprocessor.py:61-77, 100-106).
THEOREM SamePatternSameFingerprintCorrect == TriageSpec => []SamePatternSameFingerprint
<1>1. TriageInvariant => SamePatternSameFingerprint
  BY SameFingerprint DEF TriageInvariant
<1>2. QED
  BY <1>1, TriageInvariantHolds, PTL

\* For every length of the log and every budget: the lines with a signal, if
\* they fit at all, are in the excerpt (log_preprocessor.py:84-97).
THEOREM SignalsQuotedCorrect == TriageSpec => []SignalsQuoted
<1>1. TriageInvariant => SignalsQuoted
  BY AllSignalsQuoted DEF TriageInvariant
<1>2. QED
  BY <1>1, TriageInvariantHolds, PTL
=============================================================================
