---------------------------- MODULE BytesProofs ----------------------------
(* Proofs about Newio and DccTransfer in Traffic, for buffers, lines, files, *)
(* blocks and reads of any size, any pair of transfers and any bound on what *)
(* is written.                                                              *)
EXTENDS Traffic, Recursion, SequenceTheorems

----------------------------------------------------------------------------
(* The lines of a process: pieces put together.                             *)

Joins(f, pieces, S) ==
    /\ f \in [0 .. Len(pieces) -> Seq(S)] /\ f[0] = <<>>
    /\ \A k \in 1 .. Len(pieces) : f[k] = f[k - 1] \o pieces[k]

(* FlattenSeq is defined by a recursive function; this is what it computes. *)
LEMMA FlattenIs ==
    ASSUME NEW S, NEW pieces \in Seq(Seq(S))
    PROVE  \E f : Joins(f, pieces, S) /\ Output!FlattenSeq(pieces) = f[Len(pieces)]
  <1> DEFINE n == Len(pieces)
             T == [k \in Nat |-> [w \in Seq(S) |->
                      w \o IF k \in 1 .. n THEN pieces[k] ELSE <<>>]]
             E(f) == [i \in 1 .. n |-> IF i = 1 THEN pieces[i] ELSE f[i - 1] \o pieces[i]]
  <1>1. n \in Nat /\ <<>> \in Seq(S) /\ \A k \in 1 .. n : pieces[k] \in Seq(S)
    OBVIOUS
  <1>2. \A k \in Nat, w \in Seq(S) :
            (w \o IF k \in 1 .. n THEN pieces[k] ELSE <<>>) \in Seq(S)
    BY <1>1
  <1>3. T \in [Nat -> [Seq(S) -> Seq(S)]]
    BY <1>2
  <1>4. \A k \in 1 .. n, w \in Seq(S) : T[k][w] = w \o pieces[k]
    <2>1. \A k \in 1 .. n : k \in Nat
      BY <1>1
    <2>2. \A k \in Nat, w \in Seq(S) :
              T[k][w] = w \o IF k \in 1 .. n THEN pieces[k] ELSE <<>>
      OBVIOUS
    <2> HIDE DEF T, n
    <2> QED
      BY <2>1, <2>2
  <1> HIDE DEF T
  <1>5. PICK f : Iterates(f, Seq(S), T, <<>>, n)
    <2> HIDE DEF n
    <2> QED
      BY <1>1, <1>3, Iteration
  <1>6. Joins(f, pieces, S)
    <2>1. f \in [0 .. n -> Seq(S)] /\ f[0] = <<>>
      BY <1>5 DEF Iterates
    <2>2. ASSUME NEW k \in 1 .. n PROVE f[k] = f[k - 1] \o pieces[k]
      <3>1. k - 1 \in 0 .. n
        BY <1>1
      <3>2. f[k - 1] \in Seq(S) /\ f[k] = T[k][f[k - 1]]
        BY <1>5, <2>1, <3>1 DEF Iterates
      <3> QED
        BY <1>4, <3>2
    <2> QED
      BY <2>1, <2>2 DEF Joins
  <1>9. f[0] = <<>> /\ \A k \in 1 .. n : f[k] = f[k - 1] \o pieces[k]
    BY <1>6 DEF Joins
  <1>10. ASSUME 1 \in 1 .. n PROVE f[1] = pieces[1]
    <2>1. f[1] = f[1 - 1] \o pieces[1] /\ pieces[1] \in Seq(S)
      BY <1>1, <1>9, <1>10
    <2>2. 1 - 1 = 0
      OBVIOUS
    <2>3. f[1] = <<>> \o pieces[1]
      BY <1>9, <2>1, <2>2, Zenon
    <2> QED
      BY <2>1, <2>3
  <1>7. CASE n = 0
    <2>1. Output!FlattenSeq(pieces) = pieces /\ pieces = <<>>
      BY <1>7 DEF Output!FlattenSeq
    <2> QED
      BY <1>6, <1>7, <2>1 DEF Joins
  <1>8. CASE n # 0
    <2> DEFINE g == [i \in 1 .. n |-> f[i]]
               flatten == CHOOSE h : h = E(h)
    <2>1. Output!FlattenSeq(pieces) = flatten[n]
      BY <1>8 DEF Output!FlattenSeq
    <2>2. ASSUME NEW i \in 1 .. n
          PROVE  g[i] = IF i = 1 THEN pieces[i] ELSE g[i - 1] \o pieces[i]
      <3>1. g[i] = f[i]
        OBVIOUS
      <3>2. CASE i = 1
        BY <1>10, <3>1, <3>2
      <3>3. CASE i # 1
        <4>1. i - 1 \in 1 .. n
          BY <1>1, <3>3
        <4>2. g[i - 1] = f[i - 1] /\ f[i] = f[i - 1] \o pieces[i]
          BY <1>9, <4>1
        <4> HIDE DEF g, n
        <4> QED
          BY <3>1, <3>3, <4>2
      <3> QED
        BY <3>2, <3>3
    <2>3. g = E(g)
      BY <2>2
    <2> HIDE DEF E, g
    <2>4. flatten = E(flatten)
      BY <2>3
    <2> HIDE DEF flatten
    <2> USE DEF E
    <2> DEFINE Bad == {k \in 1 .. n : flatten[k] # f[k]}
    <2>5. ASSUME NEW k \in Bad PROVE k - 1 \in Bad
      <3>1. k \in 1 .. n /\ flatten[k] # f[k] /\ f[k] = f[k - 1] \o pieces[k]
        BY <1>9
      <3>2. flatten[k] = IF k = 1 THEN pieces[k] ELSE flatten[k - 1] \o pieces[k]
        BY <2>4, <3>1
      <3>3. k # 1
        BY <1>10, <3>1, <3>2
      <3>4. k - 1 \in 1 .. n
        BY <1>1, <3>1, <3>3
      <3> QED
        BY <3>1, <3>2, <3>3, <3>4
    <2>6. Bad \in SUBSET (0 .. n) /\ 0 \notin Bad
      BY <1>1
    <2> HIDE DEF Bad, n
    <2>7. Bad = {}
      BY <1>1, <2>5, <2>6, NoneBad
    <2> USE DEF Bad
    <2>8. n \in 1 .. n
      BY <1>1, <1>8
    <2>9. flatten[n] = f[n]
      BY <2>7, <2>8
    <2> QED
      BY <1>6, <2>1, <2>9 DEF n
  <1> QED
    BY <1>7, <1>8

(* The last piece comes behind what the others make.                        *)
LEMMA FlattenAppend ==
    ASSUME NEW S, NEW pieces \in Seq(Seq(S)), NEW piece \in Seq(S)
    PROVE  /\ Output!FlattenSeq(pieces) \in Seq(S)
           /\ Output!FlattenSeq(Append(pieces, piece)) = Output!FlattenSeq(pieces) \o piece
  <1> DEFINE n == Len(pieces)
             more == Append(pieces, piece)
  <1>1. /\ n \in Nat /\ Len(more) = n + 1 /\ more[n + 1] = piece
        /\ more \in Seq(Seq(S)) /\ \A k \in 1 .. n : more[k] = pieces[k]
    OBVIOUS
  <1>2. PICK f : Joins(f, pieces, S) /\ Output!FlattenSeq(pieces) = f[n]
    BY FlattenIs
  <1> HIDE DEF more
  <1>3. PICK g : Joins(g, more, S) /\ Output!FlattenSeq(more) = g[n + 1]
    <2>1. \E g : Joins(g, more, S) /\ Output!FlattenSeq(more) = g[Len(more)]
      BY <1>1, FlattenIs
    <2> QED
      BY <1>1, <2>1
  <1> DEFINE Bad == {k \in 0 .. n : f[k] # g[k]}
  <1> HIDE DEF n
  <1>4. 0 \notin Bad
    BY <1>2, <1>3 DEF Joins
  <1>5. ASSUME NEW k \in 1 .. n, k \in Bad PROVE k - 1 \in Bad
    <2>1. k \in 1 .. n + 1 /\ k - 1 \in 0 .. n
      BY <1>1
    <2>2. f[k] = f[k - 1] \o pieces[k]
      BY <1>2 DEF Joins, n
    <2>3. g[k] = g[k - 1] \o more[k]
      BY <1>1, <1>3, <2>1 DEF Joins
    <2> QED
      BY <1>1, <1>5, <2>1, <2>2, <2>3
  <1>6. Bad \in SUBSET (0 .. n)
    OBVIOUS
  <1> HIDE DEF Bad
  <1>7. Bad = {}
    BY <1>1, <1>4, <1>5, <1>6, NoneBad
  <1> USE DEF Bad
  <1>8. n \in 0 .. n /\ n + 1 \in 1 .. n + 1
    BY <1>1
  <1>9. f[n] = g[n] /\ f[n] \in Seq(S)
    BY <1>2, <1>7, <1>8 DEF Joins, n
  <1>10. ASSUME NEW k \in 1 .. n + 1, k = n + 1 PROVE g[k] = g[n] \o more[k]
    <2>1. k - 1 = n
      BY <1>1, <1>10
    <2>2. \A j \in 1 .. n + 1 : g[j] = g[j - 1] \o more[j]
      BY <1>1, <1>3 DEF Joins
    <2>3. g[k] = g[k - 1] \o more[k]
      BY <2>2
    <2> QED
      BY <2>1, <2>3
  <1> QED
    BY <1>1, <1>2, <1>3, <1>8, <1>9, <1>10 DEF more

----------------------------------------------------------------------------
(* Sequences.                                                               *)

(* A sequence has a length, and the empty one has none.                     *)
LEMMA Lengths ==
    /\ \A s \in Seq(Output!Bytes) : Len(s) \in Nat /\ (s = <<>> <=> Len(s) = 0)
    /\ <<>> \in Seq(Output!Bytes) /\ Len(<<>>) = 0
  OBVIOUS

(* A byte comes behind all that is there.                                   *)
LEMMA Behind ==
    ASSUME NEW a \in Seq(Output!Bytes), NEW b \in Seq(Output!Bytes), NEW byte \in Output!Bytes
    PROVE  /\ Append(b, byte) \in Seq(Output!Bytes) /\ Append(b, byte) # <<>>
           /\ a \o Append(b, byte) = Append(a \o b, byte)
  OBVIOUS

(* What moves from the end of one place to the start of the one before it   *)
(* is still in its order.                                                   *)
LEMMA PartMoved ==
    ASSUME NEW a \in Seq(Output!Bytes), NEW b \in Seq(Output!Bytes), NEW c \in Seq(Output!Bytes)
    PROVE  a \o (b \o c) \o <<>> = a \o b \o c
  <1>1. a \o (b \o c) \in Seq(Output!Bytes)
    BY ConcatProperties
  <1> QED
    BY <1>1, ConcatEmptySeq, ConcatAssociative, SMTT(30)

\* A read moves bytes from the pipe behind those of the buffer.
LEMMA ReadMoved ==
    ASSUME NEW w \in Seq(Output!Bytes), NEW c \in Seq(Output!Bytes), NEW d \in Seq(Output!Bytes)
    PROVE  w \o c \o d = w \o <<>> \o (c \o d)
  BY ConcatAssociative, ConcatEmptySeq, SMTT(30)

(* Cut in two, a sequence is still the whole.                               *)
LEMMA CutInTwo ==
    ASSUME NEW s \in Seq(Output!Bytes), NEW n \in 0 .. Len(s)
    PROVE  /\ SubSeq(s, 1, n) \in Seq(Output!Bytes) /\ Len(SubSeq(s, 1, n)) = n
           /\ SubSeq(s, n + 1, Len(s)) \in Seq(Output!Bytes)
           /\ Len(SubSeq(s, n + 1, Len(s))) = Len(s) - n
           /\ SubSeq(s, 1, n) \o SubSeq(s, n + 1, Len(s)) = s
  <1>1. SubSeq(s, 1, n) \in Seq(Output!Bytes) /\ Len(SubSeq(s, 1, n)) = n
    OBVIOUS
  <1>2. /\ SubSeq(s, n + 1, Len(s)) \in Seq(Output!Bytes)
        /\ Len(SubSeq(s, n + 1, Len(s))) = Len(s) - n
    OBVIOUS
  <1>3. SubSeq(s, 1, n) \o SubSeq(s, n + 1, Len(s)) = SubSeq(s, 1, Len(s))
    <2>1. 1 \in 1 .. Len(s) + 1 /\ n \in 1 - 1 .. Len(s) /\ Len(s) \in n .. Len(s)
      OBVIOUS
    <2> QED
      BY <2>1, ConcatAdjacentSubSeq
  <1>4. SubSeq(s, 1, Len(s)) = s
    BY SubSeqFull
  <1> QED
    BY <1>1, <1>2, <1>3, <1>4

(* The first part is a prefix, and what is behind it is the second.         *)
LEMMA FirstPart ==
    ASSUME NEW S, NEW a \in Seq(S), NEW b \in Seq(S)
    PROVE  /\ Output!IsPrefix(a, a \o b)
           /\ \A i \in DOMAIN (a \o b) :
                  i > Len(a) => i - Len(a) \in DOMAIN b /\ (a \o b)[i] = b[i - Len(a)]
  <1>1. Len(a \o b) = Len(a) + Len(b) /\ \A i \in 1 .. Len(a) : (a \o b)[i] = a[i]
    OBVIOUS
  <1>2. SubSeq(a \o b, 1, Len(a)) = SubSeq(a, 1, Len(a))
    BY <1>1
  <1>3. Output!IsPrefix(a, a \o b)
    BY <1>1, <1>2 DEF Output!IsPrefix
  <1>4. ASSUME NEW i \in DOMAIN (a \o b), i > Len(a)
        PROVE  i - Len(a) \in DOMAIN b /\ (a \o b)[i] = b[i - Len(a)]
    BY <1>1, <1>4
  <1> QED
    BY <1>3, <1>4

----------------------------------------------------------------------------
(* The inductive invariant of the lines.                                    *)

Came == Output!FlattenSeq(got)

(* dgets keeps no end of a line, is in nothing between two calls, and was   *)
(* called for something: a second without anything never ends a call that   *)
(* has nothing in the line, which do_processes would take for the end.      *)
Shown ==
    /\ \A i \in DOMAIN str : str[i] # Output!Newline
    /\ ~reading => str = <<>>
    /\ reading /\ str = <<>> /\ buffer = <<>> => Output!Readable

(* Every byte is in one place, and in its order.                            *)
Whole ==
    IF Output!Ended
    THEN /\ ~reading /\ closed
         /\ Output!IsPrefix(Came, written)
         /\ \A i \in DOMAIN written : i > Len(Came) => written[i] # Output!Newline
    ELSE Came \o str \o buffer \o pipe = written

NInv == Output!TypeOK /\ Shown /\ Whole

(* What has been read is a sequence of bytes.                               *)
LEMMA CameType ==
    ASSUME got \in Seq(Seq(Output!Bytes))
    PROVE  Came \in Seq(Output!Bytes)
  <1>1. <<>> \in Seq(Output!Bytes)
    OBVIOUS
  <1> QED
    BY <1>1, FlattenAppend DEF Came

(* do_processes takes an empty piece for the end, and nothing else.         *)
LEMMA Returned ==
    ASSUME got \in Seq(Seq(Output!Bytes)), NEW piece \in Seq(Output!Bytes), got' = Append(got, piece)
    PROVE  got' \in Seq(Seq(Output!Bytes)) /\ Came' = Came \o piece /\ (Output!Ended' <=> piece = <<>>)
  <1>1. got' # <<>> /\ got'[Len(got')] = piece /\ got' \in Seq(Seq(Output!Bytes))
    OBVIOUS
  <1>2. Came' = Came \o piece
    BY FlattenAppend DEF Came
  <1> QED
    BY <1>1, <1>2 DEF Output!Ended

(* The types, one by one.                                                   *)
OutputTyped ==
    /\ written \in Seq(Output!Bytes) /\ pipe \in Seq(Output!Bytes)
    /\ buffer \in Seq(Output!Bytes) /\ str \in Seq(Output!Bytes) /\ got \in Seq(Seq(Output!Bytes))
    /\ closed \in BOOLEAN /\ reading \in BOOLEAN
    /\ Len(buffer) =< BufferSize /\ Len(str) < LineSize

\* The type, without the definitions that the provers need not see.
LEMMA OutputTypes == Output!TypeOK <=> OutputTyped
  BY DEF Output!TypeOK, OutputTyped

\* The same of the next state.
LEMMA OutputTypesNext == Output!TypeOK' <=> OutputTyped'
  BY OutputTypes, PTL

(* Nothing has been written yet.                                            *)
LEMMA InitNInv == Output!SizesAssumption /\ Output!Init => NInv
  <1> SUFFICES ASSUME Output!SizesAssumption, Output!Init PROVE NInv
    OBVIOUS
  <1>1. got = <<>> /\ ~Output!Ended
    BY DEF Output!Init, Output!Ended
  <1>2. Came = <<>>
    BY <1>1 DEF Came, Output!FlattenSeq
  <1>3. Output!TypeOK
    <2>1. <<>> \in Seq(Output!Bytes) /\ <<>> \in Seq(Seq(Output!Bytes)) /\ Len(<<>>) = 0
      OBVIOUS
    <2>2. 0 =< BufferSize /\ 0 < LineSize
      BY DEF Output!SizesAssumption
    <2> QED
      BY <2>1, <2>2, OutputTypes DEF Output!Init, OutputTyped
  <1>4. Shown
    BY DEF Output!Init, Shown
  <1>5. Whole
    BY <1>1, <1>2 DEF Output!Init, Whole
  <1> QED
    BY <1>3, <1>4, <1>5 DEF NInv

(* A byte comes behind the others.                                          *)
LEMMA WriteKeeps ==
    ASSUME Output!SizesAssumption, NInv, NEW byte \in Output!Bytes, Output!Write(byte)
    PROVE  NInv'
  <1>0. OutputTyped /\ LineSize \in Nat /\ BufferSize \in Nat
    BY OutputTypes DEF NInv, Output!SizesAssumption
  <1> USE <1>0 DEF OutputTyped
  <1>1. /\ written' = Append(written, byte) /\ pipe' = Append(pipe, byte) /\ ~closed
        /\ UNCHANGED <<closed, buffer, reading, str, got>>
    BY DEF Output!Write
  <1>2. Output!TypeOK'
    BY <1>1, OutputTypesNext, Lengths DEF OutputTyped, Output!Bytes
  <1>3. Shown'
    <2>1. pipe' # <<>>
      BY <1>1, Behind
    <2> QED
      BY <1>1, <2>1 DEF NInv, Shown, Output!Readable
  <1>4. Came' = Came /\ Came \in Seq(Output!Bytes) /\ Output!Ended' = Output!Ended /\ ~Output!Ended
    BY <1>1, CameType DEF NInv, Came, Output!Ended, Whole
  <1>5. Came \o str \o buffer \o pipe = written
    BY <1>4 DEF NInv, Whole
  <1>6. (Came \o str \o buffer) \o Append(pipe, byte) = Append(written, byte)
    <2> DEFINE w == Came \o str \o buffer
    <2>1. w \in Seq(Output!Bytes) /\ w \o pipe = written
      BY <1>4, <1>5, ConcatProperties
    <2> HIDE DEF w
    <2>2. w \o Append(pipe, byte) = Append(w \o pipe, byte)
      BY <2>1, Behind
    <2> QED
      BY <2>1, <2>2 DEF w
  <1>7. Whole'
    BY <1>1, <1>4, <1>6 DEF NInv, Whole
  <1> QED
    BY <1>2, <1>3, <1>7 DEF NInv

\* The end of the output: what is left in the buffer has no end of line.
LEMMA CloseKeeps ==
    ASSUME Output!SizesAssumption, NInv, Output!Close
    PROVE  NInv'
  <1>0. OutputTyped /\ LineSize \in Nat /\ BufferSize \in Nat
    BY OutputTypes DEF NInv, Output!SizesAssumption
  <1> USE <1>0 DEF OutputTyped
  <1>1. closed' = TRUE /\ UNCHANGED <<written, pipe, buffer, reading, str, got>>
    BY DEF Output!Close
  <1>2. Output!TypeOK'
    BY <1>1, OutputTypesNext, Lengths DEF OutputTyped, Output!Bytes
  <1>3. Shown'
    BY <1>1 DEF NInv, Shown, Output!Readable
  <1>4. Came' = Came /\ Output!Ended' = Output!Ended
    BY <1>1 DEF Came, Output!Ended
  <1>5. Whole'
    BY <1>1, <1>4 DEF NInv, Whole
  <1> QED
    BY <1>2, <1>3, <1>5 DEF NInv

(* The main loop calls dgets when there is something to read.               *)
LEMMA PassKeeps ==
    ASSUME Output!SizesAssumption, NInv, Output!Pass
    PROVE  NInv'
  <1>0. OutputTyped /\ LineSize \in Nat /\ BufferSize \in Nat
    BY OutputTypes DEF NInv, Output!SizesAssumption
  <1> USE <1>0 DEF OutputTyped
  <1>1. /\ ~reading /\ ~Output!Ended /\ Output!NewSelect /\ reading' = TRUE /\ str' = <<>>
        /\ UNCHANGED <<written, pipe, closed, buffer, got>>
    BY DEF Output!Pass
  <1>2. Output!TypeOK'
    <2>1. 0 < LineSize
      BY Lengths
    <2> QED
      BY <1>1, <2>1, OutputTypesNext, Lengths DEF OutputTyped, Output!Bytes
  <1>3. str = <<>> /\ str' = str
    BY <1>1 DEF NInv, Shown
  <1>4. Shown'
    BY <1>1, <1>3 DEF NInv, Shown, Output!Readable, Output!NewSelect
  <1>5. Came' = Came /\ Output!Ended' = Output!Ended
    BY <1>1 DEF Came, Output!Ended
  <1>6. Whole'
    BY <1>1, <1>3, <1>5 DEF NInv, Whole
  <1> QED
    BY <1>2, <1>4, <1>6 DEF NInv

(* A line, or as much of it as there is room for, leaves the buffer.        *)
LEMMA TakeLineKeeps ==
    ASSUME Output!SizesAssumption, NInv, Output!TakeLine
    PROVE  NInv'
  <1>0. OutputTyped /\ LineSize \in Nat /\ BufferSize \in Nat
    BY OutputTypes DEF NInv, Output!SizesAssumption
  <1> USE <1>0 DEF OutputTyped
  <1> DEFINE ends == {i \in DOMAIN buffer : buffer[i] = Output!Newline \/ Len(str) + i = LineSize}
             count == CHOOSE i \in ends : \A j \in ends : i <= j
             line == str \o SubSeq(buffer, 1, count)
             rest == SubSeq(buffer, count + 1, Len(buffer))
  <1>1. /\ reading /\ ends # {} /\ buffer' = rest
        /\ reading' = FALSE /\ str' = <<>> /\ got' = Append(got, line)
        /\ UNCHANGED <<written, pipe, closed>>
    BY DEF Output!TakeLine, Output!Taken, Output!Return
  <1>2. count \in 1 .. Len(buffer)
    <2>1. ends \in SUBSET Nat
      OBVIOUS
    <2> HIDE DEF ends
    <2>2. count \in ends
      BY <1>1, <2>1, Least
    <2> QED
      BY <2>2 DEF ends
  <1> HIDE DEF ends, count
  <1>3. /\ SubSeq(buffer, 1, count) \in Seq(Output!Bytes) /\ Len(SubSeq(buffer, 1, count)) = count
        /\ rest \in Seq(Output!Bytes) /\ Len(rest) = Len(buffer) - count
        /\ SubSeq(buffer, 1, count) \o rest = buffer
    <2>1. count \in 0 .. Len(buffer)
      BY <1>2
    <2> QED
      BY <2>1, CutInTwo
  <1> DEFINE first == SubSeq(buffer, 1, count)
  <1> HIDE DEF first, rest
  <1>4. first \in Seq(Output!Bytes) /\ Len(first) = count /\ line = str \o first /\ count > 0
    BY <1>2, <1>3 DEF first
  <1>5. line \in Seq(Output!Bytes) /\ line # <<>>
    <2>1. line \in Seq(Output!Bytes) /\ Len(line) = Len(str) + count
      BY <1>4, ConcatProperties
    <2>2. count \in Nat /\ Len(str) \in Nat
      BY <1>2, Lengths
    <2>3. Len(line) # 0
      BY <1>4, <2>1, <2>2
    <2> QED
      BY <2>1, <2>3, Lengths
  <1> HIDE DEF line
  <1>6. got' \in Seq(Seq(Output!Bytes)) /\ Came' = Came \o line /\ ~Output!Ended'
    BY <1>1, <1>5, Returned
  <1>7. Output!TypeOK'
    <2>1. Len(rest) =< BufferSize /\ 0 < LineSize
      <3>1. Len(rest) \in Nat /\ Len(str) \in Nat /\ Len(buffer) \in Nat
        BY <1>3, Lengths
      <3> QED
        BY <1>2, <1>3, <1>4, <3>1
    <2> QED
      BY <1>1, <1>3, <1>6, <2>1, OutputTypesNext, Lengths DEF OutputTyped, Output!Bytes
  <1>8. Shown'
    BY <1>1 DEF NInv, Shown
  <1>9. Came \in Seq(Output!Bytes) /\ Came \o str \o buffer \o pipe = written
    BY <1>1, CameType DEF NInv, Whole
  <1>10. first \o rest = buffer /\ rest \in Seq(Output!Bytes)
    BY <1>3 DEF first
  <1>11. Came \o (str \o first) \o <<>> \o rest = Came \o str \o buffer
    <2>1. Came \o (str \o first) \o <<>> = Came \o str \o first
      BY <1>4, <1>9, PartMoved, ZenonT(60)
    <2> DEFINE w == Came \o str
    <2>2. w \in Seq(Output!Bytes) /\ w \o <<>> = w
      BY <1>9, ConcatProperties, ConcatEmptySeq
    <2> HIDE DEF w
    <2>3. w \o first \o rest = w \o <<>> \o (first \o rest)
      BY <1>4, <1>10, <2>2, ReadMoved, ZenonT(60)
    <2> QED
      BY <1>10, <2>1, <2>2, <2>3 DEF w
  <1>12. Whole'
    BY <1>1, <1>4, <1>6, <1>9, <1>11 DEF NInv, Whole
  <1> QED
    BY <1>7, <1>8, <1>12 DEF NInv

(* All of the buffer goes into the line.                                    *)
LEMMA TakePartKeeps ==
    ASSUME Output!SizesAssumption, NInv, Output!TakePart
    PROVE  NInv'
  <1>0. OutputTyped /\ LineSize \in Nat /\ BufferSize \in Nat
    BY OutputTypes DEF NInv, Output!SizesAssumption
  <1> USE <1>0 DEF OutputTyped
  <1>1. /\ reading /\ buffer # <<>> /\ buffer' = <<>> /\ str' = str \o buffer
        /\ \A i \in DOMAIN buffer : buffer[i] # Output!Newline /\ Len(str) + i # LineSize
        /\ UNCHANGED <<written, pipe, closed, reading, got>>
    BY DEF Output!TakePart
  <1>2. Len(str) + Len(buffer) < LineSize
    <2>1. LineSize \in Nat
      BY DEF Output!SizesAssumption
    <2>2. Len(str) \in Nat /\ Len(buffer) \in Nat /\ Len(str) < LineSize
      OBVIOUS
    <2>3. LineSize - Len(str) \notin 1 .. Len(buffer)
      <3>1. \A i \in 1 .. Len(buffer) : Len(str) + i # LineSize
        BY <1>1, LenProperties
      <3>2. SUFFICES ASSUME LineSize - Len(str) \in 1 .. Len(buffer) PROVE FALSE
        OBVIOUS
      <3>3. Len(str) + (LineSize - Len(str)) # LineSize
        BY <3>1, <3>2
      <3> QED
        BY <2>1, <2>2, <3>3
    <2> QED
      BY <2>1, <2>2, <2>3
  <1>3. str' \in Seq(Output!Bytes) /\ Len(str') = Len(str) + Len(buffer)
    BY <1>1
  <1>4. Output!TypeOK'
    <2>1. BufferSize \in Nat
      BY DEF Output!SizesAssumption
    <2> QED
      BY <1>1, <1>2, <1>3, <2>1, OutputTypesNext, Lengths DEF OutputTyped, Output!Bytes
  <1>5. ASSUME NEW i \in DOMAIN str' PROVE str'[i] # Output!Newline
    <2>1. CASE i \in DOMAIN str
      BY <1>1, <2>1 DEF NInv, Shown
    <2>2. CASE i \notin DOMAIN str
      <3>1. i - Len(str) \in DOMAIN buffer /\ str'[i] = buffer[i - Len(str)]
        BY <1>1, <1>3, <2>2
      <3> QED
        BY <1>1, <3>1
    <2> QED
      BY <2>1, <2>2
  <1>6. Shown'
    <2>1. str' # <<>>
      BY <1>1, <1>3
    <2> QED
      BY <1>1, <1>5, <2>1 DEF NInv, Shown
  <1>7. Came \in Seq(Output!Bytes) /\ Came' = Came /\ Output!Ended' = Output!Ended
    BY <1>1, CameType DEF Came, Output!Ended
  <1>8. ~Output!Ended /\ Came \o str \o buffer \o pipe = written
    BY <1>1 DEF NInv, Whole
  <1>9. Came \o (str \o buffer) \o <<>> = Came \o str \o buffer
    BY <1>7, PartMoved
  <1> QED
    BY <1>1, <1>4, <1>6, <1>7, <1>8, <1>9 DEF NInv, Whole

(* What is read moves from the pipe into the buffer.                        *)
LEMMA ReadKeeps ==
    ASSUME Output!SizesAssumption, NInv, Output!Read
    PROVE  NInv'
  <1>0. OutputTyped /\ LineSize \in Nat /\ BufferSize \in Nat
    BY OutputTypes DEF NInv, Output!SizesAssumption
  <1> USE <1>0 DEF OutputTyped
  <1>1. PICK n \in 1 .. BufferSize :
            /\ n <= Len(pipe)
            /\ buffer' = SubSeq(pipe, 1, n) /\ pipe' = SubSeq(pipe, n + 1, Len(pipe))
    BY DEF Output!Read
  <1>2. reading /\ buffer = <<>> /\ UNCHANGED <<written, closed, reading, str, got>>
    BY DEF Output!Read
  <1>3. n \in 0 .. Len(pipe) /\ n > 0 /\ n =< BufferSize
    BY <1>1 DEF Output!SizesAssumption
  <1>4. /\ buffer' \in Seq(Output!Bytes) /\ Len(buffer') = n
        /\ pipe' \in Seq(Output!Bytes) /\ buffer' \o pipe' = pipe
    BY <1>1, <1>3, CutInTwo
  <1>5. Output!TypeOK'
    BY <1>2, <1>3, <1>4, OutputTypesNext, Lengths DEF OutputTyped, Output!Bytes
  <1>6. Shown'
    <2>1. buffer' # <<>>
      BY <1>3, <1>4
    <2> QED
      BY <1>2, <2>1 DEF NInv, Shown
  <1>7. Came \in Seq(Output!Bytes) /\ Came' = Came /\ Output!Ended' = Output!Ended
    BY <1>2, CameType DEF Came, Output!Ended
  <1>8. ~Output!Ended /\ Came \o str \o buffer \o pipe = written
    BY <1>2 DEF NInv, Whole
  <1>9. Came \o str \o buffer' \o pipe' = Came \o str \o buffer \o pipe
    <2>1. Came \o str \o buffer' \o pipe' = Came \o str \o <<>> \o (buffer' \o pipe')
      <3> DEFINE w == Came \o str
      <3>1. w \in Seq(Output!Bytes)
        BY <1>7, ConcatProperties
      <3> HIDE DEF w
      <3>2. w \o buffer' \o pipe' = w \o <<>> \o (buffer' \o pipe')
        BY <1>4, <3>1, ReadMoved, ZenonT(60)
      <3> QED
        BY <3>2 DEF w
    <2> QED
      BY <1>2, <1>4, <2>1
  <1>10. Whole'
    BY <1>2, <1>7, <1>8, <1>9 DEF NInv, Whole
  <1> QED
    BY <1>5, <1>6, <1>10 DEF NInv

(* The part that a second without anything returns is not empty.            *)
LEMMA TimeoutKeeps ==
    ASSUME Output!SizesAssumption, NInv, Output!Timeout
    PROVE  NInv'
  <1>0. OutputTyped /\ LineSize \in Nat /\ BufferSize \in Nat
    BY OutputTypes DEF NInv, Output!SizesAssumption
  <1> USE <1>0 DEF OutputTyped
  <1>1. /\ reading /\ buffer = <<>> /\ ~Output!Readable
        /\ reading' = FALSE /\ str' = <<>> /\ got' = Append(got, str)
        /\ UNCHANGED <<written, pipe, closed, buffer>>
    BY DEF Output!Timeout, Output!Return
  <1>2. str # <<>>
    BY <1>1 DEF NInv, Shown
  <1>3. got' \in Seq(Seq(Output!Bytes)) /\ Came' = Came \o str /\ ~Output!Ended'
    BY <1>1, <1>2, Returned
  <1>4. Output!TypeOK'
    <2>1. 0 < LineSize
      BY Lengths
    <2> QED
      BY <1>1, <1>3, <2>1, OutputTypesNext, Lengths DEF OutputTyped, Output!Bytes
  <1>5. Shown'
    BY <1>1 DEF NInv, Shown
  <1>6. Came \in Seq(Output!Bytes) /\ Came \o str \o buffer \o pipe = written
    BY <1>1, CameType DEF NInv, Whole
  <1>7. (Came \o str) \o <<>> = Came \o str
    BY <1>6
  <1>8. Whole'
    BY <1>1, <1>3, <1>6, <1>7 DEF NInv, Whole
  <1> QED
    BY <1>4, <1>5, <1>8 DEF NInv

(* At the end only the part of a line is dropped.                           *)
LEMMA EndOfFileKeeps ==
    ASSUME Output!SizesAssumption, NInv, Output!EndOfFile
    PROVE  NInv'
  <1>0. OutputTyped /\ LineSize \in Nat /\ BufferSize \in Nat
    BY OutputTypes DEF NInv, Output!SizesAssumption
  <1> USE <1>0 DEF OutputTyped
  <1>1. /\ reading /\ buffer = <<>> /\ pipe = <<>> /\ closed
        /\ reading' = FALSE /\ str' = <<>> /\ got' = Append(got, <<>>)
        /\ UNCHANGED <<written, pipe, closed, buffer>>
    BY DEF Output!EndOfFile, Output!Return
  <1>2. Came \in Seq(Output!Bytes) /\ <<>> \in Seq(Output!Bytes)
    BY CameType
  <1>3. got' \in Seq(Seq(Output!Bytes)) /\ Came' = Came \o <<>> /\ Output!Ended'
    BY <1>1, <1>2, Returned
  <1>4. Came' = Came
    BY <1>2, <1>3
  <1>5. Output!TypeOK'
    <2>1. 0 < LineSize
      BY Lengths
    <2> QED
      BY <1>1, <1>3, <2>1, OutputTypesNext, Lengths DEF OutputTyped, Output!Bytes
  <1>6. Shown'
    BY <1>1 DEF NInv, Shown
  <1>7. Came \o str = written
    <2>1. Came \o str \o buffer \o pipe = written
      BY <1>1 DEF NInv, Whole
    <2> QED
      BY <1>1, <1>2, <2>1
  <1>8. /\ Output!IsPrefix(Came, written)
        /\ \A i \in DOMAIN written : i > Len(Came) => written[i] # Output!Newline
    <2>1. Output!IsPrefix(Came, Came \o str)
      BY <1>2, FirstPart
    <2>2. \A i \in DOMAIN (Came \o str) :
              i > Len(Came) => /\ i - Len(Came) \in DOMAIN str
                               /\ (Came \o str)[i] = str[i - Len(Came)]
      BY <1>2, FirstPart
    <2>3. \A i \in DOMAIN str : str[i] # Output!Newline
      BY DEF NInv, Shown
    <2> QED
      BY <1>7, <2>1, <2>2, <2>3
  <1>9. Whole'
    BY <1>1, <1>3, <1>4, <1>8 DEF NInv, Whole
  <1> QED
    BY <1>5, <1>6, <1>9 DEF NInv

(* Every step keeps the invariant.                                          *)
LEMMA NextNInv == Output!SizesAssumption /\ NInv /\ [Output!Next]_(Output!vars) => NInv'
  <1> SUFFICES ASSUME Output!SizesAssumption, NInv, [Output!Next]_(Output!vars) PROVE NInv'
    OBVIOUS
  <1>1. CASE \E byte \in Output!Bytes : Output!Write(byte)
    BY <1>1, WriteKeeps
  <1>2. CASE Output!Close
    BY <1>2, CloseKeeps
  <1>3. CASE Output!Pass
    BY <1>3, PassKeeps
  <1>4. CASE Output!TakeLine
    BY <1>4, TakeLineKeeps
  <1>5. CASE Output!TakePart
    BY <1>5, TakePartKeeps
  <1>6. CASE Output!Read
    BY <1>6, ReadKeeps
  <1>7. CASE Output!Timeout
    BY <1>7, TimeoutKeeps
  <1>8. CASE Output!EndOfFile
    BY <1>8, EndOfFileKeeps
  <1>9. CASE UNCHANGED Output!vars
    <2>1. Came' = Came /\ Output!Ended' = Output!Ended
      BY <1>9 DEF Output!vars, Came, Output!Ended
    <2> QED
      BY <1>9, <2>1 DEF Output!vars, NInv, Output!TypeOK, Shown, Whole, Output!Readable, Output!Bytes
  <1> QED
    BY <1>1, <1>2, <1>3, <1>4, <1>5, <1>6, <1>7, <1>8, <1>9 DEF Output!Next, Output!Program

----------------------------------------------------------------------------
(* The files of DCC clients: the bytes from one position to another.        *)

LEMMA BytesAre ==
    ASSUME NEW from \in Nat, NEW count \in Nat
    PROVE  /\ Transfer!Bytes(from, count) \in Seq(Nat) /\ Len(Transfer!Bytes(from, count)) = count
           /\ \A i \in 1 .. count : Transfer!Bytes(from, count)[i] = from + i
  <1>1. Transfer!Bytes(from, count) \in [1 .. count -> Nat]
    BY DEF Transfer!Bytes
  <1> QED
    BY <1>1 DEF Transfer!Bytes

(* A sequence of these bytes is known by its length.                        *)
LEMMA BytesOnce ==
    ASSUME NEW from \in Nat, NEW count \in Nat, NEW s \in Seq(Nat), Len(s) = count,
           \A i \in 1 .. count : s[i] = from + i
    PROVE  s = Transfer!Bytes(from, count)
  <1> DEFINE b == Transfer!Bytes(from, count)
  <1>1. b \in Seq(Nat) /\ Len(b) = count /\ \A i \in 1 .. count : b[i] = from + i
    BY BytesAre
  <1> HIDE DEF b
  <1>2. \A i \in 1 .. count : s[i] = b[i]
    BY <1>1
  <1>3. s = b
    BY <1>1, <1>2
  <1> QED
    BY <1>3 DEF b

\* Bytes appended where the others end are one run of bytes with them.
LEMMA BytesJoined ==
    ASSUME NEW from \in Nat, NEW m \in Nat, NEW n \in Nat
    PROVE  Transfer!Bytes(from, m) \o Transfer!Bytes(from + m, n) = Transfer!Bytes(from, m + n)
  <1> DEFINE a == Transfer!Bytes(from, m)
             b == Transfer!Bytes(from + m, n)
  <1>0. from + m \in Nat /\ m + n \in Nat
    OBVIOUS
  <1>1. /\ a \in Seq(Nat) /\ Len(a) = m /\ \A i \in 1 .. m : a[i] = from + i
        /\ b \in Seq(Nat) /\ Len(b) = n /\ \A i \in 1 .. n : b[i] = (from + m) + i
    BY <1>0, BytesAre
  <1> HIDE DEF a, b
  <1>2. a \o b \in Seq(Nat) /\ Len(a \o b) = m + n
    BY <1>1, SMTT(30)
  <1>3. ASSUME NEW i \in 1 .. m + n PROVE (a \o b)[i] = from + i
    <2>1. CASE i \in 1 .. m
      BY <1>1, <2>1
    <2>2. CASE i \notin 1 .. m
      <3>1. i - m \in 1 .. n /\ (a \o b)[i] = b[i - m]
        BY <1>1, <2>2, SMTT(30)
      <3> QED
        BY <1>1, <3>1
    <2> QED
      BY <2>1, <2>2
  <1>4. a \o b = Transfer!Bytes(from, m + n)
    BY <1>0, <1>2, <1>3, BytesOnce
  <1> QED
    BY <1>4 DEF a, b

\* Bytes that are cut in two are two runs of bytes.
LEMMA BytesCut ==
    ASSUME NEW from \in Nat, NEW m \in Nat, NEW n \in 0 .. m
    PROVE  /\ SubSeq(Transfer!Bytes(from, m), 1, n) = Transfer!Bytes(from, n)
           /\ SubSeq(Transfer!Bytes(from, m), n + 1, m) = Transfer!Bytes(from + n, m - n)
  <1> DEFINE a == Transfer!Bytes(from, m)
             h == SubSeq(a, 1, n)
             t == SubSeq(a, n + 1, m)
  <1>0. n \in Nat /\ from + n \in Nat /\ m - n \in Nat
    OBVIOUS
  <1>1. a \in Seq(Nat) /\ Len(a) = m /\ \A i \in 1 .. m : a[i] = from + i
    BY BytesAre
  <1> HIDE DEF a
  <1>2. /\ h \in Seq(Nat) /\ Len(h) = n /\ \A i \in 1 .. n : h[i] = a[i]
        /\ t \in Seq(Nat) /\ Len(t) = m - n /\ \A i \in 1 .. m - n : t[i] = a[n + i]
    BY <1>1
  <1> HIDE DEF h, t
  <1>3. \A i \in 1 .. n : h[i] = from + i
    BY <1>1, <1>2
  <1>4. \A i \in 1 .. m - n : t[i] = (from + n) + i
    BY <1>1, <1>2
  <1>5. h = Transfer!Bytes(from, n) /\ t = Transfer!Bytes(from + n, m - n)
    BY <1>0, <1>2, <1>3, <1>4, BytesOnce
  <1> QED
    BY <1>5 DEF h, t, a

----------------------------------------------------------------------------
(* The inductive invariant of the transfers.                                *)

SenderType == [state : {"wait", "open", "recv", "active", "closed"}, pos : Nat, bytes_sent : Nat]
GetterType == [state : {"offered", "pending", "active", "closed"}, file : Seq(Nat), bytes_read : Nat]

FileTyped ==
    /\ kind \in [Transfer!Programs -> Transfer!Kinds \cup {Transfer!None}] /\ had \in [Transfer!Programs -> Nat]
    /\ size \in [Transfer!Programs -> Nat]
    /\ sender \in [Transfer!Programs -> SenderType] /\ getter \in [Transfer!Programs -> GetterType]
    /\ order \in [Transfer!Programs -> Seq(Nat)]
    /\ data \in [Transfer!Programs -> Seq(Nat)] /\ acks \in [Transfer!Programs -> Seq(Nat)]

Got(p) == Len(getter[p].file)
Under(p) == Len(data[p])

(* What has come and what is under way are one piece of the file.           *)
Contiguous(p) ==
    /\ getter[p].file = Transfer!Bytes(0, Got(p)) /\ data[p] = Transfer!Bytes(Got(p), Under(p))
    /\ had[p] =< Length => Got(p) + Under(p) =< Length
    /\ Under(p) =< Block

(* What was agreed on, where the file starts.                               *)
Agreed(p) ==
    /\ kind[p] = "GET" => had[p] = 0
    /\ order[p] \in {<<>>, <<had[p]>>}
    /\ sender[p].state = "wait" => kind[p] \in Transfer!Kinds
    /\ sender[p].state = "open" => kind[p] \in {"GET", "RESUME"}
    /\ sender[p].state = "recv" => kind[p] = "REGET"

(* Nothing has been sent, or what was sent and has not come is under way;   *)
(* no answer is for more than what has come.                                *)
Counts(p) ==
    /\ sender[p].state \in {"wait", "open", "recv"} =>
          /\ Under(p) = 0 /\ Got(p) = had[p]
          /\ sender[p].bytes_sent = getter[p].bytes_read
    /\ sender[p].state = "active" /\ p \notin lost =>
          /\ sender[p].pos = Got(p) + Under(p)
          /\ sender[p].bytes_sent = getter[p].bytes_read + Under(p)
    /\ sender[p].state = "active" => sender[p].pos =< Length /\ had[p] =< Length
    /\ \A k \in 1 .. Len(acks[p]) : acks[p][k] =< getter[p].bytes_read

Holds(p) == Contiguous(p) /\ Agreed(p) /\ Counts(p)

TInv == FileTyped /\ \A p \in Transfer!Programs : Holds(p)

(* What a step does to one file it does not do to the other.                *)
Untouched(q) ==
    /\ kind'[q] = kind[q] /\ had'[q] = had[q] /\ sender'[q] = sender[q]
    /\ getter'[q] = getter[q] /\ order'[q] = order[q] /\ data'[q] = data[q]
    /\ acks'[q] = acks[q] /\ (q \in lost' <=> q \in lost)

\* What holds of a pair whose files, positions and connection a step leaves alone still holds.
LEMMA UntouchedHolds ==
    ASSUME NEW q \in Transfer!Programs, Holds(q), Untouched(q)
    PROVE  Holds(q)'
  <1> USE DEF Untouched, Got, Under
  <1>1. Contiguous(q)'
    BY DEF Holds, Contiguous, Transfer!Bytes
  <1>2. Agreed(q)'
    BY DEF Holds, Agreed
  <1>3. Counts(q)'
    BY DEF Holds, Counts
  <1> QED
    BY <1>1, <1>2, <1>3 DEF Holds

(* A block is sent from pos, where what has come and is under way ends.     *)
LEMMA SendHolds ==
    ASSUME Transfer!SizesAssumption, TInv, NEW p \in Transfer!Programs, NEW pos \in Nat,
           Transfer!SendFrom(p, pos), pos =< Length, had[p] =< Length,
           UNCHANGED <<kind, had, size, getter, order, lost>>,
           acks' \in [Transfer!Programs -> Seq(Nat)],
           \A k \in 1 .. Len(acks'[p]) : acks'[p][k] =< getter[p].bytes_read,
           \A q \in Transfer!Programs \ {p} : acks'[q] = acks[q],
           p \notin lost => /\ Under(p) = 0 /\ pos = Got(p)
                            /\ sender[p].bytes_sent = getter[p].bytes_read
    PROVE  TInv'
  <1> DEFINE n == IF Length - pos < Block THEN Length - pos ELSE Block
  <1>1. n \in Int /\ n =< Block /\ pos + n =< Length /\ Length \in Nat /\ Block \in Nat
    BY DEF Transfer!SizesAssumption
  <1>2. sender[p] \in SenderType /\ getter[p] \in GetterType /\ data[p] \in Seq(Nat)
    BY DEF TInv, FileTyped
  <1>3. CASE n > 0
    <2> DEFINE s == [state |-> "active", pos |-> pos + n, bytes_sent |-> Transfer!Counted(p, n)]
               d == IF p \in lost THEN data[p] ELSE data[p] \o Transfer!Bytes(pos, n)
    <2>1. sender' = [sender EXCEPT ![p] = s] /\ data' = [data EXCEPT ![p] = d]
      BY <1>3 DEF Transfer!SendFrom
    <2> HIDE DEF n
    <2>2. s \in SenderType /\ s.bytes_sent = sender[p].bytes_sent + n /\ s.pos = pos + n
          /\ s.state = "active"
      BY <1>1, <1>2, <1>3 DEF SenderType, Transfer!Counted
    <2>3. d \in Seq(Nat) /\ d = Transfer!Bytes(Got(p), Len(d)) /\ Len(d) =< Block
          /\ Got(p) + Len(d) =< Length
          /\ (p \notin lost => Len(d) = n)
      <3>1. CASE p \in lost
        BY <1>2, <3>1 DEF TInv, Holds, Contiguous, Under
      <3>2. CASE p \notin lost
        <4>1. data[p] = <<>> /\ pos = Got(p)
          BY <1>2, <3>2 DEF Under
        <4>0. n \in Nat
          BY <1>1, <1>3
        <4>2. Transfer!Bytes(pos, n) \in Seq(Nat) /\ Len(Transfer!Bytes(pos, n)) = n
          BY <4>0, BytesAre
        <4>3. d = Transfer!Bytes(pos, n)
          BY <3>2, <4>1, <4>2
        <4> QED
          BY <1>1, <3>2, <4>1, <4>2, <4>3
      <3> QED
        BY <3>1, <3>2
    <2> HIDE DEF s, d
    <2>4. FileTyped'
      BY <2>1, <2>2, <2>3 DEF TInv, FileTyped
    <2>5. sender'[p] = s /\ data'[p] = d
      BY <2>1 DEF TInv, FileTyped
    <2>6. Contiguous(p)'
      BY <2>3, <2>5 DEF TInv, Holds, Contiguous, Got, Under
    <2>7. Agreed(p)'
      BY <2>2, <2>5 DEF TInv, Holds, Agreed
    <2>8. Counts(p)'
      BY <1>1, <2>2, <2>3, <2>5 DEF Counts, Got, Under
    <2>9. \A q \in Transfer!Programs \ {p} : Untouched(q)
      BY <2>1 DEF TInv, FileTyped, Untouched
    <2> QED
      BY <2>4, <2>6, <2>7, <2>8, <2>9, UntouchedHolds DEF TInv, Holds
  <1>4. CASE ~(n > 0)
    <2>1. sender' = [sender EXCEPT ![p].state = "closed"] /\ data' = data
      BY <1>4 DEF Transfer!SendFrom
    <2>2. FileTyped'
      BY <2>1 DEF TInv, FileTyped, SenderType
    <2>3. sender'[p].state = "closed"
      BY <2>1 DEF TInv, FileTyped, SenderType
    <2>4. Holds(p)'
      BY <2>1, <2>3 DEF TInv, Holds, Contiguous, Agreed, Counts, Got, Under
    <2>5. \A q \in Transfer!Programs \ {p} : Untouched(q)
      BY <2>1 DEF TInv, FileTyped, Untouched
    <2> QED
      BY <2>2, <2>4, <2>5, UntouchedHolds DEF TInv
  <1> QED
    BY <1>3, <1>4

----------------------------------------------------------------------------
(* The steps of a transfer.                                                 *)

(* A step that leaves every byte and every count: only the states of p and  *)
(* the order change.                                                        *)
LEMMA StatesHold ==
    ASSUME TInv, NEW p \in Transfer!Programs, NEW s, NEW g,
           sender' = [sender EXCEPT ![p].state = s], s \in {"wait", "open", "recv", "active", "closed"},
           getter' = [getter EXCEPT ![p].state = g], g \in {"offered", "pending", "active", "closed"},
           \/ s \in {sender[p].state, "closed"}
           \/ sender[p].state = "wait" /\ s = "open" /\ kind[p] # "REGET"
           \/ sender[p].state = "wait" /\ s = "recv" /\ kind[p] = "REGET",
           order' \in [Transfer!Programs -> Seq(Nat)],
           order'[p] \in {<<>>, <<had[p]>>}, \A q \in Transfer!Programs \ {p} : order'[q] = order[q],
           UNCHANGED <<kind, had, size, data, acks, lost>>
    PROVE  TInv'
  <1>1. /\ sender[p] \in SenderType /\ getter[p] \in GetterType
        /\ sender' \in [Transfer!Programs -> SenderType] /\ getter' \in [Transfer!Programs -> GetterType]
        /\ sender'[p].state = s /\ sender'[p].pos = sender[p].pos
        /\ sender'[p].bytes_sent = sender[p].bytes_sent
        /\ getter'[p].file = getter[p].file /\ getter'[p].bytes_read = getter[p].bytes_read
        /\ \A q \in Transfer!Programs \ {p} : sender'[q] = sender[q] /\ getter'[q] = getter[q]
    BY ZenonT(60) DEF TInv, FileTyped, SenderType, GetterType
  <1>2. FileTyped'
    BY <1>1 DEF TInv, FileTyped
  <1>7. /\ Got(p)' = Got(p) /\ Under(p)' = Under(p) /\ data'[p] = data[p] /\ had'[p] = had[p]
        /\ acks'[p] = acks[p] /\ lost' = lost
    BY <1>1 DEF Got, Under
  <1>3. Contiguous(p)'
    <2>1. Contiguous(p)
      BY DEF TInv, Holds
    <2> QED
      BY <1>1, <1>7, <2>1 DEF Contiguous, Transfer!Bytes
  <1>4. Agreed(p)'
    BY <1>1 DEF TInv, FileTyped, Holds, Agreed, Transfer!Kinds
  <1>5. Counts(p)'
    <2>1. Counts(p)
      BY DEF TInv, Holds
    <2> QED
      BY <1>1, <1>7, <2>1 DEF Counts
  <1>6. \A q \in Transfer!Programs \ {p} : Untouched(q)
    BY <1>1 DEF Untouched
  <1> QED
    BY <1>2, <1>3, <1>4, <1>5, <1>6, UntouchedHolds DEF TInv, Holds

\* A record that is set to what it is stays what it is; the states there are.
LEMMA SameFunctions ==
    ASSUME FileTyped, NEW p \in Transfer!Programs
    PROVE  /\ sender = [sender EXCEPT ![p].state = sender[p].state]
           /\ getter = [getter EXCEPT ![p].state = getter[p].state]
           /\ sender[p].state \in {"wait", "open", "recv", "active", "closed"}
           /\ getter[p].state \in {"offered", "pending", "active", "closed"}
  BY DEF FileTyped, SenderType, GetterType

\* The sender accepts the connection, and may then have to read a REGET.
LEMMA AcceptHolds ==
    ASSUME TInv, NEW p \in Transfer!Programs, Transfer!Accept(p)
    PROVE  TInv'
  <1> DEFINE s == IF kind[p] = "REGET" THEN "recv" ELSE "open"
  <1>1. /\ sender[p].state = "wait"
        /\ sender' = [sender EXCEPT ![p].state = s]
        /\ UNCHANGED <<kind, had, size, getter, order, data, acks, lost>>
    BY DEF Transfer!Accept, Transfer!fixed
  <1>2. getter' = [getter EXCEPT ![p].state = getter[p].state]
        /\ getter[p].state \in {"offered", "pending", "active", "closed"}
    BY <1>1, SameFunctions DEF TInv
  <1>3. \/ s = "open" /\ kind[p] # "REGET"
        \/ s = "recv" /\ kind[p] = "REGET"
    OBVIOUS
  <1>4. order' \in [Transfer!Programs -> Seq(Nat)] /\ order'[p] \in {<<>>, <<had[p]>>}
    BY <1>1 DEF TInv, FileTyped, Holds, Agreed
  <1> HIDE DEF s
  <1> QED
    BY <1>1, <1>2, <1>3, <1>4, StatesHold

(* The first block is sent from where the getter's file ends.               *)
LEMMA SendFirstHolds ==
    ASSUME Transfer!SizesAssumption, TInv, NEW p \in Transfer!Programs, Transfer!SendFirst(p)
    PROVE  TInv'
  <1>1. /\ sender[p].state \in {"open", "recv"}
        /\ sender[p].state = "recv" => order[p] # <<>>
        /\ UNCHANGED <<kind, had, size, getter, order, acks, lost>>
        /\ IF Transfer!Seek(p) > Length
           THEN sender' = [sender EXCEPT ![p].state = "closed"] /\ UNCHANGED data
           ELSE Transfer!SendFrom(p, Transfer!Seek(p))
    BY DEF Transfer!SendFirst, Transfer!fixed
  <1>2. Transfer!Seek(p) = had[p]
    <2>1. Agreed(p)
      BY DEF TInv, Holds
    <2>2. CASE kind[p] = "REGET"
      <3>1. order[p] = <<had[p]>>
        BY <1>1, <2>1, <2>2 DEF Agreed
      <3> QED
        BY <2>2, <3>1 DEF Transfer!Seek
    <2>3. CASE kind[p] = "RESUME"
      BY <2>3 DEF Transfer!Seek
    <2>4. CASE kind[p] = "GET"
      BY <2>1, <2>4 DEF Agreed, Transfer!Seek
    <2> QED
      BY <1>1, <2>1, <2>2, <2>3, <2>4 DEF Agreed
  <1>3. had[p] \in Nat /\ Length \in Nat
    BY DEF TInv, FileTyped, Transfer!SizesAssumption
  <1>4. CASE had[p] > Length
    <2>1. sender' = [sender EXCEPT ![p].state = "closed"] /\ data' = data
      BY <1>1, <1>2, <1>4
    <2>2. getter' = [getter EXCEPT ![p].state = getter[p].state]
          /\ getter[p].state \in {"offered", "pending", "active", "closed"}
      BY <1>1, SameFunctions DEF TInv
    <2>3. order' \in [Transfer!Programs -> Seq(Nat)] /\ order'[p] \in {<<>>, <<had[p]>>}
      BY <1>1 DEF TInv, FileTyped, Holds, Agreed
    <2> QED
      BY <1>1, <2>1, <2>2, <2>3, StatesHold
  <1>5. CASE ~(had[p] > Length)
    <2>1. Transfer!SendFrom(p, had[p]) /\ had[p] =< Length
      BY <1>1, <1>2, <1>3, <1>5
    <2>2. /\ Under(p) = 0 /\ had[p] = Got(p)
          /\ sender[p].bytes_sent = getter[p].bytes_read
      BY <1>1 DEF TInv, Holds, Counts
    <2>3. /\ acks' \in [Transfer!Programs -> Seq(Nat)]
          /\ \A k \in 1 .. Len(acks'[p]) : acks'[p][k] =< getter[p].bytes_read
          /\ \A q \in Transfer!Programs \ {p} : acks'[q] = acks[q]
      BY <1>1 DEF TInv, FileTyped, Holds, Counts
    <2> QED
      BY <1>1, <1>3, <2>1, <2>2, <2>3, SendHolds
  <1> QED
    BY <1>4, <1>5

(* The last acknowledgement says that nothing is under way.                 *)
LEMMA ReadAckHolds ==
    ASSUME Transfer!SizesAssumption, TInv, NEW p \in Transfer!Programs, Transfer!ReadAck(p)
    PROVE  TInv'
  <1>1. /\ sender[p].state = "active" /\ acks[p] # <<>>
        /\ acks' = [acks EXCEPT ![p] = Tail(acks[p])]
        /\ IF Transfer!IsLastAck(p) THEN Transfer!SendFrom(p, sender[p].pos) ELSE UNCHANGED <<sender, data>>
        /\ UNCHANGED <<kind, had, size, getter, order, lost>>
    BY DEF Transfer!ReadAck, Transfer!fixed
  <1>2. acks \in [Transfer!Programs -> Seq(Nat)] /\ acks[p] \in Seq(Nat)
        /\ \A k \in 1 .. Len(acks[p]) : acks[p][k] =< getter[p].bytes_read
    BY DEF TInv, FileTyped, Holds, Counts
  <1>3. /\ acks' \in [Transfer!Programs -> Seq(Nat)] /\ acks'[p] = Tail(acks[p])
        /\ \A q \in Transfer!Programs \ {p} : acks'[q] = acks[q]
    BY <1>1, <1>2
  <1>4. \A k \in 1 .. Len(acks'[p]) : acks'[p][k] =< getter[p].bytes_read
    <2> DEFINE a == acks[p]
    <2>1. a \in Seq(Nat) /\ a # <<>> /\ \A k \in 1 .. Len(a) : a[k] =< getter[p].bytes_read
      BY <1>1, <1>2
    <2> HIDE DEF a
    <2>2. \A k \in 1 .. Len(Tail(a)) : k + 1 \in 1 .. Len(a) /\ Tail(a)[k] = a[k + 1]
      BY <2>1
    <2>3. \A k \in 1 .. Len(Tail(a)) : Tail(a)[k] =< getter[p].bytes_read
      BY <2>1, <2>2
    <2> QED
      BY <1>3, <2>3 DEF a
  <1>5. CASE Transfer!IsLastAck(p)
    <2>1. Transfer!SendFrom(p, sender[p].pos) /\ sender[p].pos =< Length /\ had[p] =< Length
      BY <1>1, <1>5 DEF TInv, Holds, Counts
    <2>2. sender[p].pos \in Nat /\ getter[p].bytes_read \in Nat /\ Under(p) \in Nat
      BY DEF TInv, FileTyped, SenderType, GetterType, Under
    <2>3. Head(acks[p]) =< getter[p].bytes_read /\ Head(acks[p]) = sender[p].bytes_sent
      BY <1>1, <1>2, <1>5 DEF Transfer!IsLastAck
    <2>4. ASSUME p \notin lost
          PROVE  /\ Under(p) = 0 /\ sender[p].pos = Got(p)
                 /\ sender[p].bytes_sent = getter[p].bytes_read
      <3>1. /\ sender[p].pos = Got(p) + Under(p)
            /\ sender[p].bytes_sent = getter[p].bytes_read + Under(p)
        BY <1>1, <2>4 DEF TInv, Holds, Counts
      <3>2. Got(p) \in Nat
        BY DEF TInv, FileTyped, GetterType, Got
      <3> QED
        BY <2>2, <2>3, <3>1, <3>2
    <2> QED
      BY <1>1, <1>3, <1>4, <2>1, <2>2, <2>4, SendHolds
  <1>6. CASE ~Transfer!IsLastAck(p)
    <2>1. UNCHANGED <<sender, data>>
      BY <1>1, <1>6
    <2>2. FileTyped'
      BY <1>1, <1>3, <2>1 DEF TInv, FileTyped
    <2>3. Contiguous(p)'
      BY <1>1, <2>1 DEF TInv, Holds, Contiguous, Got, Under, Transfer!Bytes
    <2>4. Agreed(p)' /\ Counts(p)'
      BY <1>1, <1>4, <2>1 DEF TInv, Holds, Agreed, Counts, Got, Under
    <2>5. \A q \in Transfer!Programs \ {p} : Untouched(q)
      BY <1>1, <1>3, <2>1 DEF Untouched
    <2> QED
      BY <2>2, <2>3, <2>4, <2>5, UntouchedHolds DEF TInv, Holds
  <1> QED
    BY <1>5, <1>6

(* What is read is the beginning of what is under way.                      *)
LEMMA ReadHolds ==
    ASSUME Transfer!SizesAssumption, TInv, NEW p \in Transfer!Programs, NEW n \in 1 .. MaxRead,
           Transfer!ProcessIncomingFile(p, n)
    PROVE  TInv'
  <1> DEFINE read == getter[p].bytes_read + n
             after == IF size[p] # 0 /\ read >= size[p] THEN "closed" ELSE "active"
             d == data[p]
             file == getter[p].file \o SubSeq(d, 1, n)
             rest == SubSeq(d, n + 1, Len(d))
             g == [state |-> after, file |-> file, bytes_read |-> read]
  <1>1. /\ n =< Len(d)
        /\ getter' = [getter EXCEPT ![p] = g]
        /\ data' = [data EXCEPT ![p] = rest]
        /\ acks' = [acks EXCEPT ![p] = Append(acks[p], read)]
        /\ UNCHANGED <<kind, had, size, sender, order, lost>>
    BY DEF Transfer!ProcessIncomingFile, Transfer!fixed
  <1>2. n \in Nat \ {0}
    BY DEF Transfer!SizesAssumption
  <1>3. /\ d \in Seq(Nat) /\ getter[p].file \in Seq(Nat) /\ getter[p].bytes_read \in Nat
        /\ acks[p] \in Seq(Nat) /\ sender[p] \in SenderType
    BY DEF TInv, FileTyped, GetterType
  <1>4. /\ Got(p) \in Nat /\ Under(p) \in Nat /\ n =< Under(p) /\ Len(d) = Under(p)
        /\ getter[p].file = Transfer!Bytes(0, Got(p)) /\ d = Transfer!Bytes(Got(p), Under(p))
    <2>1. Contiguous(p)
      BY DEF TInv, Holds
    <2>2. Len(d) \in Nat /\ Len(getter[p].file) \in Nat
      BY <1>3
    <2> QED
      BY <1>1, <2>1, <2>2 DEF Contiguous, Got, Under
  <1>5. file = Transfer!Bytes(0, Got(p) + n) /\ rest = Transfer!Bytes(Got(p) + n, Under(p) - n)
    <2>1. n \in 0 .. Under(p)
      BY <1>2, <1>4
    <2>2. SubSeq(d, 1, n) = Transfer!Bytes(Got(p), n) /\ rest = Transfer!Bytes(Got(p) + n, Under(p) - n)
      BY <1>4, <2>1, BytesCut, ZenonT(60)
    <2>3. Transfer!Bytes(0, Got(p)) \o Transfer!Bytes(0 + Got(p), n) = Transfer!Bytes(0, Got(p) + n)
      BY <1>2, <1>4, BytesJoined
    <2>4. 0 + Got(p) = Got(p)
      BY <1>4
    <2> QED
      BY <1>4, <2>2, <2>3, <2>4
  <1>6. /\ file \in Seq(Nat) /\ Len(file) = Got(p) + n
        /\ rest \in Seq(Nat) /\ Len(rest) = Under(p) - n
    <2>1. Got(p) + n \in Nat /\ Under(p) - n \in Nat
      BY <1>2, <1>4
    <2> HIDE DEF file, rest
    <2> QED
      BY <1>5, <2>1, BytesAre
  <1>7. read \in Nat /\ after \in {"active", "closed"} /\ read >= getter[p].bytes_read
    BY <1>2, <1>3
  <1> HIDE DEF file, rest, read, after
  <1>8. g \in GetterType /\ g.file = file /\ g.bytes_read = read
    BY <1>6, <1>7 DEF GetterType
  <1> HIDE DEF g
  <1>9. Append(acks[p], read) \in Seq(Nat)
    BY <1>3, <1>7
  <1>10. /\ getter'[p] = g /\ data'[p] = rest /\ acks'[p] = Append(acks[p], read)
         /\ \A q \in Transfer!Programs \ {p} : Untouched(q)
    BY <1>1 DEF TInv, FileTyped, Untouched
  <1>11. FileTyped'
    BY <1>1, <1>6, <1>8, <1>9 DEF TInv, FileTyped
  <1>12. Got(p)' = Got(p) + n /\ Under(p)' = Under(p) - n
    BY <1>6, <1>8, <1>10 DEF Got, Under
  <1>13. Contiguous(p)'
    <2>1. getter'[p].file = Transfer!Bytes(0, Got(p)') /\ data'[p] = Transfer!Bytes(Got(p)', Under(p)')
      BY <1>5, <1>8, <1>10, <1>12
    <2>2. had'[p] = had[p]
      BY <1>1
    <2>3. had[p] =< Length => Got(p)' + Under(p)' =< Length
      BY <1>2, <1>4, <1>12 DEF TInv, Holds, Contiguous
    <2>4. Under(p)' =< Block
      BY <1>2, <1>4, <1>12 DEF TInv, Holds, Contiguous, Transfer!SizesAssumption
    <2> QED
      BY <2>1, <2>2, <2>3, <2>4 DEF Contiguous, Transfer!Bytes
  <1>14. Agreed(p)'
    BY <1>1 DEF TInv, Holds, Agreed
  <1>15. Counts(p)'
    <2>1. sender[p].state \notin {"wait", "open", "recv"}
      BY <1>2, <1>4 DEF TInv, Holds, Counts
    <2>2. sender'[p] = sender[p] /\ had'[p] = had[p] /\ lost' = lost
          /\ getter'[p].bytes_read = getter[p].bytes_read + n
      BY <1>1, <1>8, <1>10 DEF read
    <2>3. sender[p].state = "active" /\ p \notin lost =>
             /\ sender[p].pos = Got(p)' + Under(p)'
             /\ sender[p].bytes_sent = getter'[p].bytes_read + Under(p)'
      BY <1>2, <1>3, <1>4, <1>12, <2>2, SMTT(30) DEF TInv, Holds, Counts
    <2>4. sender[p].state = "active" => sender[p].pos =< Length /\ had[p] =< Length
      BY DEF TInv, Holds, Counts
    <2>5. ASSUME NEW k \in 1 .. Len(acks'[p]) PROVE acks'[p][k] =< getter'[p].bytes_read
      <3> DEFINE a == acks[p]
      <3>1. a \in Seq(Nat) /\ \A i \in 1 .. Len(a) : a[i] \in Nat /\ a[i] =< getter[p].bytes_read
        BY <1>3 DEF TInv, Holds, Counts
      <3>2. k \in 1 .. Len(Append(a, read))
        BY <1>10, <2>5
      <3> HIDE DEF a
      <3>3. CASE k \in 1 .. Len(a)
        <4>1. Append(a, read)[k] = a[k]
          BY <1>7, <3>1, <3>3
        <4>2. a[k] =< read
          BY <1>3, <1>7, <3>1, <3>3, SMTT(30)
        <4> QED
          BY <1>8, <1>10, <4>1, <4>2 DEF a
      <3>4. CASE k \notin 1 .. Len(a)
        <4>1. Append(a, read)[k] = read
          BY <1>7, <3>1, <3>2, <3>4
        <4> QED
          BY <1>7, <1>8, <1>10, <4>1 DEF a
      <3> QED
        BY <3>3, <3>4
    <2> QED
      BY <2>1, <2>2, <2>3, <2>4, <2>5 DEF Counts
  <1> QED
    BY <1>10, <1>11, <1>13, <1>14, <1>15, UntouchedHolds DEF TInv, Holds

\* The sender finds its connection lost.
LEMMA SenderLostHolds ==
    ASSUME TInv, NEW p \in Transfer!Programs, Transfer!SenderLost(p)
    PROVE  TInv'
  <1>1. /\ sender' = [sender EXCEPT ![p].state = "closed"]
        /\ UNCHANGED <<kind, had, size, getter, order, data, acks, lost>>
    BY DEF Transfer!SenderLost, Transfer!fixed
  <1>2. getter' = [getter EXCEPT ![p].state = getter[p].state]
        /\ getter[p].state \in {"offered", "pending", "active", "closed"}
    BY <1>1, SameFunctions DEF TInv
  <1>3. order' \in [Transfer!Programs -> Seq(Nat)] /\ order'[p] \in {<<>>, <<had[p]>>}
    BY <1>1 DEF TInv, FileTyped, Holds, Agreed
  <1> QED
    BY <1>1, <1>2, <1>3, StatesHold

(* The getter's side but for reading.                                       *)
LEMMA GetterHolds ==
    ASSUME TInv, NEW p \in Transfer!Programs, Transfer!Connect(p) \/ Transfer!DccGotConnected(p) \/ Transfer!EndOfFile(p)
    PROVE  TInv'
  <1>1. PICK g \in {"pending", "active", "closed"} : getter' = [getter EXCEPT ![p].state = g]
    BY DEF Transfer!Connect, Transfer!DccGotConnected, Transfer!EndOfFile
  <1>2. /\ UNCHANGED <<kind, had, size, sender, data, acks, lost>>
        /\ order' = order
           \/ order' = [order EXCEPT ![p] = IF kind[p] = "REGET" THEN <<had[p]>> ELSE <<>>]
    BY DEF Transfer!Connect, Transfer!DccGotConnected, Transfer!EndOfFile, Transfer!fixed
  <1>3. /\ order' \in [Transfer!Programs -> Seq(Nat)] /\ order'[p] \in {<<>>, <<had[p]>>}
        /\ \A q \in Transfer!Programs \ {p} : order'[q] = order[q]
    <2>1. order \in [Transfer!Programs -> Seq(Nat)] /\ order[p] \in {<<>>, <<had[p]>>} /\ had[p] \in Nat
      BY DEF TInv, FileTyped, Holds, Agreed
    <2>2. <<>> \in Seq(Nat) /\ <<had[p]>> \in Seq(Nat)
      BY <2>1
    <2> QED
      BY <1>2, <2>1, <2>2
  <1>4. sender' = [sender EXCEPT ![p].state = sender[p].state]
        /\ sender[p].state \in {"wait", "open", "recv", "active", "closed"}
    BY <1>2, SameFunctions DEF TInv
  <1> QED
    BY <1>1, <1>2, <1>3, <1>4, StatesHold

(* What has been sent may not arrive.                                       *)
LEMMA LoseHolds ==
    ASSUME Transfer!SizesAssumption, TInv, NEW p \in Transfer!Programs, Transfer!Lose(p)
    PROVE  TInv'
  <1>1. /\ lost' = lost \cup {p}
        /\ UNCHANGED <<kind, had, size, sender, getter, order, acks>>
    BY DEF Transfer!Lose, Transfer!fixed
  <1>2. PICK n \in 0 .. (IF getter[p].state = "pending" THEN 0 ELSE Len(data[p])) :
            data' = [data EXCEPT ![p] = SubSeq(data[p], 1, n)]
    BY DEF Transfer!Lose
  <1> DEFINE d == SubSeq(data[p], 1, n)
  <1>3. data \in [Transfer!Programs -> Seq(Nat)] /\ data[p] \in Seq(Nat) /\ getter[p].file \in Seq(Nat)
    BY DEF TInv, FileTyped, GetterType
  <1>4. Contiguous(p) /\ Under(p) \in Nat /\ Got(p) \in Nat /\ n \in 0 .. Under(p)
    BY <1>2, <1>3 DEF TInv, Holds, Under, Got
  <1>5. d = Transfer!Bytes(Got(p), n)
    BY <1>4, BytesCut DEF Contiguous
  <1>6. d \in Seq(Nat) /\ Len(d) = n
    BY <1>3, <1>4 DEF Under
  <1> HIDE DEF d
  <1>7. /\ data' \in [Transfer!Programs -> Seq(Nat)] /\ data'[p] = d
        /\ \A q \in Transfer!Programs \ {p} : data'[q] = data[q]
    BY <1>2, <1>3, <1>6 DEF d
  <1>8. Got(p)' = Got(p) /\ Under(p)' = n /\ had'[p] = had[p] /\ getter'[p] = getter[p]
    BY <1>1, <1>6, <1>7 DEF Got, Under
  <1>9. FileTyped'
    BY <1>1, <1>7 DEF TInv, FileTyped
  <1>10. Contiguous(p)'
    <2>1. /\ getter'[p].file = Transfer!Bytes(0, Got(p)') /\ data'[p] = Transfer!Bytes(Got(p)', Under(p)')
          /\ (had[p] =< Length => Got(p) + Under(p) =< Length) /\ Under(p) =< Block
      BY <1>4, <1>5, <1>7, <1>8 DEF Contiguous
    <2>2. n =< Under(p) /\ n \in Nat
      BY <1>4
    <2>3. had'[p] =< Length => Got(p)' + Under(p)' =< Length
      <3>1. CASE had[p] =< Length
        <4>1. Got(p) + n =< Got(p) + Under(p) /\ Got(p) + Under(p) =< Length
          BY <1>4, <2>1, <2>2, <3>1
        <4> QED
          BY <1>4, <1>8, <2>2, <4>1 DEF Transfer!SizesAssumption
      <3> QED
        BY <1>8, <3>1
    <2> QED
      BY <1>4, <1>8, <2>1, <2>2, <2>3 DEF Contiguous, Transfer!Bytes, Transfer!SizesAssumption
  <1>11. Agreed(p)'
    BY <1>1 DEF TInv, Holds, Agreed
  <1>12. Counts(p)'
    <2>1. Counts(p)
      BY DEF TInv, Holds
    <2>2. sender[p].state \in {"wait", "open", "recv"} => n = 0
      BY <1>4, <2>1 DEF Counts
    <2> QED
      BY <1>1, <1>8, <2>1, <2>2 DEF Counts
  <1>13. \A q \in Transfer!Programs \ {p} : Untouched(q)
    BY <1>1, <1>7 DEF Untouched
  <1> QED
    BY <1>9, <1>10, <1>11, <1>12, <1>13, UntouchedHolds DEF TInv, Holds

\* The invariant holds before anything is offered.
LEMMA InitTInv ==
    ASSUME Transfer!PairsAssumption, Transfer!SizesAssumption
    PROVE  Transfer!Init => TInv
  <1> SUFFICES ASSUME Transfer!Init PROVE TInv
    OBVIOUS
  <1>1. Length \in Nat \ {0} /\ Block \in Nat \ {0}
    BY DEF Transfer!SizesAssumption
  <1>2. /\ kind \in [Transfer!Programs -> Transfer!Kinds \cup {Transfer!None}]
        /\ had \in [Transfer!Programs -> {0, Length - 1, Length, Length + 1}]
        /\ size \in [Transfer!Programs -> {0, Length}]
    BY DEF Transfer!Init, Transfer!PairsAssumption
  <1>3. had \in [Transfer!Programs -> Nat] /\ size \in [Transfer!Programs -> Nat]
    BY <1>1, <1>2
  <1>4. ASSUME NEW p \in Transfer!Programs
        PROVE  /\ sender[p] \in SenderType /\ getter[p] \in GetterType
               /\ getter[p].file = Transfer!Bytes(0, had[p]) /\ Got(p) = had[p]
               /\ sender[p].bytes_sent = getter[p].bytes_read
               /\ sender[p].state \in {"wait", "closed"}
               /\ sender[p].state = "wait" => kind[p] # Transfer!None
    <2>1. had[p] \in Nat
      BY <1>3
    <2>2. Transfer!Bytes(0, had[p]) \in Seq(Nat) /\ Len(Transfer!Bytes(0, had[p])) = had[p]
      BY <2>1, BytesAre
    <2>3. /\ sender[p] = [state |-> IF kind[p] = Transfer!None THEN "closed" ELSE "wait", pos |-> 0,
                          bytes_sent |-> IF kind[p] = "RESUME" THEN had[p] ELSE 0]
          /\ getter[p] = [state |-> IF kind[p] = Transfer!None THEN "closed" ELSE "offered",
                          file |-> Transfer!Bytes(0, had[p]),
                          bytes_read |-> IF kind[p] = "RESUME" THEN had[p] ELSE 0]
      BY DEF Transfer!Init
    <2> QED
      BY <2>1, <2>2, <2>3 DEF SenderType, GetterType, Got
  <1>5. /\ order = [p \in Transfer!Programs |-> <<>>] /\ data = [p \in Transfer!Programs |-> <<>>]
        /\ acks = [p \in Transfer!Programs |-> <<>>]
    BY DEF Transfer!Init
  <1>6. FileTyped
    <2>1. sender \in [Transfer!Programs -> SenderType] /\ getter \in [Transfer!Programs -> GetterType]
      <3>1. sender = [p \in Transfer!Programs |-> sender[p]] /\ getter = [p \in Transfer!Programs |-> getter[p]]
        BY DEF Transfer!Init
      <3> QED
        BY <1>4, <3>1
    <2>2. /\ order \in [Transfer!Programs -> Seq(Nat)] /\ data \in [Transfer!Programs -> Seq(Nat)]
          /\ acks \in [Transfer!Programs -> Seq(Nat)]
      BY <1>5
    <2> QED
      BY <1>2, <1>3, <2>1, <2>2 DEF FileTyped
  <1>7. ASSUME NEW p \in Transfer!Programs PROVE Holds(p)
    <2>1. Under(p) = 0 /\ data[p] = <<>> /\ order[p] = <<>> /\ acks[p] = <<>>
      BY <1>5 DEF Under
    <2>2. had[p] \in Nat
      BY <1>3
    <2>3. Contiguous(p)
      <3>1. data[p] = Transfer!Bytes(had[p], 0)
        BY <2>1, <2>2 DEF Transfer!Bytes
      <3> QED
        BY <1>1, <1>4, <2>1, <2>2, <3>1 DEF Contiguous
    <2>4. Agreed(p)
      BY <1>2, <1>4, <2>1 DEF Agreed, Transfer!Init
    <2>5. Counts(p)
      BY <1>4, <2>1 DEF Counts
    <2> QED
      BY <2>3, <2>4, <2>5 DEF Holds
  <1> QED
    BY <1>6, <1>7 DEF TInv

\* Every step keeps it.
LEMMA NextTInv ==
    ASSUME Transfer!SizesAssumption
    PROVE  TInv /\ [Transfer!Next]_(Transfer!vars) => TInv'
  <1> SUFFICES ASSUME TInv, [Transfer!Next]_(Transfer!vars) PROVE TInv'
    OBVIOUS
  <1>1. CASE UNCHANGED Transfer!vars
    <2>1. UNCHANGED <<kind, had, size, sender, getter, order, data, acks, lost>>
      BY <1>1 DEF Transfer!vars
    <2>2. FileTyped' /\ \A p \in Transfer!Programs : Untouched(p)
      BY <2>1 DEF TInv, FileTyped, Untouched
    <2> QED
      BY <2>2, UntouchedHolds DEF TInv
  <1>2. ASSUME NEW p \in Transfer!Programs, Transfer!Step(p) PROVE TInv'
    BY <1>2, AcceptHolds, SendFirstHolds, ReadAckHolds, SenderLostHolds, GetterHolds, ReadHolds
       DEF Transfer!Step
  <1>3. ASSUME NEW p \in Transfer!Programs, Transfer!Lose(p) PROVE TInv'
    BY <1>3, LoseHolds
  <1> QED
    BY <1>1, <1>2, <1>3 DEF Transfer!Next

(* What follows for the file that is fetched.                               *)
LEMMA PrefixKept == ASSUME Transfer!SizesAssumption PROVE TInv => Transfer!FileIsPrefix
  <1> SUFFICES ASSUME TInv, NEW p \in Transfer!Sending, had[p] =< Length
               PROVE  Transfer!IsPrefix(getter[p].file, Transfer!Bytes(0, Length))
    BY DEF Transfer!FileIsPrefix
  <1>1. p \in Transfer!Programs /\ Length \in Nat
    BY DEF Transfer!Sending, Transfer!SizesAssumption
  <1>2. /\ Got(p) \in Nat /\ Under(p) \in Nat /\ Got(p) + Under(p) =< Length
        /\ getter[p].file = Transfer!Bytes(0, Got(p))
    BY <1>1 DEF TInv, FileTyped, GetterType, Holds, Contiguous, Got, Under
  <1>3. Got(p) \in 0 .. Length
    BY <1>1, <1>2
  <1>4. SubSeq(Transfer!Bytes(0, Length), 1, Got(p)) = Transfer!Bytes(0, Got(p))
    BY <1>1, <1>3, BytesCut
  <1>5. SubSeq(Transfer!Bytes(0, Got(p)), 1, Got(p)) = Transfer!Bytes(0, Got(p))
    BY <1>2, BytesCut
  <1>6. Len(Transfer!Bytes(0, Length)) = Length /\ Len(Transfer!Bytes(0, Got(p))) = Got(p)
    BY <1>1, <1>2, BytesAre
  <1> QED
    BY <1>2, <1>3, <1>4, <1>5, <1>6 DEF Transfer!IsPrefix

LEMMA BlockKept == TInv => Transfer!OneBlock
  BY DEF TInv, Holds, Contiguous, Transfer!OneBlock, Transfer!Sending, Under

----------------------------------------------------------------------------
(* The composition.                                                         *)

(* A step of it is one of each component, or leaves it alone.               *)
LEMMA ByteSteps ==
    [Next]_vars => [Output!Next]_(Output!vars) /\ [Transfer!Next]_(Transfer!vars)
  BY DEF Next, vars, outputVars, transferVars, Output!vars, Transfer!vars

LEMMA ByteInits == Init => Output!Init /\ Transfer!Init
  BY DEF Init

LEMMA ByteAssumed ==
    Output!SizesAssumption /\ Transfer!PairsAssumption /\ Transfer!SizesAssumption
  BY OutputAssumption, TransferAssumption

(* So both invariants hold throughout.                                      *)
LEMMA BytesInvariant == Spec => [](NInv /\ TInv)
  <1>1. Init => NInv /\ TInv
    BY ByteInits, ByteAssumed, InitNInv, InitTInv
  <1>2. NInv /\ TInv /\ [Next]_vars => (NInv /\ TInv)'
    BY ByteSteps, ByteAssumed, NextNInv, NextTInv
  <1> QED
    BY <1>1, <1>2, PTL DEF Spec

(* The types hold of every state, for any sizes: the buffer never holds     *)
(* more than one read fills it with, and the line always has room.          *)
THEOREM BufferFits == Spec => []Output!TypeOK
  <1>1. NInv => Output!TypeOK
    BY DEF NInv
  <1> QED
    BY <1>1, BytesInvariant, PTL

(* The file that is fetched is at every moment the beginning of the file    *)
(* that is sent, got from the start, from where an earlier attempt ended or *)
(* resumed, however reads are cut and wherever the connection is lost; at   *)
(* most one block of it is under way; and what a process writes comes in    *)
(* order, each byte once, however dgets cuts it into reads and pieces, with *)
(* no more than a line without an end dropped when the process ends.        *)
THEOREM BytesComeWhole == Spec => []NoByteLost
  <1>1. NInv => Output!NothingIsLost
    BY DEF NInv, Whole, Output!NothingIsLost, Came
  <1>2. NInv /\ TInv => NoByteLost
    BY <1>1, ByteAssumed, PrefixKept, BlockKept DEF NoByteLost
  <1> QED
    BY <1>2, BytesInvariant, PTL
=============================================================================
