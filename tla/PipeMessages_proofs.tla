------------------------ MODULE PipeMessages_proofs ------------------------
(***************************************************************************)
(* For messages of any length: what the parent of Lab_01/fifth.c and       *)
(* lab_04.c reads is what the children wrote, in its order, and it comes   *)
(* in whole messages unless the second child wrote first.                  *)
(***************************************************************************)
EXTENDS PipeMessages, SequenceTheorems, TLAPS

\* The bytes that children writing in this order put into the pipe.
Stream(order) == FlattenSeq([n \in DOMAIN order |-> Message(order[n])])

\* What the first read() takes of them, and what it leaves.
Cut(bytes) == IF FIRST < Len(bytes) THEN FIRST ELSE Len(bytes)
Taken(bytes) == SubSeq(bytes, 1, Cut(bytes))
Left(bytes) == SubSeq(bytes, Cut(bytes) + 1, Len(bytes))

\* Every child writes once, if it does; the second may overtake the first.
InOrder == {<<>>, <<0>>, <<0, 1>>}
Overtaken == {<<1>>, <<1, 0>>}
Orders == InOrder \cup Overtaken
BeforeWrite == {"unborn", "close_read", "test", "sleep", "test_again", "write"}

WroteInv ==
  /\ wrote \in Orders
  /\ \A c \in Child : pc[c] \in BeforeWrite => \A n \in DOMAIN wrote : wrote[n] # c

\* The parent reads only when it has waited for both children.
ParentInv ==
  /\ main = "pipe" => next = 0
  /\ main \in {"fork", "wait"} => next \in {0, 1}
  /\ main \in {"pipe", "fork"} => \A c \in Child : c >= next => pc[c] = "unborn"
  /\ main = "wait" /\ next = 1 => Ended(0)
  /\ main \in {"close_write", "read", "close_read", "exit0"} => \A c \in Child : Ended(c)
  /\ main = "close_write" => next = 0
  /\ main \in {"pipe", "fork", "wait", "close_write"} => reads = <<>>
  /\ main = "read" => next = Len(reads) /\ next < Rounds
  /\ reads # <<>> => \A c \in Child : Ended(c)
  /\ Len(reads) <= 3

\* The pipe holds what was written and has not been read.
ContentInv ==
  /\ reads = <<>> => pipe = Stream(wrote)
  /\ Len(reads) >= 1 => reads[1] = Taken(Stream(wrote))
  /\ Len(reads) = 1 => pipe = Left(Stream(wrote))
  /\ Len(reads) >= 2 => reads[2] = Left(Stream(wrote)) /\ pipe = <<>>
  /\ Len(reads) = 3 => reads[3] = <<>>

IInv == TypeOK /\ WroteInv /\ ParentInv /\ ContentInv
-----------------------------------------------------------------------------
(* Messages and streams. *)

LEMMA MessageIsSeq ==
  ASSUME NEW c \in Child
  PROVE  /\ Message(c) \in Seq(Child) /\ Len(Message(c)) = Length(c)
         /\ Length(c) \in Nat \ {0} /\ \A k \in 1 .. Length(c) : Message(c)[k] = c
<1>1. Length(c) \in Nat \ {0}
  BY PipeAssumption DEF Length
<1>2. Message(c) \in [1 .. Length(c) -> Child]
  BY DEF Message
<1> QED
  BY <1>1, <1>2 DEF Message

\* FlattenSeq() of one sequence, and of two.
LEMMA FlattenOne ==
  ASSUME NEW T, NEW s \in Seq(T), Len(s) = 1
  PROVE  FlattenSeq(s) = s[1]
<1> DEFINE f == CHOOSE f : f = [i \in 1 .. Len(s) |-> IF i = 1 THEN s[i] ELSE f[i - 1] \o s[i]]
           g == [i \in 1 .. Len(s) |-> s[i]]
<1>1. g = [i \in 1 .. Len(s) |-> IF i = 1 THEN s[i] ELSE g[i - 1] \o s[i]]
  OBVIOUS
<1>2. f = [i \in 1 .. Len(s) |-> IF i = 1 THEN s[i] ELSE f[i - 1] \o s[i]]
  <2> HIDE DEF g
  <2> QED
    BY <1>1, Zenon
<1>3. f[1] = s[1]
  <2> HIDE DEF f
  <2> QED
    BY <1>2
<1>4. Len(s) # 0
  OBVIOUS
<1>5. FlattenSeq(s) = f[Len(s)]
  BY <1>4, Zenon DEF FlattenSeq
<1> QED
  BY <1>3, <1>5

LEMMA FlattenTwo ==
  ASSUME NEW T, NEW s \in Seq(T), Len(s) = 2
  PROVE  FlattenSeq(s) = s[1] \o s[2]
<1> DEFINE f == CHOOSE f : f = [i \in 1 .. Len(s) |-> IF i = 1 THEN s[i] ELSE f[i - 1] \o s[i]]
           g == [i \in 1 .. Len(s) |-> IF i = 1 THEN s[i] ELSE s[1] \o s[2]]
<1>1. g = [i \in 1 .. Len(s) |-> IF i = 1 THEN s[i] ELSE g[i - 1] \o s[i]]
  OBVIOUS
<1>2. f = [i \in 1 .. Len(s) |-> IF i = 1 THEN s[i] ELSE f[i - 1] \o s[i]]
  <2> HIDE DEF g
  <2> QED
    BY <1>1, Zenon
<1>3. f[2] = s[1] \o s[2]
  <2> HIDE DEF f
  <2>1. f[1] = s[1]
    BY <1>2
  <2>2. f[2] = f[2 - 1] \o s[2]
    BY <1>2
  <2>3. 2 - 1 = 1
    OBVIOUS
  <2>4. f[2] = f[1] \o s[2]
    BY <2>2, <2>3, Zenon
  <2> QED
    BY <2>1, <2>4, Zenon
<1>4. Len(s) # 0
  OBVIOUS
<1>5. FlattenSeq(s) = f[Len(s)]
  BY <1>4, Zenon DEF FlattenSeq
<1> QED
  BY <1>3, <1>5

\* The five streams there can be.
LEMMA Streams ==
  /\ Stream(<<>>) = <<>>
  /\ \A c \in Child : Stream(<<c>>) = Message(c)
  /\ \A c, d \in Child : Stream(<<c, d>>) = Message(c) \o Message(d)
<1>1. Stream(<<>>) = <<>>
  <2>1. [n \in DOMAIN <<>> |-> Message(<<>>[n])] = <<>>
    OBVIOUS
  <2>2. Len(<<>>) = 0
    OBVIOUS
  <2>3. FlattenSeq(<<>>) = <<>>
    BY <2>2, Zenon DEF FlattenSeq
  <2> QED
    BY <2>1, <2>3 DEF Stream
<1>2. ASSUME NEW c \in Child
      PROVE  Stream(<<c>>) = Message(c)
  <2> DEFINE s == [n \in DOMAIN <<c>> |-> Message(<<c>>[n])]
  <2>1. s = <<Message(c)>>
    OBVIOUS
  <2>2. s \in Seq(Seq(Child)) /\ Len(s) = 1 /\ s[1] = Message(c)
    BY <2>1, MessageIsSeq
  <2>3. FlattenSeq(s) = s[1]
    <3> HIDE DEF s
    <3> QED
      BY <2>2, FlattenOne
  <2> QED
    BY <2>2, <2>3 DEF Stream
<1>3. ASSUME NEW c \in Child, NEW d \in Child
      PROVE  Stream(<<c, d>>) = Message(c) \o Message(d)
  <2> DEFINE s == [n \in DOMAIN <<c, d>> |-> Message(<<c, d>>[n])]
  <2>1. s = <<Message(c), Message(d)>>
    OBVIOUS
  <2>2. s \in Seq(Seq(Child)) /\ Len(s) = 2 /\ s[1] = Message(c) /\ s[2] = Message(d)
    BY <2>1, MessageIsSeq
  <2>3. FlattenSeq(s) = s[1] \o s[2]
    <3> HIDE DEF s
    <3> QED
      BY <2>2, FlattenTwo
  <2> QED
    BY <2>2, <2>3 DEF Stream
<1> QED
  BY <1>1, <1>2, <1>3

\* A stream is at most both messages.
LEMMA StreamIsShort ==
  ASSUME NEW w \in Orders
  PROVE  Stream(w) \in Seq(Child) /\ Len(Stream(w)) <= FIRST + SECOND
<1>1. 0 \in Child /\ 1 \in Child
  BY DEF Child
<1>2. /\ Message(0) \in Seq(Child) /\ Len(Message(0)) = FIRST /\ FIRST \in Nat
      /\ Message(1) \in Seq(Child) /\ Len(Message(1)) = SECOND /\ SECOND \in Nat
  BY <1>1, MessageIsSeq, PipeAssumption DEF Length
<1>3. CASE w = <<>>
  <2>1. Stream(w) = <<>>
    BY <1>3, Streams
  <2>2. <<>> \in Seq(Child) /\ Len(<<>>) = 0
    OBVIOUS
  <2> QED
    BY <1>2, <2>1, <2>2
<1>4. CASE w = <<0>> \/ w = <<1>>
  BY <1>1, <1>2, <1>4, Streams
<1>5. CASE w = <<0, 1>>
  <2>1. Stream(w) = Message(0) \o Message(1)
    BY <1>1, <1>5, Streams
  <2> QED
    BY <1>2, <2>1
<1>6. CASE w = <<1, 0>>
  <2>1. Stream(w) = Message(1) \o Message(0)
    BY <1>1, <1>6, Streams
  <2> QED
    BY <1>2, <2>1
<1> QED
  BY <1>3, <1>4, <1>5, <1>6 DEF Orders, InOrder, Overtaken

\* A write puts the message behind the stream.
LEMMA WriteExtendsStream ==
  ASSUME NEW w \in Orders, NEW c \in Child, \A n \in DOMAIN w : w[n] # c
  PROVE  Append(w, c) \in Orders /\ Stream(Append(w, c)) = Stream(w) \o Message(c)
<1>1. 0 \in Child /\ 1 \in Child /\ c \in {0, 1}
  BY DEF Child
<1>2. CASE w = <<>>
  <2>1. Append(w, c) = <<c>>
    BY <1>2
  <2>2. Stream(w) = <<>> /\ Stream(<<c>>) = Message(c)
    BY <1>2, Streams
  <2>3. <<>> \o Message(c) = Message(c)
    BY MessageIsSeq, ConcatEmptySeq
  <2> QED
    BY <1>1, <2>1, <2>2, <2>3 DEF Orders, InOrder, Overtaken
<1>3. CASE w = <<0>> \/ w = <<1>>
  <2>1. PICK d \in Child : w = <<d>>
    BY <1>1, <1>3
  <2>2. d # c
    BY <2>1
  <2>3. Append(w, c) = <<d, c>>
    <3>1. w \in Seq(Child) /\ Len(w) = 1 /\ w[1] = d
      BY <2>1
    <3>2. /\ Append(w, c) \in Seq(Child) /\ Len(Append(w, c)) = 2
          /\ Append(w, c)[1] = d /\ Append(w, c)[2] = c
      <4>1. /\ Append(w, c) \in Seq(Child) /\ Len(Append(w, c)) = Len(w) + 1
            /\ \A k \in 1 .. Len(w) : Append(w, c)[k] = w[k]
            /\ Append(w, c)[Len(w) + 1] = c
        BY <3>1, AppendProperties
      <4>2. Len(w) + 1 = 2 /\ 1 \in 1 .. Len(w)
        BY <3>1
      <4> QED
        BY <3>1, <4>1, <4>2
    <3>3. /\ <<d, c>> \in Seq(Child) /\ Len(<<d, c>>) = 2
          /\ <<d, c>>[1] = d /\ <<d, c>>[2] = c
      OBVIOUS
    <3>4. \A k \in 1 .. 2 : Append(w, c)[k] = <<d, c>>[k]
      BY <3>2, <3>3
    <3> QED
      BY <3>2, <3>3, <3>4, SeqEqual
  <2>4. Stream(w) = Message(d) /\ Stream(<<d, c>>) = Message(d) \o Message(c)
    BY <2>1, Streams
  <2> QED
    BY <2>1, <2>2, <2>3, <2>4 DEF Orders, InOrder, Overtaken, Child
<1>4. CASE w = <<0, 1>> \/ w = <<1, 0>>
  <2>1. \E n \in DOMAIN w : w[n] = c
    BY <1>1, <1>4
  <2> QED
    BY <2>1
<1> QED
  BY <1>2, <1>3, <1>4 DEF Orders, InOrder, Overtaken

\* The first read cuts the stream in two; the second takes the rest.
LEMMA CutInTwo ==
  ASSUME NEW b \in Seq(Child), Len(b) <= FIRST + SECOND
  PROVE  /\ Taken(b) \in Seq(Child) /\ Left(b) \in Seq(Child)
         /\ Taken(b) \o Left(b) = b
         /\ Len(Taken(b)) = Cut(b) /\ Len(Left(b)) = Len(b) - Cut(b)
         /\ Len(Left(b)) <= SECOND
<1>1. Cut(b) \in 0 .. Len(b) /\ Len(b) \in Nat /\ Len(b) - Cut(b) <= SECOND
  BY PipeAssumption DEF Cut
<1>2. Taken(b) \in Seq(Child) /\ Len(Taken(b)) = Cut(b)
  BY <1>1 DEF Taken
<1>3. Left(b) \in Seq(Child) /\ Len(Left(b)) = Len(b) - Cut(b)
  BY <1>1 DEF Left
<1>4. Taken(b) \o Left(b) = SubSeq(b, 1, Len(b))
  <2>1. 1 \in 1 .. Len(b) + 1 /\ Cut(b) \in 1 - 1 .. Len(b) /\ Len(b) \in Cut(b) .. Len(b)
    BY <1>1
  <2> QED
    BY <2>1, ConcatAdjacentSubSeq DEF Taken, Left
<1>5. SubSeq(b, 1, Len(b)) = b
  BY SubSeqFull
<1> QED
  BY <1>1, <1>2, <1>3, <1>4, <1>5
-----------------------------------------------------------------------------
(* The invariant. *)

LEMMA Initially == Init => IInv
<1> SUFFICES ASSUME Init PROVE IInv
  OBVIOUS
<1>1. TypeOK
  BY DEF Init, TypeOK, Child, Parent
<1>2. WroteInv /\ ParentInv
  BY DEF Init, WroteInv, ParentInv, Orders, InOrder, Overtaken, Child, Ended, Rounds
<1>3. ContentInv
  BY Streams DEF Init, ContentInv
<1> QED
  BY <1>1, <1>2, <1>3 DEF IInv

\* The steps of the parent that leave pipe and reads alone.
LEMMA ParentWalks ==
  ASSUME IInv,
         CreatePipe \/ Fork \/ ForkFails \/ WaitPid \/ CloseWrite \/ CloseRead \/ KillParent
  PROVE  IInv'
<1>1. TypeOK'
  BY DEF IInv, TypeOK, ParentInv, CreatePipe, Fork, ForkFails, WaitPid, CloseWrite,
         CloseRead, KillParent, ParentGoes, Child, Parent, Exits, Rounds
<1>2. WroteInv'
  BY DEF IInv, TypeOK, WroteInv, ParentInv, CreatePipe, Fork, ForkFails, WaitPid,
         CloseWrite, CloseRead, KillParent, ParentGoes, Child, Exits, BeforeWrite
<1>3. ParentInv'
  BY DEF IInv, TypeOK, ParentInv, CreatePipe, Fork, ForkFails, WaitPid, CloseWrite,
         CloseRead, KillParent, ParentGoes, Child, Exits, Ended, Rounds
<1>4. ContentInv'
  <2>1. UNCHANGED <<pipe, wrote, reads>>
    BY DEF CreatePipe, Fork, ForkFails, WaitPid, CloseWrite, CloseRead, KillParent,
           ParentGoes
  <2> QED
    BY <2>1 DEF IInv, ContentInv
<1> QED
  BY <1>1, <1>2, <1>3, <1>4 DEF IInv

\* The steps of a child that leave the pipe alone.
LEMMA ChildWalks ==
  ASSUME IInv, NEW c \in Child,
         \/ ChildCloseRead(c) \/ TestFlag(c) \/ SleepEnds(c) \/ TestAgain(c)
         \/ ChildCloseWrite(c) \/ KillChild(c)
  PROVE  IInv'
<1> USE DEF ChildCloseRead, TestFlag, SleepEnds, TestAgain, ChildCloseWrite, KillChild,
            ChildGoes
<1>1. UNCHANGED <<program, main, next, flag, pipe, wrote, reads>>
  OBVIOUS
<1>2. PICK to \in {"close_read", "test", "sleep", "test_again", "write", "exit0",
                   "no_signal", "killed"} :
        /\ pc' = [pc EXCEPT ![c] = to]
        /\ Lives(c) /\ (to \in BeforeWrite => pc[c] \in BeforeWrite)
  BY DEF Lives, Ended, BeforeWrite
<1>3. TypeOK'
  BY <1>1, <1>2 DEF IInv, TypeOK
<1>4. WroteInv'
  BY <1>1, <1>2 DEF IInv, TypeOK, WroteInv
<1>5. ParentInv'
  BY <1>1, <1>2 DEF IInv, TypeOK, ParentInv, Lives, Ended, Rounds
<1>6. ContentInv'
  BY <1>1 DEF IInv, ContentInv
<1> QED
  BY <1>3, <1>4, <1>5, <1>6 DEF IInv

LEMMA SigintStep ==
  ASSUME IInv, NEW p \in Child \cup {Parent}, Sigint(p)
  PROVE  IInv'
<1>1. UNCHANGED <<program, main, next, pc, pipe, wrote, reads>>
  BY DEF Sigint
<1>2. TypeOK'
  BY DEF IInv, TypeOK, Sigint
<1>3. WroteInv' /\ ParentInv'
  BY <1>1 DEF IInv, WroteInv, ParentInv, Ended, Rounds
<1>4. ContentInv'
  BY <1>1 DEF IInv, ContentInv
<1> QED
  BY <1>2, <1>3, <1>4 DEF IInv

\* A child that writes has not written before, and nothing has been read.
LEMMA WriteStep ==
  ASSUME IInv, NEW c \in Child, Write(c)
  PROVE  IInv'
<1>1. CASE UNCHANGED <<pipe, wrote>>
  <2>1. ChildGoes(c, "write", "killed")
    BY <1>1, MessageIsSeq DEF Write, IInv, TypeOK
  <2>2. KillChild(c)
    BY <1>1, <2>1 DEF ChildGoes, KillChild, Lives, Ended
  <2> QED
    BY <2>2, ChildWalks
<1>2. CASE /\ ChildGoes(c, "write", "close_write")
           /\ pipe' = pipe \o Message(c)
           /\ wrote' = Append(wrote, c)
  <2>1. wrote \in Orders /\ \A n \in DOMAIN wrote : wrote[n] # c
    BY <1>2 DEF IInv, WroteInv, ChildGoes, BeforeWrite
  <2>2. PICK w \in Orders : w = wrote
    BY <2>1
  <2>3. /\ wrote' \in Orders
        /\ Stream(Append(w, c)) = Stream(w) \o Message(c) /\ wrote' = Append(w, c)
    BY <1>2, <2>1, <2>2, WriteExtendsStream
  <2>4. reads = <<>> /\ reads' = <<>> /\ Len(reads) = 0
    BY <1>2 DEF IInv, TypeOK, ParentInv, ChildGoes, Ended
  <2>5. TypeOK'
    BY <1>2, MessageIsSeq DEF IInv, TypeOK, ChildGoes
  <2>6. WroteInv'
    <3>1. ASSUME NEW d \in Child, pc'[d] \in BeforeWrite
          PROVE  d # c /\ \A n \in DOMAIN wrote : wrote[n] # d
      BY <1>2, <3>1 DEF IInv, TypeOK, WroteInv, ChildGoes, BeforeWrite
    <3>2. ASSUME NEW d \in Child, d # c, \A n \in DOMAIN wrote : wrote[n] # d,
                 NEW n \in DOMAIN wrote'
          PROVE  wrote'[n] # d
      <4>1. wrote \in Seq(Child)
        BY DEF IInv, TypeOK
      <4>2. /\ Len(wrote') = Len(wrote) + 1 /\ wrote' \in Seq(Child)
            /\ \A k \in 1 .. Len(wrote) : wrote'[k] = wrote[k]
            /\ wrote'[Len(wrote) + 1] = c
        BY <1>2, <4>1, AppendProperties
      <4> QED
        BY <3>2, <4>1, <4>2
    <3> QED
      BY <2>3, <3>1, <3>2 DEF WroteInv
  <2>7. ParentInv'
    BY <1>2, <2>4 DEF IInv, TypeOK, ParentInv, ChildGoes, Ended, Rounds
  <2>8. ContentInv'
    <3>1. pipe' = Stream(wrote')
      BY <1>2, <2>2, <2>3, <2>4 DEF IInv, ContentInv
    <3> QED
      BY <2>4, <3>1 DEF ContentInv
  <2> QED
    BY <2>5, <2>6, <2>7, <2>8 DEF IInv
<1> QED
  BY <1>1, <1>2 DEF Write

\* What the n-th read() gets and leaves.
LEMMA ReadOnce ==
  ASSUME IInv, main = "read", NEW size \in Sizes(next), Read(size)
  PROVE  \E bytes \in Seq(Child), rest \in Seq(Child) :
           /\ reads' = Append(reads, bytes) /\ pipe' = rest
           /\ Len(reads) = 0 => /\ bytes = Taken(Stream(wrote))
                                /\ rest = Left(Stream(wrote))
           /\ Len(reads) = 1 => bytes = Left(Stream(wrote)) /\ rest = <<>>
           /\ Len(reads) = 2 => bytes = <<>> /\ rest = <<>>
<1> DEFINE n == IF size < Len(pipe) THEN size ELSE Len(pipe)
           bytes == SubSeq(pipe, 1, n)
           rest == SubSeq(pipe, n + 1, Len(pipe))
<1>1. pipe \in Seq(Child) /\ wrote \in Orders /\ next = Len(reads) /\ reads \in Seq(Seq(Child))
  BY DEF IInv, TypeOK, WroteInv, ParentInv
<1>2. size \in Nat /\ n \in 0 .. Len(pipe)
  BY <1>1, PipeAssumption DEF Sizes, Length
<1>3. bytes \in Seq(Child) /\ rest \in Seq(Child)
  BY <1>1, <1>2
<1>4. reads' = Append(reads, bytes) /\ pipe' = rest
  BY DEF Read
<1>5. ASSUME n = Len(pipe) PROVE bytes = pipe /\ rest = <<>>
  BY <1>1, <1>5, SubSeqFull, SubSeqEmpty
<1>6. ASSUME Len(reads) = 0
      PROVE  bytes = Taken(Stream(wrote)) /\ rest = Left(Stream(wrote))
  <2>1. pipe = Stream(wrote)
    BY <1>1, <1>6 DEF IInv, ContentInv
  <2>2. size = FIRST
    BY <1>1, <1>6 DEF Sizes, Length
  <2> QED
    BY <2>1, <2>2 DEF Taken, Left, Cut
<1>7. ASSUME Len(reads) = 1
      PROVE  bytes = Left(Stream(wrote)) /\ rest = <<>>
  <2>1. pipe = Left(Stream(wrote))
    BY <1>7 DEF IInv, ContentInv
  <2>2. size = SECOND
    BY <1>1, <1>7 DEF Sizes, Length
  <2>3. Len(pipe) <= SECOND
    BY <1>1, <2>1, StreamIsShort, CutInTwo
  <2>4. n = Len(pipe)
    BY <1>2, <2>2, <2>3
  <2> QED
    BY <1>5, <2>1, <2>4
<1>8. ASSUME Len(reads) = 2
      PROVE  bytes = <<>> /\ rest = <<>>
  <2>1. pipe = <<>>
    BY <1>8 DEF IInv, ContentInv
  <2> QED
    BY <1>2, <1>5, <2>1
<1> HIDE DEF n, bytes, rest
<1> QED
  BY <1>3, <1>4, <1>6, <1>7, <1>8

LEMMA ReadStep ==
  ASSUME IInv, ReadMessage
  PROVE  IInv'
<1>1. main = "read" /\ UNCHANGED <<program, flag, wrote, pc>>
  BY DEF ReadMessage, ParentGoes
<1>2. PICK bytes \in Seq(Child), rest \in Seq(Child) :
        /\ reads' = Append(reads, bytes) /\ pipe' = rest
        /\ Len(reads) = 0 => bytes = Taken(Stream(wrote)) /\ rest = Left(Stream(wrote))
        /\ Len(reads) = 1 => bytes = Left(Stream(wrote)) /\ rest = <<>>
        /\ Len(reads) = 2 => bytes = <<>> /\ rest = <<>>
  BY <1>1, ReadOnce DEF ReadMessage
<1>3. reads \in Seq(Seq(Child)) /\ next = Len(reads) /\ next < Rounds /\ Rounds \in {2, 3}
  BY <1>1 DEF IInv, TypeOK, ParentInv, Rounds
<1>4. /\ Len(reads') = Len(reads) + 1 /\ reads' \in Seq(Seq(Child)) /\ reads' # <<>>
      /\ \A k \in 1 .. Len(reads) : reads'[k] = reads[k]
      /\ reads'[Len(reads) + 1] = bytes
  BY <1>2, <1>3, AppendProperties
<1>5. TypeOK'
  BY <1>1, <1>2, <1>3, <1>4 DEF IInv, TypeOK, ReadMessage, ParentGoes
<1>6. WroteInv'
  BY <1>1 DEF IInv, WroteInv
<1>7. ParentInv'
  BY <1>1, <1>3, <1>4 DEF IInv, ParentInv, ReadMessage, ParentGoes, Ended, Rounds
<1>8. ContentInv'
  <2>1. Len(reads) \in {0, 1, 2}
    BY <1>3
  <2>2. CASE Len(reads) = 0
    BY <1>1, <1>2, <1>4, <2>2 DEF ContentInv
  <2>3. CASE Len(reads) = 1
    BY <1>1, <1>2, <1>4, <2>3 DEF IInv, ContentInv
  <2>4. CASE Len(reads) = 2
    BY <1>1, <1>2, <1>4, <2>4 DEF IInv, ContentInv
  <2> QED
    BY <2>1, <2>2, <2>3, <2>4
<1> QED
  BY <1>5, <1>6, <1>7, <1>8 DEF IInv

LEMMA Inductive == IInv /\ [Next]_vars => IInv'
<1> SUFFICES ASSUME IInv, [Next]_vars PROVE IInv'
  OBVIOUS
<1>1. CASE \/ CreatePipe \/ Fork \/ ForkFails \/ WaitPid \/ CloseWrite \/ CloseRead
           \/ KillParent
  BY <1>1, ParentWalks
<1>2. CASE ReadMessage
  BY <1>2, ReadStep
<1>3. CASE \E c \in Child : Write(c)
  BY <1>3, WriteStep
<1>4. CASE \E c \in Child : \/ ChildCloseRead(c) \/ TestFlag(c) \/ SleepEnds(c)
                            \/ TestAgain(c) \/ ChildCloseWrite(c) \/ KillChild(c)
  BY <1>4, ChildWalks
<1>5. CASE \E p \in Child \cup {Parent} : Sigint(p)
  BY <1>5, SigintStep
<1>6. CASE UNCHANGED vars
  <2>1. TypeOK' /\ WroteInv' /\ ParentInv'
    BY <1>6 DEF IInv, TypeOK, WroteInv, ParentInv, Ended, Rounds, vars
  <2>2. ContentInv'
    BY <1>6 DEF IInv, ContentInv, vars
  <2> QED
    BY <2>1, <2>2 DEF IInv
<1> QED
  BY <1>1, <1>2, <1>3, <1>4, <1>5, <1>6
  DEF Next, ParentGoesOn, ChildProcess, Terminated

(***************************************************************************)
(* The parent reads only when it has waited for both children, each of     *)
(* which has written at most once; the pipe holds what was written and has *)
(* not been read, in the order of the writes (fifth.c:56-75).              *)
(***************************************************************************)
THEOREM Invariance == Spec => []IInv
BY Initially, Inductive, PTL DEF Spec

\* The variables keep their types: two children, at most three reads.
THEOREM TypeCorrectness == Spec => []TypeOK
<1>1. IInv => TypeOK
  BY DEF IInv
<1> QED
  BY <1>1, Invariance, PTL

(***************************************************************************)
(* fifth.c:68-75 and lab_04.c:52-59, for messages of any length: the two   *)
(* reads take all that was written, in its order.                          *)
(***************************************************************************)
THEOREM NothingIsLeftBehind == Spec => []TwoReadsTakeAll
<1>1. IInv => TwoReadsTakeAll
  <2> SUFFICES ASSUME IInv, Len(reads) >= 2
               PROVE  /\ reads[1] \o reads[2] = Stream(wrote)
                      /\ Len(reads) = 3 => reads[3] = <<>>
    BY DEF TwoReadsTakeAll, Stream
  <2>1. /\ reads[1] = Taken(Stream(wrote)) /\ reads[2] = Left(Stream(wrote))
        /\ Len(reads) = 3 => reads[3] = <<>>
    BY DEF IInv, TypeOK, ContentInv
  <2>2. Taken(Stream(wrote)) \o Left(Stream(wrote)) = Stream(wrote)
    BY StreamIsShort, CutInTwo DEF IInv, WroteInv
  <2> QED
    BY <2>1, <2>2
<1> QED
  BY <1>1, Invariance, PTL

\* The first read is a whole message or nothing, and so is the second, if the
\* first child wrote first or nobody wrote.
LEMMA WholePieces ==
  ASSUME NEW w \in InOrder
  PROVE  /\ Taken(Stream(w)) \in {<<>>, Message(0)}
         /\ Left(Stream(w)) \in {<<>>, Message(1)}
<1>1. /\ Message(0) \in Seq(Child) /\ Len(Message(0)) = FIRST /\ FIRST \in Nat \ {0}
      /\ Message(1) \in Seq(Child) /\ Len(Message(1)) = SECOND /\ SECOND \in Nat \ {0}
      /\ 0 \in Child /\ 1 \in Child
  BY MessageIsSeq DEF Length, Child
<1>2. CASE w = <<>>
  <2>1. Stream(w) = <<>>
    BY <1>2, Streams
  <2>2. Len(<<>>) = 0
    OBVIOUS
  <2>3. Cut(<<>>) = 0
    BY <1>1, <2>2 DEF Cut
  <2>4. SubSeq(<<>>, 1, 0) = <<>>
    OBVIOUS
  <2> QED
    BY <2>1, <2>2, <2>3, <2>4, SubSeqEmpty DEF Taken, Left
<1>3. CASE w = <<0>>
  <2>1. Stream(w) = Message(0)
    BY <1>1, <1>3, Streams
  <2>2. Cut(Message(0)) = FIRST
    BY <1>1 DEF Cut
  <2>3. Taken(Message(0)) = Message(0)
    BY <1>1, <2>2, SubSeqFull DEF Taken
  <2>4. Left(Message(0)) = <<>>
    BY <1>1, <2>2, SubSeqEmpty DEF Left
  <2> QED
    BY <2>1, <2>3, <2>4
<1>4. CASE w = <<0, 1>>
  <2> DEFINE b == Message(0) \o Message(1)
  <2>1. Stream(w) = b
    BY <1>1, <1>4, Streams
  <2>2. Len(b) = FIRST + SECOND /\ b \in Seq(Child)
    BY <1>1
  <2>3. Cut(b) = FIRST
    BY <1>1, <2>2 DEF Cut
  <2>4. Taken(b) = Message(0)
    <3>1. SubSeq(b, 1, FIRST) = SubSeq(Message(0), 1, FIRST)
      BY <1>1, SubSeqOfConcat1
    <3>2. SubSeq(Message(0), 1, FIRST) = Message(0)
      BY <1>1, SubSeqFull
    <3> QED
      BY <2>3, <3>1, <3>2 DEF Taken
  <2>5. Left(b) = Message(1)
    <3>1. SubSeq(b, FIRST + 1, FIRST + SECOND)
            = SubSeq(Message(1), FIRST + 1 - FIRST, FIRST + SECOND - FIRST)
      BY <1>1, SubSeqOfConcat2
    <3>2. FIRST + 1 - FIRST = 1 /\ FIRST + SECOND - FIRST = SECOND
      BY <1>1
    <3>3. SubSeq(Message(1), 1, SECOND) = Message(1)
      BY <1>1, SubSeqFull
    <3> QED
      BY <2>2, <2>3, <3>1, <3>2, <3>3 DEF Left
  <2> HIDE DEF b
  <2> QED
    BY <2>1, <2>4, <2>5
<1> QED
  BY <1>2, <1>3, <1>4 DEF InOrder

\* If the second child wrote first, the first read starts with its message.
LEMMA OvertakenPiece ==
  ASSUME NEW w \in Overtaken
  PROVE  Taken(Stream(w)) # <<>> /\ Taken(Stream(w)) # Message(0)
<1> DEFINE b == Stream(w)
<1>1. /\ Message(0) \in Seq(Child) /\ Len(Message(0)) = FIRST /\ FIRST \in Nat \ {0}
      /\ Message(1) \in Seq(Child) /\ Len(Message(1)) = SECOND /\ SECOND \in Nat \ {0}
      /\ 0 \in Child /\ 1 \in Child
  BY MessageIsSeq DEF Length, Child
<1>2. Message(0)[1] = 0 /\ Message(1)[1] = 1
  BY <1>1, MessageIsSeq DEF Length
<1>3. b \in Seq(Child) /\ Len(b) >= 1 /\ b[1] = 1
  <2>1. CASE w = <<1>>
    <3>1. b = Message(1)
      BY <1>1, <2>1, Streams
    <3> QED
      BY <1>1, <1>2, <3>1
  <2>2. CASE w = <<1, 0>>
    <3>1. b = Message(1) \o Message(0)
      BY <1>1, <2>2, Streams
    <3> QED
      BY <1>1, <1>2, <3>1
  <2> QED
    BY <2>1, <2>2 DEF Overtaken
<1> HIDE DEF b
<1>4. Cut(b) \in 1 .. Len(b)
  BY <1>1, <1>3 DEF Cut
<1>5. Taken(b) \in Seq(Child) /\ Len(Taken(b)) >= 1 /\ Taken(b)[1] = 1
  BY <1>3, <1>4 DEF Taken
<1> QED
  BY <1>2, <1>5 DEF b

(***************************************************************************)
(* fifth.c:42, 70 and lab_04.c:26, 54, for messages of any length: what a  *)
(* read gets is the message of its child, whole, or nothing, if and only   *)
(* if the second child did not write first.                                *)
(***************************************************************************)
THEOREM MessagesComeWhole == Spec => []WholeUnlessOvertaken
<1>1. IInv => WholeUnlessOvertaken
  <2> SUFFICES ASSUME IInv, reads # <<>>
               PROVE  (\E n \in DOMAIN reads :
                          reads[n] # <<>> /\ (n > 2 \/ reads[n] # Message(n - 1)))
                        <=> (wrote # <<>> /\ Head(wrote) = 1)
    BY DEF WholeUnlessOvertaken
  <2>1. /\ DOMAIN reads = 1 .. Len(reads) /\ Len(reads) \in {1, 2, 3}
        /\ reads[1] = Taken(Stream(wrote))
        /\ Len(reads) >= 2 => reads[2] = Left(Stream(wrote))
        /\ Len(reads) = 3 => reads[3] = <<>>
    <3>1. DOMAIN reads = 1 .. Len(reads) /\ Len(reads) \in {1, 2, 3}
      <4>1. reads \in Seq(Seq(Child)) /\ Len(reads) <= 3
        BY DEF IInv, TypeOK, ParentInv
      <4>2. DOMAIN reads = 1 .. Len(reads) /\ Len(reads) \in Nat
        BY <4>1
      <4>3. Len(reads) # 0
        BY <4>1, EmptySeq
      <4>4. \A k \in Nat : k <= 3 /\ k # 0 => k \in {1, 2, 3}
        OBVIOUS
      <4> QED
        BY <4>1, <4>2, <4>3, <4>4, Zenon
    <3> QED
      BY <3>1 DEF IInv, ContentInv
  <2>2. CASE wrote \in InOrder
    <3>1. ~(wrote # <<>> /\ Head(wrote) = 1)
      BY <2>2 DEF InOrder
    <3>2. /\ Taken(Stream(wrote)) \in {<<>>, Message(0)}
          /\ Left(Stream(wrote)) \in {<<>>, Message(1)}
      BY <2>2, WholePieces
    <3>3. ASSUME NEW n \in DOMAIN reads
          PROVE  reads[n] = <<>> \/ (n <= 2 /\ reads[n] = Message(n - 1))
      <4>1. 1 - 1 = 0 /\ 2 - 1 = 1 /\ n \in {1, 2, 3}
        BY <2>1
      <4>2. CASE n = 1
        BY <2>1, <3>2, <4>1, <4>2
      <4>3. CASE n = 2
        BY <2>1, <3>2, <4>1, <4>3
      <4>4. CASE n = 3
        BY <2>1, <4>4
      <4> QED
        BY <4>1, <4>2, <4>3, <4>4
    <3>4. \A n \in DOMAIN reads : n <= 2 => ~(n > 2)
      BY <2>1
    <3> QED
      BY <3>1, <3>3, <3>4
  <2>3. CASE wrote \in Overtaken
    <3>1. wrote # <<>> /\ Head(wrote) = 1
      BY <2>3 DEF Overtaken
    <3>2. 1 \in DOMAIN reads /\ 1 - 1 = 0
      BY <2>1
    <3>3. reads[1] # <<>> /\ reads[1] # Message(1 - 1)
      BY <2>1, <2>3, <3>2, OvertakenPiece
    <3> QED
      BY <3>1, <3>2, <3>3
  <2> QED
    BY <2>2, <2>3 DEF IInv, WroteInv, Orders
<1> QED
  BY <1>1, Invariance, PTL

\* When the parent reads, nobody can write any more.
NobodyWrites == main = "read" => \A p \in Child \cup {Parent} : ~HoldsWrite(p)

(***************************************************************************)
(* fifth.c:65, lab_04.c:49: no read() of the parent ever waits, since it   *)
(* has closed its own writing end and waited for whoever had another.      *)
(***************************************************************************)
THEOREM NoReadWaits == Spec => []NobodyWrites
<1>1. IInv => NobodyWrites
  BY DEF IInv, ParentInv, NobodyWrites, HoldsWrite, Lives, Parent, Child
<1> QED
  BY <1>1, Invariance, PTL
=============================================================================
