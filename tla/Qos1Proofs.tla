----------------------------- MODULE Qos1Proofs -----------------------------
(***************************************************************************)
(* What the operations of Qos1 do to a channel: they keep its type and its *)
(* counter, they bring in no message but the one that is put, and they     *)
(* leave the last message the last.  For proofs about the order of the     *)
(* messages, where each of them goes to; for proofs that none of them gets *)
(* lost, which are still to be handled.                                    *)
(***************************************************************************)
EXTENDS Qos1, TLAPS

WellFormed(ch, M) == ch \in ChannelOf(M) /\ ch.done <= Len(ch.msgs)
LastOf(ch) == ch.msgs[Len(ch.msgs)]

\* No channel to begin with holds anything.
LEMMA EmptyFacts ==
    ASSUME NEW M
    PROVE  WellFormed(EmptyChannel, M) /\ EmptyChannel.msgs = <<>> /\ ~HasNext(EmptyChannel)
BY DEF WellFormed, ChannelOf, EmptyChannel, HasNext

\* A channel of some messages is one of more.
LEMMA WiderFacts ==
    ASSUME NEW M, NEW N, M \subseteq N, NEW ch, WellFormed(ch, M)
    PROVE  WellFormed(ch, N)
<1>1. ch \in [msgs : Seq(M), done : Nat] /\ ch.msgs \in Seq(N)
  BY DEF WellFormed, ChannelOf
<1>2. QED
  BY <1>1 DEF WellFormed, ChannelOf

\* A message that is put is the last, and still to be handled.
LEMMA PutFacts ==
    ASSUME NEW M, NEW ch, WellFormed(ch, M), NEW m \in M
    PROVE  /\ WellFormed(Put(ch, m), M)
           /\ HasNext(Put(ch, m))
           /\ Put(ch, m).msgs # <<>> /\ LastOf(Put(ch, m)) = m
<1>1. /\ ch \in [msgs : Seq(M), done : Nat]
      /\ ch.msgs \in Seq(M) /\ ch.done \in Nat /\ ch.done <= Len(ch.msgs)
  BY DEF WellFormed, ChannelOf
<1>2. /\ Put(ch, m).msgs = Append(ch.msgs, m) /\ Put(ch, m).done = ch.done
      /\ Put(ch, m) \in [msgs : Seq(M), done : Nat]
  <2>1. Append(ch.msgs, m) \in Seq(M)
    BY <1>1
  <2>2. QED
    BY <1>1, <2>1 DEF Put
<1>3. /\ Append(ch.msgs, m) \in Seq(M)
      /\ Len(Append(ch.msgs, m)) = Len(ch.msgs) + 1 /\ Len(ch.msgs) \in Nat
      /\ Append(ch.msgs, m)[Len(ch.msgs) + 1] = m
  BY <1>1
<1>4. Append(ch.msgs, m) # <<>>
  BY <1>3
<1>5. QED
  BY <1>1, <1>2, <1>3, <1>4 DEF WellFormed, ChannelOf, HasNext, LastOf

\* What is handled is of the channel, and the last message once nothing is left.
LEMMA HandledFacts ==
    ASSUME NEW M, NEW ch, WellFormed(ch, M), HasNext(ch), WindowAssumption
    PROVE  /\ WellFormed(Handled(ch), M)
           /\ NextOf(ch) \in M
           /\ ch.msgs # <<>>
           /\ ~HasNext(Handled(ch)) => NextOf(ch) = LastOf(ch)
           /\ Handled(ch).msgs # <<>> => LastOf(Handled(ch)) = LastOf(ch)
<1>1. /\ ch.msgs \in Seq(M) /\ ch.done \in Nat /\ Len(ch.msgs) \in Nat
      /\ ch.done < Len(ch.msgs)
      /\ ch \in [msgs : Seq(M), done : Nat]
  BY DEF WellFormed, ChannelOf, HasNext
<1>2. NextOf(ch) \in M /\ ch.msgs # <<>>
  BY <1>1 DEF NextOf
<1>3. CASE ch.done = Window
  <2>1. Handled(ch) = [msgs |-> Tail(ch.msgs), done |-> ch.done]
    BY <1>1, <1>3 DEF Handled
  <2>2. /\ Tail(ch.msgs) \in Seq(M) /\ Len(Tail(ch.msgs)) = Len(ch.msgs) - 1
        /\ \A i \in 1..(Len(ch.msgs) - 1) : Tail(ch.msgs)[i] = ch.msgs[i + 1]
    BY <1>1, <1>2
  <2>3. WellFormed(Handled(ch), M)
    BY <1>1, <2>1, <2>2 DEF WellFormed, ChannelOf
  <2>4. ~HasNext(Handled(ch)) => NextOf(ch) = LastOf(ch)
    BY <1>1, <2>1, <2>2 DEF HasNext, NextOf, LastOf
  <2>5. Handled(ch).msgs # <<>> => LastOf(Handled(ch)) = LastOf(ch)
    BY <1>1, <2>1, <2>2 DEF LastOf
  <2>6. QED
    BY <1>2, <2>3, <2>4, <2>5
<1>4. CASE ch.done # Window
  <2>1. Handled(ch) = [msgs |-> ch.msgs, done |-> ch.done + 1]
    BY <1>1, <1>4 DEF Handled
  <2>2. QED
    BY <1>1, <1>2, <2>1 DEF WellFormed, ChannelOf, HasNext, NextOf, LastOf
<1>5. QED
  BY <1>3, <1>4

\* A drop sends handled messages again, in order and never past the last.
LEMMA ResentFacts ==
    ASSUME NEW M, NEW ch, WellFormed(ch, M), NEW p \in Resent(ch)
    PROVE  /\ WellFormed(p, M)
           /\ ~HasNext(p) => ~HasNext(ch)
           /\ p.msgs # <<>> => ch.msgs # <<>> /\ LastOf(p) = LastOf(ch)
<1>1. /\ ch.msgs \in Seq(M) /\ ch.done \in Nat /\ Len(ch.msgs) \in Nat
      /\ ch.done <= Len(ch.msgs)
  BY DEF WellFormed, ChannelOf
<1>2. PICK k \in 0..ch.done : p = [msgs |-> SubSeq(ch.msgs, k + 1, Len(ch.msgs)), done |-> 0]
  BY DEF Resent
<1>3. k \in Nat /\ k <= Len(ch.msgs)
  BY <1>1
<1>4. /\ SubSeq(ch.msgs, k + 1, Len(ch.msgs)) \in Seq(M)
      /\ Len(SubSeq(ch.msgs, k + 1, Len(ch.msgs))) = Len(ch.msgs) - k
      /\ \A i \in 1..(Len(ch.msgs) - k) :
            SubSeq(ch.msgs, k + 1, Len(ch.msgs))[i] = ch.msgs[k + i]
  BY <1>1, <1>3
<1>5. p.msgs = SubSeq(ch.msgs, k + 1, Len(ch.msgs)) /\ p.done = 0
  BY <1>2
<1>6. WellFormed(p, M)
  BY <1>1, <1>2, <1>3, <1>4 DEF WellFormed, ChannelOf
<1>7. ~HasNext(p) => ~HasNext(ch)
  BY <1>1, <1>3, <1>4, <1>5 DEF HasNext
<1>8. ASSUME p.msgs # <<>>
      PROVE  ch.msgs # <<>> /\ LastOf(p) = LastOf(ch)
  <2>1. Len(ch.msgs) - k \in Nat \ {0}
    BY <1>1, <1>3, <1>4, <1>5, <1>8
  <2>2. LastOf(p) = ch.msgs[k + (Len(ch.msgs) - k)]
    <3> DEFINE n == Len(ch.msgs) - k
    <3>1. n \in 1..n /\ Len(p.msgs) = n
      BY <1>4, <1>5, <2>1
    <3>2. p.msgs[n] = ch.msgs[k + n]
      BY <1>4, <1>5, <3>1
    <3>3. QED
      BY <3>1, <3>2 DEF LastOf
  <2>3. QED
    BY <1>1, <1>3, <2>1, <2>2 DEF LastOf
<1>9. QED
  BY <1>6, <1>7, <1>8
----------------------------------------------------------------------------
(* Positions.  Handling and sending again take messages from the front of  *)
(* a channel, and leave the rest where it is behind them.                  *)

Shifted(ch, next, o) ==
    /\ o \in Nat /\ o <= Len(ch.msgs) /\ Len(next.msgs) = Len(ch.msgs) - o
    /\ \A i \in 1..Len(next.msgs) : next.msgs[i] = ch.msgs[i + o]

LEMMA SamePositions ==
    ASSUME NEW M, NEW ch, WellFormed(ch, M)
    PROVE  Shifted(ch, ch, 0)
<1>1. ch.msgs \in Seq(M) /\ Len(ch.msgs) \in Nat
  BY DEF WellFormed, ChannelOf
<1>2. QED
  BY <1>1 DEF Shifted

LEMMA PutPositions ==
    ASSUME NEW M, NEW ch, WellFormed(ch, M), NEW m \in M
    PROVE  /\ Put(ch, m).done = ch.done
           /\ Len(ch.msgs) \in Nat /\ Len(Put(ch, m).msgs) = Len(ch.msgs) + 1
           /\ \A i \in 1..Len(ch.msgs) : Put(ch, m).msgs[i] = ch.msgs[i]
           /\ Put(ch, m).msgs[Len(ch.msgs) + 1] = m
<1>1. ch \in [msgs : Seq(M), done : Nat] /\ ch.msgs \in Seq(M)
  BY DEF WellFormed, ChannelOf
<1>2. Put(ch, m).msgs = Append(ch.msgs, m) /\ Put(ch, m).done = ch.done
  BY <1>1 DEF Put
<1>3. QED
  BY <1>1, <1>2

LEMMA HandledPositions ==
    ASSUME NEW M, NEW ch, WellFormed(ch, M), HasNext(ch), WindowAssumption
    PROVE  \E o \in {0, 1} :
              Shifted(ch, Handled(ch), o) /\ Handled(ch).done = ch.done + 1 - o
<1>1. /\ ch.msgs \in Seq(M) /\ ch.done \in Nat /\ Len(ch.msgs) \in Nat
      /\ ch.done < Len(ch.msgs)
      /\ ch \in [msgs : Seq(M), done : Nat]
  BY DEF WellFormed, ChannelOf, HasNext
<1>2. CASE ch.done = Window
  <2>1. Handled(ch).msgs = Tail(ch.msgs) /\ Handled(ch).done = ch.done
    BY <1>1, <1>2 DEF Handled
  <2>2. /\ Len(Tail(ch.msgs)) = Len(ch.msgs) - 1
        /\ \A i \in 1..(Len(ch.msgs) - 1) : Tail(ch.msgs)[i] = ch.msgs[i + 1]
    BY <1>1
  <2>3. Shifted(ch, Handled(ch), 1)
    BY <1>1, <2>1, <2>2 DEF Shifted
  <2>4. QED
    BY <1>1, <2>1, <2>3
<1>3. CASE ch.done # Window
  <2>1. Handled(ch).msgs = ch.msgs /\ Handled(ch).done = ch.done + 1
    BY <1>1, <1>3 DEF Handled
  <2>2. Shifted(ch, Handled(ch), 0)
    BY <1>1, <2>1 DEF Shifted
  <2>3. QED
    BY <1>1, <2>1, <2>2
<1>4. QED
  BY <1>2, <1>3

LEMMA ResentPositions ==
    ASSUME NEW M, NEW ch, WellFormed(ch, M), NEW p \in Resent(ch)
    PROVE  p.done = 0 /\ \E o \in 0..ch.done : Shifted(ch, p, o)
<1>1. /\ ch.msgs \in Seq(M) /\ ch.done \in Nat /\ Len(ch.msgs) \in Nat
      /\ ch.done <= Len(ch.msgs)
  BY DEF WellFormed, ChannelOf
<1>2. PICK o \in 0..ch.done : p = [msgs |-> SubSeq(ch.msgs, o + 1, Len(ch.msgs)), done |-> 0]
  BY DEF Resent
<1>3. /\ o \in Nat /\ o <= Len(ch.msgs)
      /\ p.msgs = SubSeq(ch.msgs, o + 1, Len(ch.msgs)) /\ p.done = 0
  BY <1>1, <1>2
<1>4. /\ Len(SubSeq(ch.msgs, o + 1, Len(ch.msgs))) = Len(ch.msgs) - o
      /\ \A i \in 1..(Len(ch.msgs) - o) :
            SubSeq(ch.msgs, o + 1, Len(ch.msgs))[i] = ch.msgs[i + o]
  BY <1>1, <1>3
<1>5. Shifted(ch, p, o)
  BY <1>1, <1>3, <1>4 DEF Shifted
<1>6. QED
  BY <1>3, <1>5

----------------------------------------------------------------------------
(* What is unhandled.  A message that is put is to be handled, handling    *)
(* takes one, and sending again takes none.                                *)

\* What is behind the front of a channel is still there when the channel has moved on.
LEMMA UnhandledShifts ==
    ASSUME NEW M, NEW ch, WellFormed(ch, M), NEW next, NEW o, Shifted(ch, next, o),
           next.done \in Nat,
           NEW i \in (ch.done + 1)..Len(ch.msgs), i - o > next.done
    PROVE  ch.msgs[i] \in Unhandled(next)
<1>1. /\ ch.done \in Nat /\ Len(ch.msgs) \in Nat /\ o \in Nat
      /\ Len(next.msgs) = Len(ch.msgs) - o
      /\ \A k \in 1..Len(next.msgs) : next.msgs[k] = ch.msgs[k + o]
  BY DEF Shifted, WellFormed, ChannelOf
<1>2. /\ (i - o) \in (next.done + 1)..Len(next.msgs) /\ (i - o) \in 1..Len(next.msgs)
      /\ (i - o) + o = i
  BY <1>1
<1>3. next.msgs[i - o] = ch.msgs[i]
  BY <1>1, <1>2
<1>4. QED
  BY <1>2, <1>3 DEF Unhandled

LEMMA PutUnhandled ==
    ASSUME NEW M, NEW ch, WellFormed(ch, M), NEW m \in M
    PROVE  Unhandled(ch) \cup {m} \subseteq Unhandled(Put(ch, m))
<1>1. /\ ch.done \in Nat /\ ch.done <= Len(ch.msgs)
      /\ Put(ch, m).done = ch.done
      /\ Len(ch.msgs) \in Nat /\ Len(Put(ch, m).msgs) = Len(ch.msgs) + 1
      /\ \A i \in 1..Len(ch.msgs) : Put(ch, m).msgs[i] = ch.msgs[i]
      /\ Put(ch, m).msgs[Len(ch.msgs) + 1] = m
  BY PutPositions DEF WellFormed, ChannelOf
<1>2. Len(ch.msgs) + 1 \in (Put(ch, m).done + 1)..Len(Put(ch, m).msgs)
  BY <1>1
<1>3. \A i \in (ch.done + 1)..Len(ch.msgs) :
         i \in 1..Len(ch.msgs) /\ i \in (Put(ch, m).done + 1)..Len(Put(ch, m).msgs)
  BY <1>1
<1>4. m \in Unhandled(Put(ch, m))
  BY <1>1, <1>2 DEF Unhandled
<1>5. ASSUME NEW i \in (ch.done + 1)..Len(ch.msgs)
      PROVE  ch.msgs[i] \in Unhandled(Put(ch, m))
  <2>1. ch.msgs[i] = Put(ch, m).msgs[i]
    BY <1>1, <1>3
  <2>2. QED
    BY <1>3, <2>1 DEF Unhandled
<1>6. QED
  BY <1>4, <1>5 DEF Unhandled

LEMMA HandledUnhandled ==
    ASSUME NEW M, NEW ch, WellFormed(ch, M), HasNext(ch), WindowAssumption
    PROVE  /\ Unhandled(ch) \subseteq Unhandled(Handled(ch)) \cup {NextOf(ch)}
           /\ NextOf(ch) \in Unhandled(ch)
<1>1. /\ ch.done \in Nat /\ Len(ch.msgs) \in Nat /\ ch.done < Len(ch.msgs)
      /\ Handled(ch).done \in Nat
  <2>1. WellFormed(Handled(ch), M)
    BY HandledFacts
  <2>2. QED
    BY <2>1 DEF WellFormed, ChannelOf, HasNext
<1>2. PICK o \in {0, 1} : Shifted(ch, Handled(ch), o) /\ Handled(ch).done = ch.done + 1 - o
  BY HandledPositions
<1>3. ASSUME NEW i \in (ch.done + 1)..Len(ch.msgs), i # ch.done + 1
      PROVE  ch.msgs[i] \in Unhandled(Handled(ch))
  <2>1. i - o > Handled(ch).done
    BY <1>1, <1>2, <1>3
  <2>2. QED
    BY <1>1, <1>2, <2>1, UnhandledShifts
<1>4. ch.done + 1 \in (ch.done + 1)..Len(ch.msgs)
  BY <1>1
<1>5. QED
  BY <1>3, <1>4 DEF Unhandled, NextOf

LEMMA ResentUnhandled ==
    ASSUME NEW M, NEW ch, WellFormed(ch, M), NEW p \in Resent(ch)
    PROVE  Unhandled(ch) \subseteq Unhandled(p)
<1>1. PICK o \in 0..ch.done : p.done = 0 /\ Shifted(ch, p, o)
  BY ResentPositions
<1>2. ch.done \in Nat
  BY DEF WellFormed, ChannelOf
<1>3. ASSUME NEW i \in (ch.done + 1)..Len(ch.msgs)
      PROVE  ch.msgs[i] \in Unhandled(p)
  <2>1. i - o > p.done /\ p.done \in Nat
    BY <1>1, <1>2
  <2>2. QED
    BY <1>1, <2>1, UnhandledShifts
<1>4. QED
  BY <1>3 DEF Unhandled
=============================================================================
