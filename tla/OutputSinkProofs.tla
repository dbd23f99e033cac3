-------------------------- MODULE OutputSinkProofs --------------------------
(***************************************************************************)
(* Proofs about the captured output, for any set of streams, any buffer    *)
(* limit and threshold, any number of pieces, requests and any faults: no  *)
(* accepted byte is lost by a rotation, renaming keeps the order, a clean  *)
(* end has stored everything, and no request for a rotation is forgotten.  *)
(*                                                                         *)
(* The properties follow from four facts.  What a stream has produced is   *)
(* what was accepted, then its buffer, then its pipe (StreamInv).  Only a  *)
(* worker that holds the lock changes the files, one worker at a time, and *)
(* it shortens a file only when the newest archive is a full copy of it    *)
(* (LockInv).  Nothing is stored that was not accepted (StoredInv).  A     *)
(* reader ends well only with an empty pipe and an empty buffer (EndInv).  *)
(***************************************************************************)
EXTENDS OutputSink, SequenceTheorems, TLAPS

FlagType ==
    /\ copyAndTruncate \in BOOLEAN /\ alive \in BOOLEAN /\ eof \in [Streams -> BOOLEAN]
    /\ exists \in BOOLEAN /\ handle \in BOOLEAN /\ queued \in BOOLEAN /\ busy \in BOOLEAN
    /\ cancelled \in BOOLEAN /\ force \in BOOLEAN /\ stop \in BOOLEAN

PlaceType ==
    /\ rpc \in [Streams -> {"loop", "due", "queue", "send"}]
    /\ rres \in [Streams -> {"running", "ok", "failed"}]
    /\ kpc \in {None, "lock", "sync", "archive", "truncate", "reopen", "finished"}
    /\ kres \in {None, "error", "noop", "done"}
    /\ spc \in {"listen", "decide", "pre", "wait", "leave", "drain", "close", "ended"}
    /\ ret \in {None, "listen", "close"} /\ (spc \in {"decide", "pre", "wait"} => ret # None)
    /\ mailbox \in Seq(Messages) /\ forced \in 0..MaxForced
    /\ outcome \in {None, "clean", "degraded"}

DataType ==
    /\ produced \in [Streams -> 0..MaxOut] /\ acked \in [Streams -> 0..MaxOut]
    /\ pipe \in [Streams -> Seq(Pieces)] /\ pending \in [Streams -> Seq(Pieces)]
    /\ \A s \in Streams : Len(pending[s]) <= BUFFER_LIMIT
    /\ active \in Seq(Pieces) /\ archives \in Seq(Seq(Pieces))

CountType == bytes \in Nat

\* What was accepted, then the buffer, then the pipe.
StreamInv ==
    \A s \in Streams :
      /\ produced[s] = acked[s] + Len(pending[s]) + Len(pipe[s])
      /\ \A i \in 1..Len(pending[s]) : pending[s][i] = <<s, acked[s] + i>>
      /\ \A i \in 1..Len(pipe[s]) : pipe[s][i] = <<s, acked[s] + Len(pending[s]) + i>>

EndInv ==
    /\ \A s \in Streams : eof[s] => ~alive /\ pipe[s] = <<>>
    /\ \A s \in Streams : rres[s] = "ok" => eof[s] /\ pending[s] = <<>>
    /\ spc = "close" \/ ret = "close" \/ outcome = "clean" => \A s \in Streams : rres[s] = "ok"

LockInv ==
    /\ kpc \in {"sync", "archive", "truncate", "reopen"} => busy
    /\ spc \in {"listen", "decide", "pre", "drain", "close"} => kpc = None

CopyInv == kpc = "truncate" => archives # <<>> /\ archives[Len(archives)] = active

\* A stored piece was accepted.
StoredInv ==
    \A f \in DOMAIN Stored : \A i \in DOMAIN Stored[f] :
      /\ Stored[f][i] \in Streams \X Nat
      /\ Stored[f][i][2] <= acked[Stored[f][i][1]]

IInv ==
    /\ FlagType /\ PlaceType /\ DataType /\ CountType
    /\ StreamInv /\ EndInv /\ LockInv /\ CopyInv /\ StoredInv
    /\ OutputKept /\ OutputInOrder /\ RotationNotForgotten

-----------------------------------------------------------------------------
(* The pieces                                                              *)

DataUnchanged == UNCHANGED <<produced, pipe, pending, acked, active, archives>>

\* The files as one sequence of sequences.
LEMMA AppendIs ==
    ASSUME NEW A \in Seq(Seq(Pieces)), NEW b \in Seq(Pieces)
    PROVE  /\ Len(A) \in Nat /\ Append(A, b) \in Seq(Seq(Pieces))
           /\ Len(Append(A, b)) = Len(A) + 1 /\ DOMAIN Append(A, b) = 1..(Len(A) + 1)
           /\ Append(A, b)[Len(A) + 1] = b /\ \A f \in 1..Len(A) : Append(A, b)[f] = A[f]
<1> DEFINE T == Seq(Pieces)
<1>1. A \in Seq(T) /\ b \in T
  OBVIOUS
<1> HIDE DEF T
<1>2. Len(A) \in Nat /\ Append(A, b) \in Seq(T)
  BY <1>1, AppendProperties
<1>3. /\ Len(Append(A, b)) = Len(A) + 1
      /\ Append(A, b)[Len(A) + 1] = b /\ \A f \in 1..Len(A) : Append(A, b)[f] = A[f]
  BY <1>1, AppendProperties
<1>4. DOMAIN Append(A, b) = 1..Len(Append(A, b))
  BY <1>2
<1> QED
  BY <1>2, <1>3, <1>4 DEF T

LEMMA SumLast == \A a, b, c \in Nat : a + b + (c + 1) = (a + b + c) + 1
  OBVIOUS

LEMMA Moved ==
    \A a, b, n \in Nat : n <= b => (a + n) + (b - n) = a + b
  OBVIOUS

LEMMA Associative ==
    \A a, b, c \in Nat : a + (b + c) = (a + b) + c
  OBVIOUS

LEMMA PieceIs ==
    ASSUME NEW s \in Streams, NEW n \in 1..MaxOut
    PROVE  <<s, n>> \in Pieces /\ <<s, n>>[1] = s /\ <<s, n>>[2] = n
  BY DEF Pieces

LEMMA DataFacts ==
    ASSUME DataType
    PROVE  /\ MaxOut \in Nat /\ Len(active) \in Nat /\ Len(archives) \in Nat
           /\ DOMAIN active = 1..Len(active)
           /\ \A s \in Streams : /\ produced[s] \in 0..MaxOut /\ acked[s] \in 0..MaxOut
                                 /\ pipe[s] \in Seq(Pieces) /\ pending[s] \in Seq(Pieces)
                                 /\ Len(pipe[s]) \in Nat /\ Len(pending[s]) \in Nat
                                 /\ DOMAIN pipe[s] = 1..Len(pipe[s])
                                 /\ DOMAIN pending[s] = 1..Len(pending[s])
  BY SinkAssumption DEF DataType

\* The child writes a piece to its pipe.
LEMMA ChildWriteStep ==
    ASSUME DataType, StreamInv, NEW s \in Streams, ChildWrite(s)
    PROVE  DataType' /\ StreamInv' /\ UNCHANGED <<acked, active, archives>>
<1>d. acked[s] \in Nat /\ produced[s] \in Nat /\ Len(pending[s]) \in Nat /\ Len(pipe[s]) \in Nat
  BY DataFacts
<1>u. UNCHANGED <<pending, acked, active, archives>>
  BY DEF ChildWrite, reader, sink
<1>1. /\ produced[s] + 1 \in 1..MaxOut
      /\ produced' = [produced EXCEPT ![s] = @ + 1]
      /\ pipe' = [pipe EXCEPT ![s] = Append(@, <<s, produced[s] + 1>>)]
  BY DataFacts DEF ChildWrite
<1> DEFINE x == <<s, produced[s] + 1>>
           q == Append(pipe[s], x)
<1>2. x \in Pieces
  BY <1>1, PieceIs
<1>3. /\ q \in Seq(Pieces) /\ Len(q) = Len(pipe[s]) + 1
      /\ q[Len(pipe[s]) + 1] = x /\ \A i \in 1..Len(pipe[s]) : q[i] = pipe[s][i]
  BY <1>2, DataFacts, AppendProperties
<1>4. pipe'[s] = q /\ produced'[s] = produced[s] + 1
  BY <1>1 DEF DataType
<1>5. \A r \in Streams \ {s} : pipe'[r] = pipe[r] /\ produced'[r] = produced[r]
  BY <1>1 DEF DataType
<1> HIDE DEF q
<1>6. DataType'
  <2>1. pipe' \in [Streams -> Seq(Pieces)]
    BY <1>1, <1>3 DEF DataType, q
  <2>2. produced' \in [Streams -> 0..MaxOut]
    BY <1>1, DataFacts DEF DataType
  <2> QED
    BY <1>u, <2>1, <2>2 DEF DataType
<1>7. StreamInv'
  <2> SUFFICES ASSUME NEW r \in Streams
               PROVE  /\ produced'[r] = acked[r] + Len(pending[r]) + Len(pipe'[r])
                      /\ \A i \in 1..Len(pending[r]) : pending[r][i] = <<r, acked[r] + i>>
                      /\ \A i \in 1..Len(pipe'[r]) :
                           pipe'[r][i] = <<r, acked[r] + Len(pending[r]) + i>>
    BY <1>u DEF StreamInv
  <2>1. CASE r # s
    BY <1>5, <2>1 DEF StreamInv
  <2>2. CASE r = s
    <3>1. produced[s] = acked[s] + Len(pending[s]) + Len(pipe[s])
      BY DEF StreamInv
    <3>2. produced'[s] = acked[s] + Len(pending[s]) + Len(pipe'[s])
      <4>1. Len(pipe'[s]) = Len(pipe[s]) + 1
        BY <1>3, <1>4
      <4>2. acked[s] + Len(pending[s]) + (Len(pipe[s]) + 1) = (acked[s] + Len(pending[s]) + Len(pipe[s])) + 1
        BY <1>d, SumLast, Zenon
      <4> QED
        BY <1>4, <3>1, <4>1, <4>2, Zenon
    <3>3. ASSUME NEW i \in 1..Len(pipe'[s])
          PROVE  pipe'[s][i] = <<s, acked[s] + Len(pending[s]) + i>>
      <4>1. CASE i \in 1..Len(pipe[s])
        BY <1>3, <1>4, <4>1 DEF StreamInv
      <4>2. CASE i = Len(pipe[s]) + 1
        <5>1. acked[s] + Len(pending[s]) + i = produced[s] + 1
          <6>1. acked[s] + Len(pending[s]) + (Len(pipe[s]) + 1)
                  = (acked[s] + Len(pending[s]) + Len(pipe[s])) + 1
            BY <1>d, SumLast, Zenon
          <6> QED
            BY <3>1, <4>2, <6>1, Zenon
        <5> QED
          BY <1>3, <1>4, <4>2, <5>1
      <4> QED
        BY <1>3, <1>4, <3>3, <4>1, <4>2, DataFacts
    <3> QED
      BY <2>2, <3>2, <3>3 DEF StreamInv
  <2> QED
    BY <2>1, <2>2
<1> QED
  BY <1>u, <1>6, <1>7

\* A reader moves a piece from the pipe to its buffer.
LEMMA ReadStep ==
    ASSUME DataType, StreamInv, NEW s \in Streams, ReadPipe(s)
    PROVE  DataType' /\ StreamInv' /\ UNCHANGED <<acked, active, archives>>
<1>d. acked[s] \in Nat /\ produced[s] \in Nat /\ Len(pending[s]) \in Nat /\ Len(pipe[s]) \in Nat
  BY DataFacts
<1>u. UNCHANGED <<produced, acked, active, archives>>
  BY DEF ReadPipe, sink
<1>1. CASE UNCHANGED <<pending, pipe>>
  BY <1>u, <1>1 DEF DataType, StreamInv
<1>2. CASE /\ pipe[s] # <<>>
           /\ pending' = [pending EXCEPT ![s] = Append(@, Head(pipe[s]))]
           /\ pipe' = [pipe EXCEPT ![s] = Tail(@)]
  <2> DEFINE x == Head(pipe[s])
             p == Append(pending[s], x)
             q == Tail(pipe[s])
  <2>1. /\ x \in Pieces /\ x = pipe[s][1] /\ q \in Seq(Pieces) /\ Len(q) = Len(pipe[s]) - 1
        /\ \A i \in 1..Len(q) : q[i] = pipe[s][i + 1]
    BY <1>2, DataFacts, HeadTailProperties
  <2>2. /\ p \in Seq(Pieces) /\ Len(p) = Len(pending[s]) + 1
        /\ p[Len(pending[s]) + 1] = x /\ \A i \in 1..Len(pending[s]) : p[i] = pending[s][i]
    BY <2>1, DataFacts, AppendProperties
  <2>3. pipe'[s] = q /\ pending'[s] = p
    BY <1>2 DEF DataType
  <2>4. \A r \in Streams \ {s} : pipe'[r] = pipe[r] /\ pending'[r] = pending[r]
    BY <1>2 DEF DataType
  <2>5. pipe' \in [Streams -> Seq(Pieces)] /\ pending' \in [Streams -> Seq(Pieces)]
    BY <1>2, <2>1, <2>2 DEF DataType
  <2>l. Len(pending[s]) < BUFFER_LIMIT /\ BUFFER_LIMIT \in Nat /\ Len(pipe[s]) > 0
    BY <1>2, DataFacts, SinkAssumption DEF ReadPipe, BufferHasRoom
  <2> HIDE DEF x, p, q
  <2>6. DataType'
    <3>1. \A r \in Streams : Len(pending'[r]) <= BUFFER_LIMIT
      <4>1. Len(pending'[s]) <= BUFFER_LIMIT
        BY <1>d, <2>2, <2>3, <2>l
      <4> QED
        BY <2>4, <4>1 DEF DataType
    <3> QED
      BY <1>u, <2>5, <3>1 DEF DataType
  <2>7. StreamInv'
    <3> SUFFICES ASSUME NEW r \in Streams
                 PROVE  /\ produced[r] = acked[r] + Len(pending'[r]) + Len(pipe'[r])
                        /\ \A i \in 1..Len(pending'[r]) : pending'[r][i] = <<r, acked[r] + i>>
                        /\ \A i \in 1..Len(pipe'[r]) :
                             pipe'[r][i] = <<r, acked[r] + Len(pending'[r]) + i>>
      BY <1>u DEF StreamInv
    <3>1. CASE r # s
      BY <2>4, <3>1 DEF StreamInv
    <3>2. CASE r = s
      <4>1. produced[s] = acked[s] + Len(pending'[s]) + Len(pipe'[s])
        <5>1. produced[s] = acked[s] + Len(pending[s]) + Len(pipe[s])
          BY DEF StreamInv
        <5>2. produced[s] = acked[s] + Len(pending'[s]) + Len(pipe'[s])
          <6>1. Len(pending'[s]) = Len(pending[s]) + 1 /\ Len(pipe'[s]) = Len(pipe[s]) - 1
            BY <2>1, <2>2, <2>3
          <6>2. Len(pipe[s]) # 0
            BY <1>d, <2>l
          <6>3. acked[s] + (Len(pending[s]) + 1) + (Len(pipe[s]) - 1)
                  = acked[s] + Len(pending[s]) + Len(pipe[s])
            <7> DEFINE a == acked[s]
                       b == Len(pending[s])
                       c == Len(pipe[s])
            <7>1. a \in Nat /\ b \in Nat /\ c \in Nat
              BY <1>d
            <7>2. c # 0
              BY <6>2
            <7> HIDE DEF a, b, c
            <7>3. a + (b + 1) + (c - 1) = a + b + c
              BY <7>1, <7>2
            <7> QED
              BY <7>3 DEF a, b, c
          <6> QED
            BY <5>1, <6>1, <6>3, Zenon
        <5> QED
          BY <5>2
      <4>2. x = <<s, acked[s] + Len(pending[s]) + 1>>
        BY <2>1, <2>l, DataFacts DEF StreamInv
      <4>3. ASSUME NEW i \in 1..Len(pending'[s]) PROVE pending'[s][i] = <<s, acked[s] + i>>
        <5>1. CASE i \in 1..Len(pending[s])
          BY <2>2, <2>3, <5>1 DEF StreamInv
        <5>2. CASE i = Len(pending[s]) + 1
          <6>1. acked[s] + i = acked[s] + Len(pending[s]) + 1
            BY <5>2, DataFacts
          <6> QED
            BY <2>2, <2>3, <4>2, <5>2, <6>1
        <5> QED
          BY <2>2, <2>3, <5>1, <5>2, DataFacts
      <4>4. ASSUME NEW i \in 1..Len(pipe'[s])
            PROVE  pipe'[s][i] = <<s, acked[s] + Len(pending'[s]) + i>>
        <5>1. i + 1 \in 1..Len(pipe[s]) /\ pipe'[s][i] = pipe[s][i + 1]
          BY <2>1, <2>3, DataFacts
        <5>2. pipe[s][i + 1] = <<s, acked[s] + Len(pending[s]) + (i + 1)>>
          BY <5>1 DEF StreamInv
        <5>3. acked[s] + Len(pending'[s]) + i = acked[s] + Len(pending[s]) + (i + 1)
          <6>1. Len(pending'[s]) = Len(pending[s]) + 1 /\ i \in Nat
            BY <2>2, <2>3
          <6>2. acked[s] + (Len(pending[s]) + 1) + i = acked[s] + Len(pending[s]) + (i + 1)
            <7> DEFINE a == acked[s]
                       b == Len(pending[s])
            <7>1. a \in Nat /\ b \in Nat
              BY <1>d
            <7> HIDE DEF a, b
            <7>2. a + (b + 1) + i = a + b + (i + 1)
              BY <6>1, <7>1
            <7> QED
              BY <7>2 DEF a, b
          <6> QED
            BY <6>1, <6>2, Zenon
        <5> QED
          BY <5>1, <5>2, <5>3
      <4> QED
        BY <3>2, <4>1, <4>3, <4>4
    <3> QED
      BY <3>1, <3>2
  <2> QED
    BY <1>u, <2>6, <2>7
<1> QED
  BY <1>1, <1>2 DEF ReadPipe

\* write_some: the first n pieces of the buffer go to the end of the active file.
LEMMA WriteFacts ==
    ASSUME DataType, StreamInv, NEW s \in Streams, WriteSome(s)
    PROVE  \E n \in 1..Len(pending[s]) :
             /\ UNCHANGED <<produced, pipe, archives>>
             /\ active' \in Seq(Pieces) /\ Len(active') = Len(active) + n
             /\ \A i \in 1..Len(active) : active'[i] = active[i]
             /\ \A i \in 1..n : active'[Len(active) + i] = <<s, acked[s] + i>>
             /\ pending' \in [Streams -> Seq(Pieces)] /\ acked' \in [Streams -> 0..MaxOut]
             /\ \A r \in Streams \ {s} : pending'[r] = pending[r] /\ acked'[r] = acked[r]
             /\ acked'[s] = acked[s] + n /\ Len(pending'[s]) = Len(pending[s]) - n
             /\ \A i \in 1..Len(pending'[s]) : pending'[s][i] = pending[s][n + i]
<1>d. /\ acked[s] \in Nat /\ produced[s] \in 0..MaxOut /\ Len(pending[s]) \in Nat /\ Len(pipe[s]) \in Nat
      /\ pending[s] \in Seq(Pieces) /\ Len(active) \in Nat /\ MaxOut \in Nat
  BY DataFacts
<1>u. UNCHANGED <<produced, pipe, archives>>
  BY DEF WriteSome, child
<1>p. PICK n \in 1..Len(pending[s]) :
        /\ active' = active \o SubSeq(pending[s], 1, n)
        /\ pending' = [pending EXCEPT ![s] = SubSeq(@, n + 1, Len(@))]
        /\ acked' = [acked EXCEPT ![s] = @ + n]
  BY DEF WriteSome
<1>n. n \in Nat /\ n >= 1 /\ n <= Len(pending[s])
  BY <1>d, <1>p
<1> DEFINE x == SubSeq(pending[s], 1, n)
           p == SubSeq(pending[s], n + 1, Len(pending[s]))
<1>1. \A i \in 1..Len(pending[s]) : pending[s][i] \in Pieces
  BY <1>d, ElementOfSeq
<1>2. x \in Seq(Pieces) /\ Len(x) = n /\ \A i \in 1..n : x[i] = pending[s][i]
  <2>1. \A i \in 1..n : pending[s][i] \in Pieces
    BY <1>1, <1>d, <1>n
  <2>2. /\ x \in Seq(Pieces) /\ Len(x) = IF 1 <= n THEN n - 1 + 1 ELSE 0
        /\ \A i \in 1..(n - 1 + 1) : x[i] = pending[s][1 + i - 1]
    BY <2>1, <1>n, SubSeqProperties
  <2>3. n - 1 + 1 = n /\ \A i \in 1..n : 1 + i - 1 = i
    BY <1>n
  <2> QED
    BY <1>n, <2>2, <2>3
<1>3. /\ p \in Seq(Pieces) /\ Len(p) = Len(pending[s]) - n
      /\ \A i \in 1..Len(p) : p[i] = pending[s][n + i]
  <2> DEFINE a == n + 1
             b == Len(pending[s])
  <2>1. a \in Int /\ b \in Int /\ \A i \in a..b : pending[s][i] \in Pieces
    BY <1>1, <1>d, <1>n
  <2>2. /\ p \in Seq(Pieces) /\ Len(p) = IF a <= b THEN b - a + 1 ELSE 0
        /\ \A i \in 1..(b - a + 1) : p[i] = pending[s][a + i - 1]
    BY <2>1, SubSeqProperties
  <2>3. Len(p) = b - n /\ b - a + 1 = b - n
    BY <1>d, <1>n, <2>2
  <2>4. \A i \in 1..Len(p) : a + i - 1 = n + i
    BY <1>d, <1>n, <2>3
  <2> HIDE DEF p
  <2> QED
    BY <2>2, <2>3, <2>4
<1>4. /\ active' \in Seq(Pieces) /\ Len(active') = Len(active) + n
      /\ \A i \in 1..(Len(active) + n) :
            active'[i] = IF i <= Len(active) THEN active[i] ELSE x[i - Len(active)]
  <2>1. active \in Seq(Pieces) /\ active' = active \o x
    BY <1>p DEF DataType
  <2> HIDE DEF x
  <2>2. /\ active' \in Seq(Pieces) /\ Len(active') = Len(active) + Len(x)
        /\ \A i \in 1..(Len(active) + Len(x)) :
            active'[i] = IF i <= Len(active) THEN active[i] ELSE x[i - Len(active)]
    BY <1>2, <2>1, ConcatProperties
  <2> QED
    BY <1>2, <2>2
<1> HIDE DEF x, p
<1>5. \A i \in 1..Len(active) : active'[i] = active[i]
  BY <1>4, <1>d, <1>n
<1>6. ASSUME NEW i \in 1..n PROVE active'[Len(active) + i] = <<s, acked[s] + i>>
  <2>1. /\ Len(active) + i \in 1..(Len(active) + n) /\ ~(Len(active) + i <= Len(active))
        /\ Len(active) + i - Len(active) = i
    BY <1>d, <1>n
  <2>2. active'[Len(active) + i] = x[i]
    BY <1>4, <2>1
  <2>3. x[i] = pending[s][i] /\ i \in 1..Len(pending[s])
    BY <1>2, <1>d, <1>n
  <2> QED
    BY <2>2, <2>3 DEF StreamInv
<1>7. acked'[s] = acked[s] + n /\ pending'[s] = p
  BY <1>p DEF DataType, p
<1>8. \A r \in Streams \ {s} : pending'[r] = pending[r] /\ acked'[r] = acked[r]
  BY <1>p DEF DataType
<1>9. pending' \in [Streams -> Seq(Pieces)]
  BY <1>p, <1>3 DEF DataType, p
<1>10. acked' \in [Streams -> 0..MaxOut]
  <2>1. produced[s] = acked[s] + Len(pending[s]) + Len(pipe[s])
    BY DEF StreamInv
  <2>2. acked[s] + n \in 0..MaxOut
    <3> DEFINE a == acked[s]
               b == Len(pending[s])
               c == Len(pipe[s])
    <3>1. a \in Nat /\ b \in Nat /\ c \in Nat /\ n \in Nat /\ n <= b
      BY <1>d, <1>n
    <3>2. a + b + c \in 0..MaxOut
      BY <1>d, <2>1
    <3> HIDE DEF a, b, c
    <3>3. a + n \in 0..MaxOut
      BY <3>1, <3>2, SinkAssumption
    <3> QED
      BY <3>3 DEF a
  <2> QED
    BY <1>p, <2>2 DEF DataType
<1> QED
  BY <1>u, <1>3, <1>4, <1>5, <1>6, <1>7, <1>8, <1>9, <1>10

\* The stored pieces, of any files F and any counts a of accepted pieces.
Accepted(F, a) ==
    \A f \in DOMAIN F : \A i \in DOMAIN F[f] : F[f][i] \in Streams \X Nat /\ F[f][i][2] <= a[F[f][i][1]]

Keeps(F, a) ==
    \A s \in Streams : \A n \in 1..a[s] : \E f \in DOMAIN F : \E i \in DOMAIN F[f] : F[f][i] = <<s, n>>

Ordered(F) ==
    \A f, g \in DOMAIN F : \A i \in DOMAIN F[f], j \in DOMAIN F[g] :
      f < g \/ (f = g /\ i < j) => (F[f][i][1] = F[g][j][1] => F[f][i][2] < F[g][j][2])

\* n pieces of the stream s, those after the t-th, are added to the last file, of
\* k pieces; a and b count the accepted pieces before and after it.
Grown(F, G, L, k, n, s, t) ==
    /\ DOMAIN F = 1..(L + 1) /\ DOMAIN G = 1..(L + 1) /\ \A f \in 1..L : G[f] = F[f]
    /\ DOMAIN F[L + 1] = 1..k /\ DOMAIN G[L + 1] = 1..(k + n)
    /\ \A i \in 1..k : G[L + 1][i] = F[L + 1][i]
    /\ \A i \in 1..n : G[L + 1][k + i] = <<s, t + i>>

Counted(a, b, n, s, t) ==
    /\ a \in [Streams -> Nat] /\ b \in [Streams -> Nat]
    /\ a[s] = t /\ b[s] = t + n /\ \A r \in Streams \ {s} : b[r] = a[r]

LEMMA GrowKeeps ==
    ASSUME NEW F, NEW G, NEW L \in Nat, NEW k \in Nat, NEW n \in Nat, NEW s \in Streams, NEW t \in Nat,
           NEW a, NEW b, Grown(F, G, L, k, n, s, t), Counted(a, b, n, s, t), Accepted(F, a)
    PROVE  /\ Accepted(G, b)
           /\ Keeps(F, a) => Keeps(G, b)
           /\ Ordered(F) => Ordered(G)
<1> USE DEF Grown, Counted
\* A stored piece was stored before, or is new.
<1>1. ASSUME NEW f \in DOMAIN G, NEW i \in DOMAIN G[f]
      PROVE  \/ f \in DOMAIN F /\ i \in DOMAIN F[f] /\ G[f][i] = F[f][i]
             \/ f = L + 1 /\ \E m \in 1..n : i = k + m /\ G[f][i] = <<s, t + m>>
  <2>1. CASE f \in 1..L
    BY <2>1
  <2>2. CASE f = L + 1 /\ i \in 1..k
    BY <2>2
  <2>3. CASE f = L + 1 /\ ~(i \in 1..k)
    <3>1. i - k \in 1..n /\ i = k + (i - k)
      BY <2>3
    <3> QED
      BY <2>3, <3>1
  <2>4. f \in 1..L \/ f = L + 1
    OBVIOUS
  <2> QED
    BY <2>1, <2>2, <2>3, <2>4
<1>2. \A f \in DOMAIN F : \A i \in DOMAIN F[f] : f \in DOMAIN G /\ i \in DOMAIN G[f] /\ G[f][i] = F[f][i]
  <2> SUFFICES ASSUME NEW f \in DOMAIN F, NEW i \in DOMAIN F[f]
               PROVE  f \in DOMAIN G /\ i \in DOMAIN G[f] /\ G[f][i] = F[f][i]
    OBVIOUS
  <2>1. CASE f \in 1..L
    BY <2>1
  <2>2. CASE f = L + 1
    BY <2>2
  <2>3. f \in 1..L \/ f = L + 1
    OBVIOUS
  <2> QED
    BY <2>1, <2>2, <2>3
<1>3. \A f \in DOMAIN F : \A i \in DOMAIN F[f] :
        F[f][i] \in Streams \X Nat /\ F[f][i][2] <= a[F[f][i][1]]
  BY DEF Accepted
<1>4. \A r \in Streams : a[r] \in Nat /\ b[r] \in Nat /\ a[r] <= b[r]
  <2>1. a[s] <= b[s]
    OBVIOUS
  <2>2. \A r \in Streams : a[r] \in Nat /\ b[r] \in Nat
    OBVIOUS
  <2>3. ASSUME NEW r \in Streams, r # s PROVE a[r] <= b[r]
    BY <2>2, <2>3
  <2> QED
    BY <2>1, <2>2, <2>3
<1>5. Accepted(G, b)
  <2> SUFFICES ASSUME NEW f \in DOMAIN G, NEW i \in DOMAIN G[f]
               PROVE  G[f][i] \in Streams \X Nat /\ G[f][i][2] <= b[G[f][i][1]]
    BY DEF Accepted
  <2>1. CASE f \in DOMAIN F /\ i \in DOMAIN F[f] /\ G[f][i] = F[f][i]
    <3>1. F[f][i] \in Streams \X Nat /\ F[f][i][2] <= a[F[f][i][1]]
      BY <1>3, <2>1
    <3>2. F[f][i][1] \in Streams /\ F[f][i][2] \in Nat
      BY <3>1
    <3> QED
      BY <1>4, <2>1, <3>1, <3>2
  <2>2. ASSUME NEW m \in 1..n, G[f][i] = <<s, t + m>>
        PROVE  G[f][i] \in Streams \X Nat /\ G[f][i][2] <= b[G[f][i][1]]
    <3>1. t + m \in Nat /\ t + m <= b[s]
      OBVIOUS
    <3> QED
      BY <2>2, <3>1
  <2> QED
    BY <1>1, <2>1, <2>2
<1>6. ASSUME Keeps(F, a) PROVE Keeps(G, b)
  <2> SUFFICES ASSUME NEW r \in Streams, NEW m \in 1..b[r]
               PROVE  \E f \in DOMAIN G : \E i \in DOMAIN G[f] : G[f][i] = <<r, m>>
    BY DEF Keeps
  <2>1. CASE m \in 1..a[r]
    <3>1. \E f \in DOMAIN F : \E i \in DOMAIN F[f] : F[f][i] = <<r, m>>
      BY <1>6, <2>1 DEF Keeps
    <3> QED
      BY <1>2, <3>1
  <2>2. CASE ~(m \in 1..a[r])
    <3>1. r = s
      BY <2>2
    <3>2. m - t \in 1..n /\ t + (m - t) = m
      BY <2>2, <3>1
    <3>3. L + 1 \in DOMAIN G /\ k + (m - t) \in DOMAIN G[L + 1]
      BY <3>2
    <3> QED
      BY <3>1, <3>2, <3>3
  <2> QED
    BY <2>1, <2>2
<1>7. ASSUME Ordered(F) PROVE Ordered(G)
  <2> SUFFICES ASSUME NEW f \in DOMAIN G, NEW g \in DOMAIN G,
                      NEW i \in DOMAIN G[f], NEW j \in DOMAIN G[g],
                      f < g \/ (f = g /\ i < j), G[f][i][1] = G[g][j][1]
               PROVE  G[f][i][2] < G[g][j][2]
    BY DEF Ordered
  <2>1. CASE g \in DOMAIN F /\ j \in DOMAIN F[g] /\ G[g][j] = F[g][j]
    <3>1. f \in DOMAIN F /\ i \in DOMAIN F[f] /\ G[f][i] = F[f][i]
      <4>1. CASE f = L + 1
        <5>1. g = f /\ i < j
          BY <4>1
        <5>2. i \in 1..k
          BY <2>1, <4>1, <5>1
        <5> QED
          BY <4>1, <5>2
      <4>2. CASE f \in 1..L
        BY <4>2
      <4> QED
        BY <4>1, <4>2
    <3>2. F[f][i][1] = F[g][j][1]
      BY <2>1, <3>1
    <3>3. F[f][i][2] < F[g][j][2]
      BY <1>7, <2>1, <3>1, <3>2 DEF Ordered
    <3> QED
      BY <2>1, <3>1, <3>3
  <2>2. ASSUME g = L + 1, NEW m \in 1..n, j = k + m, G[g][j] = <<s, t + m>>
        PROVE  G[f][i][2] < G[g][j][2]
    <3>0. G[g][j][1] = s /\ G[g][j][2] = t + m
      BY <2>2
    <3>1. CASE f \in DOMAIN F /\ i \in DOMAIN F[f] /\ G[f][i] = F[f][i]
      <4>1. F[f][i] \in Streams \X Nat /\ F[f][i][2] <= a[F[f][i][1]] /\ F[f][i][1] = s
        BY <1>3, <3>0, <3>1
      <4>2. F[f][i][2] \in Nat /\ F[f][i][2] <= t
        BY <4>1
      <4>3. m \in Nat /\ m > 0 /\ t \in Nat
        OBVIOUS
      <4>4. F[f][i][2] < t + m
        BY <4>2, <4>3
      <4> QED
        BY <3>0, <3>1, <4>4
    <3>2. ASSUME f = L + 1, NEW q \in 1..n, i = k + q, G[f][i] = <<s, t + q>>
          PROVE  G[f][i][2] < G[g][j][2]
      <4>1. i < j
        BY <2>2, <3>2
      <4>2. q < m
        BY <2>2, <3>2, <4>1
      <4>3. G[f][i][2] = t + q
        BY <3>2
      <4> QED
        BY <3>0, <4>2, <4>3
    <3>3. \/ f \in DOMAIN F /\ i \in DOMAIN F[f] /\ G[f][i] = F[f][i]
          \/ f = L + 1 /\ \E q \in 1..n : i = k + q /\ G[f][i] = <<s, t + q>>
      BY <1>1
    <3> QED
      BY <3>1, <3>2, <3>3
  <2>3. \/ g \in DOMAIN F /\ j \in DOMAIN F[g] /\ G[g][j] = F[g][j]
        \/ g = L + 1 /\ \E m \in 1..n : j = k + m /\ G[g][j] = <<s, t + m>>
    BY <1>1
  <2> QED
    BY <2>1, <2>2, <2>3
<1> QED
  BY <1>5, <1>6, <1>7

\* The three properties of the stored pieces, in these terms.
LEMMA StoredAs ==
    /\ StoredInv <=> Accepted(Stored, acked)
    /\ OutputKept <=> Keeps(Stored, acked)
    /\ OutputInOrder <=> (~copyAndTruncate => Ordered(Stored))
<1>1. StoredInv <=> Accepted(Stored, acked)
  BY DEF StoredInv, Accepted
<1>2. OutputKept <=> Keeps(Stored, acked)
  BY DEF OutputKept, Keeps
<1>3. OutputInOrder <=> (~copyAndTruncate => Ordered(Stored))
  BY DEF OutputInOrder, Ordered
<1> QED
  BY <1>1, <1>2, <1>3

LEMMA WriteStep ==
    ASSUME DataType, StreamInv, StoredInv, OutputKept, OutputInOrder, UNCHANGED copyAndTruncate,
           NEW s \in Streams, WriteSome(s)
    PROVE  DataType' /\ StreamInv' /\ StoredInv' /\ OutputKept' /\ OutputInOrder'
<1>p. PICK n \in 1..Len(pending[s]) :
             /\ UNCHANGED <<produced, pipe, archives>>
             /\ active' \in Seq(Pieces) /\ Len(active') = Len(active) + n
             /\ \A i \in 1..Len(active) : active'[i] = active[i]
             /\ \A i \in 1..n : active'[Len(active) + i] = <<s, acked[s] + i>>
             /\ pending' \in [Streams -> Seq(Pieces)] /\ acked' \in [Streams -> 0..MaxOut]
             /\ \A r \in Streams \ {s} : pending'[r] = pending[r] /\ acked'[r] = acked[r]
             /\ acked'[s] = acked[s] + n /\ Len(pending'[s]) = Len(pending[s]) - n
             /\ \A i \in 1..Len(pending'[s]) : pending'[s][i] = pending[s][n + i]
  BY WriteFacts
<1>u. UNCHANGED <<produced, pipe, archives>>
  BY <1>p
<1>a. /\ active' \in Seq(Pieces) /\ Len(active') = Len(active) + n
      /\ \A i \in 1..Len(active) : active'[i] = active[i]
      /\ \A i \in 1..n : active'[Len(active) + i] = <<s, acked[s] + i>>
  BY <1>p
<1>b. /\ pending' \in [Streams -> Seq(Pieces)] /\ acked' \in [Streams -> 0..MaxOut]
      /\ \A r \in Streams \ {s} : pending'[r] = pending[r] /\ acked'[r] = acked[r]
  BY <1>p
<1>c. acked'[s] = acked[s] + n /\ Len(pending'[s]) = Len(pending[s]) - n
  BY <1>p
<1>e. \A i \in 1..Len(pending'[s]) : pending'[s][i] = pending[s][n + i]
  BY <1>p
<1>d. Len(pending[s]) \in Nat /\ Len(pipe[s]) \in Nat /\ Len(active) \in Nat /\ acked[s] \in Nat
  BY DataFacts
<1>n. n \in Nat /\ n <= Len(pending[s])
  BY <1>d
<1>1. DataType'
  <2>1. Len(pending[s]) <= BUFFER_LIMIT /\ BUFFER_LIMIT \in Nat
    BY SinkAssumption DEF DataType
  <2>2. Len(pending[s]) - n <= BUFFER_LIMIT
    BY <1>d, <1>n, <2>1
  <2>3. \A r \in Streams : Len(pending'[r]) <= BUFFER_LIMIT
    BY <1>b, <1>c, <2>2 DEF DataType
  <2> QED
    BY <1>u, <1>a, <1>b, <2>3 DEF DataType
<1>2. StreamInv'
  <2> SUFFICES ASSUME NEW r \in Streams
               PROVE  /\ produced[r] = acked'[r] + Len(pending'[r]) + Len(pipe[r])
                      /\ \A i \in 1..Len(pending'[r]) : pending'[r][i] = <<r, acked'[r] + i>>
                      /\ \A i \in 1..Len(pipe[r]) :
                           pipe[r][i] = <<r, acked'[r] + Len(pending'[r]) + i>>
    BY <1>u DEF StreamInv
  <2>1. CASE r # s
    <3>1. pending'[r] = pending[r] /\ acked'[r] = acked[r]
      BY <1>b, <2>1
    <3> QED
      BY <3>1 DEF StreamInv
  <2>2. CASE r = s
    <3>1. acked'[s] + Len(pending'[s]) = acked[s] + Len(pending[s])
      <4>1. (acked[s] + n) + (Len(pending[s]) - n) = acked[s] + Len(pending[s])
        BY <1>d, <1>n, Moved, Zenon
      <4> QED
        BY <1>c, <4>1, Zenon
    <3>2. ASSUME NEW i \in 1..Len(pending'[s]) PROVE pending'[s][i] = <<s, acked'[s] + i>>
      <4>1. i \in Nat /\ i \in 1..(Len(pending[s]) - n)
        BY <1>c, <1>d, <1>n
      <4>2. n + i \in 1..Len(pending[s])
        BY <1>d, <1>n, <4>1
      <4>3. pending[s][n + i] = <<s, acked[s] + (n + i)>>
        BY <4>2 DEF StreamInv
      <4>4. acked[s] + (n + i) = (acked[s] + n) + i
        BY <1>d, <1>n, <4>1, Associative, Zenon
      <4>5. pending'[s][i] = pending[s][n + i]
        BY <1>e
      <4> QED
        BY <1>c, <4>3, <4>4, <4>5, Zenon
    <3>3. produced[s] = acked[s] + Len(pending[s]) + Len(pipe[s])
      BY DEF StreamInv
    <3>4. \A i \in 1..Len(pipe[s]) : pipe[s][i] = <<s, acked[s] + Len(pending[s]) + i>>
      BY DEF StreamInv
    <3>5. produced[s] = acked'[s] + Len(pending'[s]) + Len(pipe[s])
      BY <3>1, <3>3, Zenon
    <3>6. \A i \in 1..Len(pipe[s]) : pipe[s][i] = <<s, acked'[s] + Len(pending'[s]) + i>>
      BY <3>1, <3>4, Zenon
    <3> QED
      BY <2>2, <3>2, <3>5, <3>6, Zenon
  <2> QED
    BY <2>1, <2>2
<1>3. Accepted(Stored', acked') /\ Keeps(Stored', acked') /\ (~copyAndTruncate => Ordered(Stored'))
  <2> DEFINE L == Len(archives)
             F == Stored
             G == Stored'
             k == Len(active)
             t == acked[s]
  <2>1. /\ L \in Nat /\ DOMAIN F = 1..(L + 1) /\ DOMAIN G = 1..(L + 1)
        /\ F[L + 1] = active /\ G[L + 1] = active' /\ \A f \in 1..L : G[f] = F[f]
    BY <1>u, <1>a, AppendIs DEF DataType, Stored
  <2>2. Accepted(F, acked) /\ Keeps(F, acked) /\ (~copyAndTruncate => Ordered(F))
    BY StoredAs
  <2>3. k \in Nat /\ t \in Nat /\ DOMAIN F[L + 1] = 1..k
    BY <1>d, <2>1, DataFacts
  <2>4. DOMAIN G[L + 1] = 1..(k + n)
    BY <1>a, <2>1
  <2>5. acked \in [Streams -> Nat] /\ acked' \in [Streams -> Nat]
    BY <1>b, DataFacts DEF DataType
  <2>6. acked'[s] = t + n
    BY <1>c
  <2>7. /\ \A i \in 1..k : G[L + 1][i] = F[L + 1][i]
        /\ \A i \in 1..n : G[L + 1][k + i] = <<s, t + i>>
    BY <1>a, <2>1
  <2>8. \A r \in Streams \ {s} : acked'[r] = acked[r]
    BY <1>b
  <2>9. acked[s] = t
    OBVIOUS
  <2> HIDE DEF L, F, G, k, t
  <2>g. Grown(F, G, L, k, n, s, t)
    BY <2>1, <2>3, <2>4, <2>7 DEF Grown
  <2>c. Counted(acked, acked', n, s, t)
    BY <2>5, <2>6, <2>8, <2>9 DEF Counted
  <2>10. Accepted(G, acked') /\ (Keeps(F, acked) => Keeps(G, acked')) /\ (Ordered(F) => Ordered(G))
    BY <1>n, <2>1, <2>2, <2>3, <2>g, <2>c, GrowKeeps
  <2> QED
    BY <2>2, <2>10 DEF G
<1>4. StoredInv' /\ OutputKept' /\ OutputInOrder'
  BY <1>3 DEF StoredInv, OutputKept, OutputInOrder, Accepted, Keeps, Ordered
<1> QED
  BY <1>1, <1>2, <1>4

\* The last file, or a part of it from the start, becomes an archive, and it stays
\* or is emptied.
Archived(F, G, L) ==
    /\ DOMAIN F = 1..(L + 1) /\ DOMAIN G = 1..(L + 2) /\ \A f \in 1..L : G[f] = F[f]
    /\ DOMAIN G[L + 1] \subseteq DOMAIN F[L + 1]
    /\ \A i \in DOMAIN G[L + 1] : G[L + 1][i] = F[L + 1][i]
    /\ \/ G[L + 2] = F[L + 1]
       \/ G[L + 1] = F[L + 1] /\ DOMAIN G[L + 2] = {}

LEMMA ArchiveKeeps ==
    ASSUME NEW F, NEW G, NEW L \in Nat, NEW a, Archived(F, G, L)
    PROVE  /\ Accepted(F, a) => Accepted(G, a)
           /\ Keeps(F, a) => Keeps(G, a)
           /\ DOMAIN G[L + 2] = {} /\ Ordered(F) => Ordered(G)
<1>f. \A f \in 1..(L + 2) : f \in 1..L \/ f = L + 1 \/ f = L + 2
  OBVIOUS
<1>1. \A f \in DOMAIN G : \A i \in DOMAIN G[f] :
        \E g \in DOMAIN F : i \in DOMAIN F[g] /\ G[f][i] = F[g][i]
  <2> SUFFICES ASSUME NEW f \in DOMAIN G, NEW i \in DOMAIN G[f]
               PROVE  \E g \in DOMAIN F : i \in DOMAIN F[g] /\ G[f][i] = F[g][i]
    OBVIOUS
  <2>1. CASE f \in 1..L
    BY <2>1 DEF Archived
  <2>2. CASE f = L + 1
    BY <2>2 DEF Archived
  <2>3. CASE f = L + 2
    <3>1. L + 1 \in DOMAIN F
      BY DEF Archived
    <3>2. G[L + 2] = F[L + 1]
      BY <2>3 DEF Archived
    <3> QED
      BY <2>3, <3>1, <3>2
  <2> QED
    BY <1>f, <2>1, <2>2, <2>3 DEF Archived
<1>2. \A f \in DOMAIN F : \A i \in DOMAIN F[f] :
        \E g \in DOMAIN G : i \in DOMAIN G[g] /\ F[f][i] = G[g][i]
  <2> SUFFICES ASSUME NEW f \in DOMAIN F, NEW i \in DOMAIN F[f]
               PROVE  \E g \in DOMAIN G : i \in DOMAIN G[g] /\ F[f][i] = G[g][i]
    OBVIOUS
  <2>1. CASE f \in 1..L
    BY <2>1 DEF Archived
  <2>2. CASE f = L + 1
    <3>1. L + 1 \in DOMAIN G /\ L + 2 \in DOMAIN G
      BY DEF Archived
    <3> QED
      BY <2>2, <3>1 DEF Archived
  <2>3. f \in 1..L \/ f = L + 1
    BY DEF Archived
  <2> QED
    BY <2>1, <2>2, <2>3
<1>3. Accepted(F, a) => Accepted(G, a)
  <2> SUFFICES ASSUME Accepted(F, a), NEW f \in DOMAIN G, NEW i \in DOMAIN G[f]
               PROVE  G[f][i] \in Streams \X Nat /\ G[f][i][2] <= a[G[f][i][1]]
    BY DEF Accepted
  <2>1. PICK g \in DOMAIN F : i \in DOMAIN F[g] /\ G[f][i] = F[g][i]
    BY <1>1
  <2> QED
    BY <2>1 DEF Accepted
<1>4. Keeps(F, a) => Keeps(G, a)
  <2> SUFFICES ASSUME Keeps(F, a), NEW s \in Streams, NEW n \in 1..a[s]
               PROVE  \E f \in DOMAIN G : \E i \in DOMAIN G[f] : G[f][i] = <<s, n>>
    BY DEF Keeps
  <2>1. PICK f \in DOMAIN F : \E i \in DOMAIN F[f] : F[f][i] = <<s, n>>
    BY DEF Keeps
  <2>2. PICK i \in DOMAIN F[f] : F[f][i] = <<s, n>>
    BY <2>1
  <2> QED
    BY <1>2, <2>2
<1>5. ASSUME DOMAIN G[L + 2] = {}, Ordered(F) PROVE Ordered(G)
  <2>1. \A f \in DOMAIN G : \A i \in DOMAIN G[f] : f \in DOMAIN F /\ i \in DOMAIN F[f] /\ G[f][i] = F[f][i]
    <3> SUFFICES ASSUME NEW f \in DOMAIN G, NEW i \in DOMAIN G[f]
                 PROVE  f \in DOMAIN F /\ i \in DOMAIN F[f] /\ G[f][i] = F[f][i]
      OBVIOUS
    <3>1. f \in 1..L \/ f = L + 1
      BY <1>f, <1>5 DEF Archived
    <3>2. f \in DOMAIN F
      BY <3>1 DEF Archived
    <3> QED
      BY <3>1, <3>2 DEF Archived
  <2> QED
    BY <1>5, <2>1 DEF Ordered
<1> QED
  BY <1>3, <1>4, <1>5

\* The last file is emptied; the one before it is a copy of it.
Emptied(F, G, L) ==
    /\ DOMAIN F = 1..(L + 1) /\ DOMAIN G = 1..(L + 1) /\ \A f \in 1..L : G[f] = F[f]
    /\ L \in DOMAIN F /\ F[L] = F[L + 1] /\ DOMAIN G[L + 1] = {}

LEMMA EmptyKeeps ==
    ASSUME NEW F, NEW G, NEW L \in Nat \ {0}, NEW a, Emptied(F, G, L)
    PROVE  /\ Accepted(F, a) => Accepted(G, a)
           /\ Keeps(F, a) => Keeps(G, a)
           /\ Ordered(F) => Ordered(G)
<1>1. \A f \in DOMAIN G : \A i \in DOMAIN G[f] : f \in DOMAIN F /\ i \in DOMAIN F[f] /\ G[f][i] = F[f][i]
  <2> SUFFICES ASSUME NEW f \in DOMAIN G, NEW i \in DOMAIN G[f]
               PROVE  f \in DOMAIN F /\ i \in DOMAIN F[f] /\ G[f][i] = F[f][i]
    OBVIOUS
  <2>1. f \in 1..L
    BY DEF Emptied
  <2> QED
    BY <2>1 DEF Emptied
<1>2. \A f \in DOMAIN F : \A i \in DOMAIN F[f] :
        \E g \in DOMAIN G : i \in DOMAIN G[g] /\ F[f][i] = G[g][i]
  <2> SUFFICES ASSUME NEW f \in DOMAIN F, NEW i \in DOMAIN F[f]
               PROVE  \E g \in DOMAIN G : i \in DOMAIN G[g] /\ F[f][i] = G[g][i]
    OBVIOUS
  <2>1. CASE f \in 1..L
    BY <2>1 DEF Emptied
  <2>2. CASE f = L + 1
    <3>1. L \in DOMAIN G /\ G[L] = F[L + 1]
      BY DEF Emptied
    <3> QED
      BY <2>2, <3>1
  <2>3. f \in 1..L \/ f = L + 1
    BY DEF Emptied
  <2> QED
    BY <2>1, <2>2, <2>3
<1>3. Accepted(F, a) => Accepted(G, a)
  BY <1>1 DEF Accepted
<1>4. Keeps(F, a) => Keeps(G, a)
  <2> SUFFICES ASSUME Keeps(F, a), NEW s \in Streams, NEW n \in 1..a[s]
               PROVE  \E f \in DOMAIN G : \E i \in DOMAIN G[f] : G[f][i] = <<s, n>>
    BY DEF Keeps
  <2>1. PICK f \in DOMAIN F : \E i \in DOMAIN F[f] : F[f][i] = <<s, n>>
    BY DEF Keeps
  <2>2. PICK i \in DOMAIN F[f] : F[f][i] = <<s, n>>
    BY <2>1
  <2> QED
    BY <1>2, <2>2
<1>5. Ordered(F) => Ordered(G)
  BY <1>1 DEF Ordered
<1> QED
  BY <1>3, <1>4, <1>5

LEMMA StoredStays ==
    ASSUME StoredInv, OutputKept, OutputInOrder, UNCHANGED <<copyAndTruncate, active, archives, acked>>
    PROVE  StoredInv' /\ OutputKept' /\ OutputInOrder'
<1>1. Stored' = Stored
  BY DEF Stored
<1>2. StoredInv'
  BY <1>1 DEF StoredInv
<1>3. OutputKept'
  BY <1>1 DEF OutputKept
<1>4. OutputInOrder'
  BY <1>1 DEF OutputInOrder
<1> QED
  BY <1>2, <1>3, <1>4

NewArchive(x) ==
    /\ x \in Seq(Pieces) /\ archives' = Append(archives, x) /\ active' \in Seq(Pieces)
    /\ DOMAIN x \subseteq DOMAIN active /\ \A i \in DOMAIN x : x[i] = active[i]
    /\ active' = active \/ (x = active /\ active' = <<>>)
    /\ ~copyAndTruncate => active' = <<>>

LEMMA ArchiveStep ==
    ASSUME DataType, StoredInv, OutputKept, OutputInOrder, UNCHANGED copyAndTruncate, WorkerArchive
    PROVE  /\ UNCHANGED <<produced, pipe, pending, acked>>
           /\ DataType' /\ StoredInv' /\ OutputKept' /\ OutputInOrder'
<1>u. UNCHANGED <<produced, pipe, pending, acked>>
  BY DEF WorkerArchive, child, reader
<1>t. active \in Seq(Pieces) /\ archives \in Seq(Seq(Pieces)) /\ Len(active) \in Nat
      /\ DOMAIN active = 1..Len(active)
  BY DataFacts DEF DataType
<1>o. Accepted(Stored, acked) /\ Keeps(Stored, acked) /\ (~copyAndTruncate => Ordered(Stored))
  BY StoredAs
<1>1. CASE UNCHANGED <<active, archives>>
  <2>1. DataType'
    BY <1>u, <1>1 DEF DataType
  <2> QED
    BY <1>u, <1>1, <2>1, StoredStays
<1>2. ASSUME NEW x, NewArchive(x)
      PROVE  DataType' /\ StoredInv' /\ OutputKept' /\ OutputInOrder'
  <2>0. /\ x \in Seq(Pieces) /\ archives' = Append(archives, x) /\ active' \in Seq(Pieces)
        /\ DOMAIN x \subseteq DOMAIN active /\ \A i \in DOMAIN x : x[i] = active[i]
        /\ active' = active \/ (x = active /\ active' = <<>>)
        /\ ~copyAndTruncate => active' = <<>>
    BY <1>2 DEF NewArchive
  <2> DEFINE L == Len(archives)
             F == Stored
             G == Stored'
  <2>1. /\ L \in Nat /\ DOMAIN F = 1..(L + 1) /\ F[L + 1] = active /\ \A f \in 1..L : F[f] = archives[f]
    BY <1>t, AppendIs DEF Stored
  <2>2. /\ archives' \in Seq(Seq(Pieces)) /\ Len(archives') = L + 1 /\ archives'[L + 1] = x
        /\ \A f \in 1..L : archives'[f] = archives[f]
    BY <1>t, <2>0, AppendIs
  <2>3. /\ DOMAIN G = 1..(L + 1 + 1) /\ G[L + 1 + 1] = active' /\ \A f \in 1..(L + 1) : G[f] = archives'[f]
    <3>1. /\ DOMAIN G = 1..(Len(archives') + 1) /\ G[Len(archives') + 1] = active'
          /\ \A f \in 1..Len(archives') : G[f] = archives'[f]
      BY <2>0, <2>2, AppendIs DEF Stored
    <3> QED
      BY <2>2, <3>1
  <2>4. DataType'
    BY <1>u, <2>0, <2>2 DEF DataType
  <2>5. L + 1 + 1 = L + 2
    BY <2>1
  <2>6. /\ DOMAIN G = 1..(L + 2) /\ G[L + 2] = active' /\ G[L + 1] = x
        /\ \A f \in 1..L : G[f] = F[f]
    BY <2>1, <2>2, <2>3, <2>5
  <2> HIDE DEF L, F, G
  <2>7. Archived(F, G, L)
    <3>1. G[L + 2] = F[L + 1] \/ (G[L + 1] = F[L + 1] /\ DOMAIN G[L + 2] = {})
      BY <2>0, <2>1, <2>6
    <3> QED
      BY <2>0, <2>1, <2>6, <3>1 DEF Archived
  <2>8. /\ Accepted(F, acked) => Accepted(G, acked)
        /\ Keeps(F, acked) => Keeps(G, acked)
        /\ DOMAIN G[L + 2] = {} /\ Ordered(F) => Ordered(G)
    BY <2>1, <2>7, ArchiveKeeps
  <2>9. ~copyAndTruncate => DOMAIN G[L + 2] = {}
    BY <2>0, <2>6
  <2>10. Accepted(G, acked') /\ Keeps(G, acked') /\ (~copyAndTruncate => Ordered(G))
    BY <1>o, <1>u, <2>8, <2>9 DEF F
  <2>11. StoredInv' /\ OutputKept' /\ OutputInOrder'
    BY <2>10 DEF StoredInv, OutputKept, OutputInOrder, Accepted, Keeps, Ordered, G
  <2> QED
    BY <2>4, <2>11
<1>3. ASSUME NEW n \in 0..Len(active), copyAndTruncate, UNCHANGED active,
             archives' = Append(archives, SubSeq(active, 1, n))
      PROVE  DataType' /\ StoredInv' /\ OutputKept' /\ OutputInOrder'
  <2> DEFINE x == SubSeq(active, 1, n)
  <2>1. n \in Nat /\ n <= Len(active) /\ \A i \in 1..n : active[i] \in Pieces
    BY <1>t, ElementOfSeq
  <2>2. /\ x \in Seq(Pieces) /\ Len(x) = IF 1 <= n THEN n - 1 + 1 ELSE 0
        /\ \A i \in 1..(n - 1 + 1) : x[i] = active[1 + i - 1]
    BY <2>1, SubSeqProperties
  <2>3. n - 1 + 1 = n /\ (\A i \in 1..n : 1 + i - 1 = i) /\ (~(1 <= n) => n = 0)
    BY <2>1
  <2> HIDE DEF x
  <2>4. Len(x) = n
    BY <2>2, <2>3
  <2>5. DOMAIN x = 1..n /\ \A i \in 1..n : x[i] = active[i]
    BY <2>2, <2>3, <2>4
  <2>6. DOMAIN x \subseteq DOMAIN active
    BY <1>t, <2>1, <2>5
  <2>7. NewArchive(x)
    BY <1>3, <1>t, <2>2, <2>5, <2>6 DEF NewArchive, x
  <2> QED
    BY <1>2, <2>7
<1>4. CASE archives' = Append(archives, active) /\ ((UNCHANGED active /\ copyAndTruncate) \/ active' = <<>>)
  <2>1. active' \in Seq(Pieces)
    BY <1>4, <1>t, EmptySeq
  <2>2. NewArchive(active)
    BY <1>4, <1>t, <2>1 DEF NewArchive
  <2> QED
    BY <1>u, <1>2, <2>2
<1>5. \/ UNCHANGED <<active, archives>>
      \/ copyAndTruncate /\ UNCHANGED active
         /\ \E n \in 0..Len(active) : archives' = Append(archives, SubSeq(active, 1, n))
      \/ archives' = Append(archives, active) /\ ((UNCHANGED active /\ copyAndTruncate) \/ active' = <<>>)
  BY DEF WorkerArchive
<1> QED
  BY <1>u, <1>1, <1>3, <1>4, <1>5

LEMMA TruncateStep ==
    ASSUME DataType, StoredInv, OutputKept, OutputInOrder, CopyInv, UNCHANGED copyAndTruncate, WorkerTruncate
    PROVE  /\ UNCHANGED <<produced, pipe, pending, acked>>
           /\ DataType' /\ StoredInv' /\ OutputKept' /\ OutputInOrder'
<1>u. UNCHANGED <<produced, pipe, pending, acked, archives>>
  BY DEF WorkerTruncate, child, reader
<1>t. active \in Seq(Pieces) /\ archives \in Seq(Seq(Pieces))
  BY DEF DataType
<1>o. Accepted(Stored, acked) /\ Keeps(Stored, acked) /\ (~copyAndTruncate => Ordered(Stored))
  BY StoredAs
<1>1. CASE UNCHANGED active
  <2>1. DataType'
    BY <1>u, <1>1 DEF DataType
  <2> QED
    BY <1>u, <1>1, <2>1, StoredStays
<1>2. CASE active' = <<>>
  <2> DEFINE L == Len(archives)
             F == Stored
             G == Stored'
  <2>0. active' \in Seq(Pieces)
    BY <1>2, EmptySeq
  <2>1. L \in Nat /\ DOMAIN F = 1..(L + 1) /\ F[L + 1] = active /\ \A f \in 1..L : F[f] = archives[f]
    BY <1>t, AppendIs DEF Stored
  <2>2. DOMAIN G = 1..(L + 1) /\ G[L + 1] = <<>> /\ \A f \in 1..L : G[f] = archives[f]
    BY <1>t, <1>u, <1>2, <2>0, AppendIs DEF Stored
  <2>3. archives # <<>> /\ archives[L] = active
    BY DEF WorkerTruncate, CopyInv
  <2>4. L # 0
    BY <1>t, <2>3, EmptySeq
  <2>5. DataType'
    BY <1>u, <2>0 DEF DataType
  <2> HIDE DEF L, F, G
  <2>6. Emptied(F, G, L)
    BY <2>1, <2>2, <2>3, <2>4 DEF Emptied
  <2>7. /\ Accepted(F, acked) => Accepted(G, acked)
        /\ Keeps(F, acked) => Keeps(G, acked)
        /\ Ordered(F) => Ordered(G)
    BY <2>1, <2>4, <2>6, EmptyKeeps
  <2>8. Accepted(G, acked') /\ Keeps(G, acked') /\ (~copyAndTruncate => Ordered(G))
    BY <1>o, <1>u, <2>7 DEF F
  <2>9. StoredInv' /\ OutputKept' /\ OutputInOrder'
    BY <2>8 DEF StoredInv, OutputKept, OutputInOrder, Accepted, Keeps, Ordered, G
  <2> QED
    BY <1>u, <2>5, <2>9
<1>3. UNCHANGED active \/ active' = <<>>
  BY DEF WorkerTruncate
<1> QED
  BY <1>u, <1>1, <1>2, <1>3

-----------------------------------------------------------------------------
(* Types                                                                   *)

\* The flags stay flags.
LEMMA FlagStep ==
    ASSUME IInv, Next
    PROVE  FlagType'
<1>t. FlagType
  BY DEF IInv
<1>c. UNCHANGED copyAndTruncate
  BY DEF Next
<1>1. ASSUME NEW s \in Streams, ChildWrite(s) PROVE FlagType'
  BY <1>1, <1>t, <1>c DEF ChildWrite, child, reader, sink, worker, super, FlagType
<1>2. ASSUME NEW s \in Streams, ReadPipe(s) PROVE FlagType'
  BY <1>2, <1>t, <1>c DEF ReadPipe, Looping, child, reader, sink, worker, super, FlagType
<1>3. ASSUME NEW s \in Streams, WriteSome(s) PROVE FlagType'
  BY <1>3, <1>t, <1>c DEF WriteSome, Looping, child, reader, sink, worker, super, FlagType
<1>4. ASSUME NEW s \in Streams, WriteFails(s) PROVE FlagType'
  BY <1>4, <1>t, <1>c DEF WriteFails, Looping, child, reader, sink, worker, super, FlagType
<1>5. ASSUME NEW s \in Streams, CheckDue(s) PROVE FlagType'
  BY <1>5, <1>t, <1>c DEF CheckDue, child, reader, sink, worker, super, FlagType
<1>6. ASSUME NEW s \in Streams, QueueRotation(s) PROVE FlagType'
  BY <1>6, <1>t, <1>c DEF QueueRotation, child, reader, sink, worker, super, FlagType
<1>7. ASSUME NEW s \in Streams, SendAutoRotate(s) PROVE FlagType'
  BY <1>7, <1>t, <1>c DEF SendAutoRotate, child, reader, sink, worker, super, FlagType
<1>8. ASSUME NEW s \in Streams, ReaderDone(s) PROVE FlagType'
  BY <1>8, <1>t, <1>c DEF ReaderDone, Looping, child, reader, sink, worker, super, FlagType
<1>9. ASSUME NEW s \in Streams, ReaderFails(s) PROVE FlagType'
  BY <1>9, <1>t, <1>c DEF ReaderFails, Looping, child, reader, sink, worker, super, FlagType
<1>10. CASE ChildExit
  BY <1>10, <1>t, <1>c DEF ChildExit, child, reader, sink, worker, super, FlagType
<1>11. CASE ForceRotate
  BY <1>11, <1>t, <1>c DEF ForceRotate, child, reader, sink, worker, super, FlagType
<1>12. CASE RequestStop
  BY <1>12, <1>t, <1>c DEF RequestStop, child, reader, sink, worker, super, FlagType
<1>13. CASE WorkerLock
  BY <1>13, <1>t, <1>c DEF WorkerLock, child, reader, sink, worker, super, FlagType
<1>14. CASE WorkerSync
  BY <1>14, <1>t, <1>c DEF WorkerSync, Return, child, reader, sink, worker, super, FlagType
<1>15. CASE WorkerArchive
  BY <1>15, <1>t, <1>c DEF WorkerArchive, ArchiveFails, child, reader, sink, worker, super, FlagType
<1>16. CASE WorkerTruncate
  BY <1>16, <1>t, <1>c DEF WorkerTruncate, ArchiveFails, child, reader, sink, worker, super,
    FlagType
<1>17. CASE WorkerReopen
  BY <1>17, <1>t, <1>c DEF WorkerReopen, Return, child, reader, sink, worker, super, FlagType
<1>18. CASE HandleMessage
  BY <1>18, <1>t, <1>c DEF HandleMessage, child, reader, sink, worker, super, FlagType
<1>19. CASE Depart
  BY <1>19, <1>t, <1>c DEF Depart, child, reader, sink, worker, super, FlagType
<1>20. CASE Decide
  BY <1>20, <1>t, <1>c DEF Decide, NotDue, RotateSinksFails, child, reader, sink, worker, super,
    FlagType
<1>21. CASE SpawnWorker
  BY <1>21, <1>t, <1>c DEF SpawnWorker, child, reader, sink, worker, super, FlagType
<1>22. CASE CancelWorker
  BY <1>22, <1>t, <1>c DEF CancelWorker, child, reader, sink, worker, super, FlagType
<1>23. CASE WorkerAnswered
  BY <1>23, <1>t, <1>c DEF WorkerAnswered, child, reader, sink, worker, super, FlagType
<1>24. CASE WorkerLost
  BY <1>24, <1>t, <1>c DEF WorkerLost, RotateSinksFails, child, reader, sink, worker, super,
    FlagType
<1>25. CASE Terminate
  BY <1>25, <1>t, <1>c DEF Terminate, child, reader, sink, worker, super, FlagType
<1>26. CASE FinishReaders
  BY <1>26, <1>t, <1>c DEF FinishReaders, child, reader, sink, worker, super, FlagType
<1>27. CASE Close
  BY <1>27, <1>t, <1>c DEF Close, child, reader, sink, worker, super, FlagType
<1> QED
  BY <1>1, <1>2, <1>3, <1>4, <1>5, <1>6, <1>7, <1>8, <1>9, <1>10, <1>11, <1>12, <1>13, <1>14, <1>15,
    <1>16, <1>17, <1>18, <1>19, <1>20, <1>21, <1>22, <1>23, <1>24, <1>25, <1>26, <1>27
  DEF Next, Reader, Worker, Supervise

\* Places, results and messages.
LEMMA PlaceStep ==
    ASSUME IInv, Next
    PROVE  PlaceType'
<1>t. PlaceType /\ None = "None"
  BY DEF IInv, None
<1>1. ASSUME NEW s \in Streams, ChildWrite(s) PROVE PlaceType'
  BY <1>1, <1>t DEF ChildWrite, child, reader, sink, worker, super, PlaceType, Messages
<1>2. ASSUME NEW s \in Streams, ReadPipe(s) PROVE PlaceType'
  BY <1>2, <1>t DEF ReadPipe, Looping, child, reader, sink, worker, super, PlaceType, Messages
<1>3. ASSUME NEW s \in Streams, WriteSome(s) PROVE PlaceType'
  BY <1>3, <1>t DEF WriteSome, Looping, child, reader, sink, worker, super, PlaceType, Messages
<1>4. ASSUME NEW s \in Streams, WriteFails(s) PROVE PlaceType'
  BY <1>4, <1>t DEF WriteFails, Looping, child, reader, sink, worker, super, PlaceType, Messages
<1>5. ASSUME NEW s \in Streams, CheckDue(s) PROVE PlaceType'
  BY <1>5, <1>t DEF CheckDue, child, reader, sink, worker, super, PlaceType, Messages
<1>6. ASSUME NEW s \in Streams, QueueRotation(s) PROVE PlaceType'
  BY <1>6, <1>t DEF QueueRotation, child, reader, sink, worker, super, PlaceType, Messages
<1>7. ASSUME NEW s \in Streams, SendAutoRotate(s) PROVE PlaceType'
  BY <1>7, <1>t DEF SendAutoRotate, child, reader, sink, worker, super, PlaceType, Messages
<1>8. ASSUME NEW s \in Streams, ReaderDone(s) PROVE PlaceType'
  BY <1>8, <1>t DEF ReaderDone, Looping, child, reader, sink, worker, super, PlaceType, Messages
<1>9. ASSUME NEW s \in Streams, ReaderFails(s) PROVE PlaceType'
  BY <1>9, <1>t DEF ReaderFails, Looping, child, reader, sink, worker, super, PlaceType, Messages
<1>10. CASE ChildExit
  BY <1>10, <1>t DEF ChildExit, child, reader, sink, worker, super, PlaceType, Messages
<1>11. CASE ForceRotate
  BY <1>11, <1>t, SinkAssumption DEF ForceRotate, child, reader, sink, worker, super, PlaceType, Messages
<1>12. CASE RequestStop
  BY <1>12, <1>t DEF RequestStop, child, reader, sink, worker, super, PlaceType, Messages
<1>13. CASE WorkerLock
  BY <1>13, <1>t DEF WorkerLock, child, reader, sink, worker, super, PlaceType, Messages
<1>14. CASE WorkerSync
  BY <1>14, <1>t DEF WorkerSync, Return, child, reader, sink, worker, super, PlaceType, Messages
<1>15. CASE WorkerArchive
  BY <1>15, <1>t DEF WorkerArchive, ArchiveFails, child, reader, sink, worker, super, PlaceType,
    Messages
<1>16. CASE WorkerTruncate
  BY <1>16, <1>t DEF WorkerTruncate, ArchiveFails, child, reader, sink, worker, super, PlaceType,
    Messages
<1>17. CASE WorkerReopen
  BY <1>17, <1>t DEF WorkerReopen, Return, child, reader, sink, worker, super, PlaceType, Messages
<1>18. CASE HandleMessage
  BY <1>18, <1>t DEF HandleMessage, child, reader, sink, worker, super, PlaceType, Messages
<1>19. CASE Depart
  BY <1>19, <1>t DEF Depart, child, reader, sink, worker, super, PlaceType, Messages
<1>20. CASE Decide
  BY <1>20, <1>t DEF Decide, NotDue, RotateSinksFails, child, reader, sink, worker, super,
    PlaceType, Messages
<1>21. CASE SpawnWorker
  BY <1>21, <1>t DEF SpawnWorker, child, reader, sink, worker, super, PlaceType, Messages
<1>22. CASE CancelWorker
  BY <1>22, <1>t DEF CancelWorker, child, reader, sink, worker, super, PlaceType, Messages
<1>23. CASE WorkerAnswered
  BY <1>23, <1>t DEF WorkerAnswered, child, reader, sink, worker, super, PlaceType, Messages
<1>24. CASE WorkerLost
  BY <1>24, <1>t DEF WorkerLost, RotateSinksFails, child, reader, sink, worker, super, PlaceType,
    Messages
<1>25. CASE Terminate
  BY <1>25, <1>t DEF Terminate, child, reader, sink, worker, super, PlaceType, Messages
<1>26. CASE FinishReaders
  BY <1>26, <1>t DEF FinishReaders, child, reader, sink, worker, super, PlaceType, Messages
<1>27. CASE Close
  BY <1>27, <1>t DEF Close, child, reader, sink, worker, super, PlaceType, Messages
<1> QED
  BY <1>1, <1>2, <1>3, <1>4, <1>5, <1>6, <1>7, <1>8, <1>9, <1>10, <1>11, <1>12, <1>13, <1>14, <1>15,
    <1>16, <1>17, <1>18, <1>19, <1>20, <1>21, <1>22, <1>23, <1>24, <1>25, <1>26, <1>27
  DEF Next, Reader, Worker, Supervise

\* The byte count is a number.
LEMMA CountStep ==
    ASSUME IInv, Next
    PROVE  CountType'
<1>t. CountType /\ DataType /\ PlaceType
  BY DEF IInv
<1>1. ASSUME NEW s \in Streams, ChildWrite(s) PROVE CountType'
  BY <1>1, <1>t DEF ChildWrite, child, reader, sink, worker, super, CountType
<1>2. ASSUME NEW s \in Streams, ReadPipe(s) PROVE CountType'
  BY <1>2, <1>t DEF ReadPipe, Looping, child, reader, sink, worker, super, CountType
<1>3. ASSUME NEW s \in Streams, WriteSome(s) PROVE CountType'
  BY <1>3, <1>t DEF WriteSome, Looping, child, reader, sink, worker, super, CountType
<1>4. ASSUME NEW s \in Streams, WriteFails(s) PROVE CountType'
  BY <1>4, <1>t DEF WriteFails, Looping, child, reader, sink, worker, super, CountType
<1>5. ASSUME NEW s \in Streams, CheckDue(s) PROVE CountType'
  BY <1>5, <1>t DEF CheckDue, child, reader, sink, worker, super, CountType
<1>6. ASSUME NEW s \in Streams, QueueRotation(s) PROVE CountType'
  BY <1>6, <1>t DEF QueueRotation, child, reader, sink, worker, super, CountType
<1>7. ASSUME NEW s \in Streams, SendAutoRotate(s) PROVE CountType'
  BY <1>7, <1>t DEF SendAutoRotate, child, reader, sink, worker, super, CountType
<1>8. ASSUME NEW s \in Streams, ReaderDone(s) PROVE CountType'
  BY <1>8, <1>t DEF ReaderDone, Looping, child, reader, sink, worker, super, CountType
<1>9. ASSUME NEW s \in Streams, ReaderFails(s) PROVE CountType'
  BY <1>9, <1>t DEF ReaderFails, Looping, child, reader, sink, worker, super, CountType
<1>10. CASE ChildExit
  BY <1>10, <1>t DEF ChildExit, child, reader, sink, worker, super, CountType
<1>11. CASE ForceRotate
  BY <1>11, <1>t DEF ForceRotate, child, reader, sink, worker, super, CountType
<1>12. CASE RequestStop
  BY <1>12, <1>t DEF RequestStop, child, reader, sink, worker, super, CountType
<1>13. CASE WorkerLock
  BY <1>13, <1>t DEF WorkerLock, child, reader, sink, worker, super, CountType
<1>14. CASE WorkerSync
  BY <1>14, <1>t DEF WorkerSync, Return, child, reader, sink, worker, super, CountType
<1>15. CASE WorkerArchive
  BY <1>15, <1>t DEF WorkerArchive, ArchiveFails, child, reader, sink, worker, super, CountType
<1>16. CASE WorkerTruncate
  BY <1>16, <1>t DEF WorkerTruncate, ArchiveFails, child, reader, sink, worker, super, CountType
<1>17. CASE WorkerReopen
  BY <1>17, <1>t, DataFacts DEF WorkerReopen, Return, CountAfterReopen, sink, CountType
<1>18. CASE HandleMessage
  BY <1>18, <1>t DEF HandleMessage, child, reader, sink, worker, super, CountType
<1>19. CASE Depart
  BY <1>19, <1>t DEF Depart, child, reader, sink, worker, super, CountType
<1>20. CASE Decide
  BY <1>20, <1>t DEF Decide, NotDue, RotateSinksFails, child, reader, sink, worker, super, CountType
<1>21. CASE SpawnWorker
  BY <1>21, <1>t DEF SpawnWorker, child, reader, sink, worker, super, CountType
<1>22. CASE CancelWorker
  BY <1>22, <1>t DEF CancelWorker, child, reader, sink, worker, super, CountType
<1>23. CASE WorkerAnswered
  BY <1>23, <1>t DEF WorkerAnswered, child, reader, sink, worker, super, CountType
<1>24. CASE WorkerLost
  BY <1>24, <1>t DEF WorkerLost, RotateSinksFails, child, reader, sink, worker, super, CountType
<1>25. CASE Terminate
  BY <1>25, <1>t DEF Terminate, child, reader, sink, worker, super, CountType
<1>26. CASE FinishReaders
  BY <1>26, <1>t DEF FinishReaders, child, reader, sink, worker, super, CountType
<1>27. CASE Close
  BY <1>27, <1>t DEF Close, child, reader, sink, worker, super, CountType
<1> QED
  BY <1>1, <1>2, <1>3, <1>4, <1>5, <1>6, <1>7, <1>8, <1>9, <1>10, <1>11, <1>12, <1>13, <1>14, <1>15,
    <1>16, <1>17, <1>18, <1>19, <1>20, <1>21, <1>22, <1>23, <1>24, <1>25, <1>26, <1>27
  DEF Next, Reader, Worker, Supervise

\* The lock and the one worker.
LEMMA LockStep ==
    ASSUME IInv, Next
    PROVE  LockInv'
<1>t. LockInv /\ PlaceType /\ None = "None"
  BY DEF IInv, None
<1>1. ASSUME NEW s \in Streams, ChildWrite(s) PROVE LockInv'
  BY <1>1, <1>t DEF ChildWrite, child, reader, sink, worker, super, LockInv, PlaceType
<1>2. ASSUME NEW s \in Streams, ReadPipe(s) PROVE LockInv'
  BY <1>2, <1>t DEF ReadPipe, Looping, child, reader, sink, worker, super, LockInv, PlaceType
<1>3. ASSUME NEW s \in Streams, WriteSome(s) PROVE LockInv'
  BY <1>3, <1>t DEF WriteSome, Looping, child, reader, sink, worker, super, LockInv, PlaceType
<1>4. ASSUME NEW s \in Streams, WriteFails(s) PROVE LockInv'
  BY <1>4, <1>t DEF WriteFails, Looping, child, reader, sink, worker, super, LockInv, PlaceType
<1>5. ASSUME NEW s \in Streams, CheckDue(s) PROVE LockInv'
  BY <1>5, <1>t DEF CheckDue, child, reader, sink, worker, super, LockInv, PlaceType
<1>6. ASSUME NEW s \in Streams, QueueRotation(s) PROVE LockInv'
  BY <1>6, <1>t DEF QueueRotation, child, reader, sink, worker, super, LockInv, PlaceType
<1>7. ASSUME NEW s \in Streams, SendAutoRotate(s) PROVE LockInv'
  BY <1>7, <1>t DEF SendAutoRotate, child, reader, sink, worker, super, LockInv, PlaceType
<1>8. ASSUME NEW s \in Streams, ReaderDone(s) PROVE LockInv'
  BY <1>8, <1>t DEF ReaderDone, Looping, child, reader, sink, worker, super, LockInv, PlaceType
<1>9. ASSUME NEW s \in Streams, ReaderFails(s) PROVE LockInv'
  BY <1>9, <1>t DEF ReaderFails, Looping, child, reader, sink, worker, super, LockInv, PlaceType
<1>10. CASE ChildExit
  BY <1>10, <1>t DEF ChildExit, child, reader, sink, worker, super, LockInv, PlaceType
<1>11. CASE ForceRotate
  BY <1>11, <1>t DEF ForceRotate, child, reader, sink, worker, super, LockInv, PlaceType
<1>12. CASE RequestStop
  BY <1>12, <1>t DEF RequestStop, child, reader, sink, worker, super, LockInv, PlaceType
<1>13. CASE WorkerLock
  BY <1>13, <1>t DEF WorkerLock, child, reader, sink, worker, super, LockInv, PlaceType
<1>14. CASE WorkerSync
  BY <1>14, <1>t DEF WorkerSync, Return, child, reader, sink, worker, super, LockInv, PlaceType
<1>15. CASE WorkerArchive
  BY <1>15, <1>t DEF WorkerArchive, ArchiveFails, child, reader, sink, worker, super, LockInv,
    PlaceType
<1>16. CASE WorkerTruncate
  BY <1>16, <1>t DEF WorkerTruncate, ArchiveFails, child, reader, sink, worker, super, LockInv,
    PlaceType
<1>17. CASE WorkerReopen
  BY <1>17, <1>t DEF WorkerReopen, Return, child, reader, sink, worker, super, LockInv, PlaceType
<1>18. CASE HandleMessage
  BY <1>18, <1>t DEF HandleMessage, child, reader, sink, worker, super, LockInv, PlaceType
<1>19. CASE Depart
  BY <1>19, <1>t DEF Depart, child, reader, sink, worker, super, LockInv, PlaceType
<1>20. CASE Decide
  BY <1>20, <1>t DEF Decide, NotDue, RotateSinksFails, child, reader, sink, worker, super, LockInv,
    PlaceType
<1>21. CASE SpawnWorker
  BY <1>21, <1>t DEF SpawnWorker, child, reader, sink, worker, super, LockInv, PlaceType
<1>22. CASE CancelWorker
  BY <1>22, <1>t DEF CancelWorker, child, reader, sink, worker, super, LockInv, PlaceType
<1>23. CASE WorkerAnswered
  BY <1>23, <1>t DEF WorkerAnswered, child, reader, sink, worker, super, LockInv, PlaceType
<1>24. CASE WorkerLost
  BY <1>24, <1>t DEF WorkerLost, RotateSinksFails, child, reader, sink, worker, super, LockInv,
    PlaceType
<1>25. CASE Terminate
  BY <1>25, <1>t DEF Terminate, child, reader, sink, worker, super, LockInv, PlaceType
<1>26. CASE FinishReaders
  BY <1>26, <1>t DEF FinishReaders, child, reader, sink, worker, super, LockInv, PlaceType
<1>27. CASE Close
  BY <1>27, <1>t DEF Close, child, reader, sink, worker, super, LockInv, PlaceType
<1> QED
  BY <1>1, <1>2, <1>3, <1>4, <1>5, <1>6, <1>7, <1>8, <1>9, <1>10, <1>11, <1>12, <1>13, <1>14, <1>15,
    <1>16, <1>17, <1>18, <1>19, <1>20, <1>21, <1>22, <1>23, <1>24, <1>25, <1>26, <1>27
  DEF Next, Reader, Worker, Supervise

\* How readers and generations end.
LEMMA EndStep ==
    ASSUME IInv, Next
    PROVE  EndInv'
<1>t. EndInv /\ PlaceType /\ FlagType /\ DataType /\ None = "None"
  BY DEF IInv, None
<1>1. ASSUME NEW s \in Streams, ChildWrite(s) PROVE EndInv'
  BY <1>1, <1>t DEF ChildWrite, child, reader, sink, worker, super, EndInv, PlaceType, FlagType,
    DataType
<1>2. ASSUME NEW s \in Streams, ReadPipe(s) PROVE EndInv'
  <2>u. UNCHANGED <<alive, rres, spc, ret, outcome>> /\ rres[s] = "running" /\ ~eof[s]
    BY <1>2 DEF ReadPipe, Looping, super
  <2>1. CASE pipe[s] # <<>> /\ UNCHANGED eof
    <3>1. \A r \in Streams \ {s} : pipe'[r] = pipe[r] /\ pending'[r] = pending[r]
      BY <1>2, <1>t, <2>1 DEF ReadPipe, DataType
    <3> QED
      BY <1>t, <2>u, <2>1, <3>1 DEF EndInv
  <2>2. CASE pipe[s] = <<>> /\ ~alive /\ eof' = [eof EXCEPT ![s] = TRUE] /\ UNCHANGED <<pending, pipe>>
    <3>1. eof'[s] /\ \A r \in Streams \ {s} : eof'[r] = eof[r]
      BY <1>t, <2>2 DEF FlagType
    <3> QED
      BY <1>t, <2>u, <2>2, <3>1 DEF EndInv
  <2> QED
    BY <1>2, <2>1, <2>2 DEF ReadPipe
<1>3. ASSUME NEW s \in Streams, WriteSome(s) PROVE EndInv'
  BY <1>3, <1>t DEF WriteSome, Looping, child, reader, sink, worker, super, EndInv, PlaceType,
    FlagType, DataType
<1>4. ASSUME NEW s \in Streams, WriteFails(s) PROVE EndInv'
  BY <1>4, <1>t DEF WriteFails, Looping, child, reader, sink, worker, super, EndInv, PlaceType,
    FlagType, DataType
<1>5. ASSUME NEW s \in Streams, CheckDue(s) PROVE EndInv'
  BY <1>5, <1>t DEF CheckDue, child, reader, sink, worker, super, EndInv, PlaceType, FlagType,
    DataType
<1>6. ASSUME NEW s \in Streams, QueueRotation(s) PROVE EndInv'
  BY <1>6, <1>t DEF QueueRotation, child, reader, sink, worker, super, EndInv, PlaceType, FlagType,
    DataType
<1>7. ASSUME NEW s \in Streams, SendAutoRotate(s) PROVE EndInv'
  BY <1>7, <1>t DEF SendAutoRotate, child, reader, sink, worker, super, EndInv, PlaceType, FlagType,
    DataType
<1>8. ASSUME NEW s \in Streams, ReaderDone(s) PROVE EndInv'
  BY <1>8, <1>t DEF ReaderDone, Looping, child, reader, sink, worker, super, EndInv, PlaceType,
    FlagType, DataType
<1>9. ASSUME NEW s \in Streams, ReaderFails(s) PROVE EndInv'
  BY <1>9, <1>t DEF ReaderFails, Looping, child, reader, sink, worker, super, EndInv, PlaceType,
    FlagType, DataType
<1>10. CASE ChildExit
  BY <1>10, <1>t DEF ChildExit, child, reader, sink, worker, super, EndInv, PlaceType, FlagType,
    DataType
<1>11. CASE ForceRotate
  BY <1>11, <1>t DEF ForceRotate, child, reader, sink, worker, super, EndInv, PlaceType, FlagType,
    DataType
<1>12. CASE RequestStop
  BY <1>12, <1>t DEF RequestStop, child, reader, sink, worker, super, EndInv, PlaceType, FlagType,
    DataType
<1>13. CASE WorkerLock
  BY <1>13, <1>t DEF WorkerLock, child, reader, sink, worker, super, EndInv, PlaceType, FlagType,
    DataType
<1>14. CASE WorkerSync
  BY <1>14, <1>t DEF WorkerSync, Return, child, reader, sink, worker, super, EndInv, PlaceType,
    FlagType, DataType
<1>15. CASE WorkerArchive
  BY <1>15, <1>t DEF WorkerArchive, ArchiveFails, child, reader, sink, worker, super, EndInv,
    PlaceType, FlagType, DataType
<1>16. CASE WorkerTruncate
  BY <1>16, <1>t DEF WorkerTruncate, ArchiveFails, child, reader, sink, worker, super, EndInv,
    PlaceType, FlagType, DataType
<1>17. CASE WorkerReopen
  BY <1>17, <1>t DEF WorkerReopen, Return, child, reader, sink, worker, super, EndInv, PlaceType,
    FlagType, DataType
<1>18. CASE HandleMessage
  BY <1>18, <1>t DEF HandleMessage, child, reader, sink, worker, super, EndInv, PlaceType, FlagType,
    DataType
<1>19. CASE Depart
  BY <1>19, <1>t DEF Depart, child, reader, sink, worker, super, EndInv, PlaceType, FlagType,
    DataType
<1>20. CASE Decide
  BY <1>20, <1>t DEF Decide, NotDue, RotateSinksFails, child, reader, sink, worker, super, EndInv,
    PlaceType, FlagType, DataType
<1>21. CASE SpawnWorker
  BY <1>21, <1>t DEF SpawnWorker, child, reader, sink, worker, super, EndInv, PlaceType, FlagType,
    DataType
<1>22. CASE CancelWorker
  BY <1>22, <1>t DEF CancelWorker, child, reader, sink, worker, super, EndInv, PlaceType, FlagType,
    DataType
<1>23. CASE WorkerAnswered
  BY <1>23, <1>t DEF WorkerAnswered, child, reader, sink, worker, super, EndInv, PlaceType,
    FlagType, DataType
<1>24. CASE WorkerLost
  BY <1>24, <1>t DEF WorkerLost, RotateSinksFails, child, reader, sink, worker, super, EndInv,
    PlaceType, FlagType, DataType
<1>25. CASE Terminate
  BY <1>25, <1>t DEF Terminate, child, reader, sink, worker, super, EndInv, PlaceType, FlagType,
    DataType
<1>26. CASE FinishReaders
  BY <1>26, <1>t DEF FinishReaders, child, reader, sink, worker, super, EndInv, PlaceType, FlagType,
    DataType
<1>27. CASE Close
  BY <1>27, <1>t DEF Close, child, reader, sink, worker, super, EndInv, PlaceType, FlagType,
    DataType
<1> QED
  BY <1>1, <1>2, <1>3, <1>4, <1>5, <1>6, <1>7, <1>8, <1>9, <1>10, <1>11, <1>12, <1>13, <1>14, <1>15,
    <1>16, <1>17, <1>18, <1>19, <1>20, <1>21, <1>22, <1>23, <1>24, <1>25, <1>26, <1>27
  DEF Next, Reader, Worker, Supervise

\* Whoever sets rotation_queued sends a message, and whoever takes the message resets it.
LEMMA QueuedStep ==
    ASSUME IInv, Next
    PROVE  RotationNotForgotten'
<1>t. RotationNotForgotten /\ PlaceType /\ None = "None"
  BY DEF IInv, None
<1>1. ASSUME NEW s \in Streams, ChildWrite(s) PROVE RotationNotForgotten'
  BY <1>1, <1>t DEF ChildWrite, child, reader, sink, worker, super, RotationNotForgotten, PlaceType
<1>2. ASSUME NEW s \in Streams, ReadPipe(s) PROVE RotationNotForgotten'
  BY <1>2, <1>t DEF ReadPipe, Looping, child, reader, sink, worker, super, RotationNotForgotten,
    PlaceType
<1>3. ASSUME NEW s \in Streams, WriteSome(s) PROVE RotationNotForgotten'
  BY <1>3, <1>t DEF WriteSome, Looping, child, reader, sink, worker, super, RotationNotForgotten,
    PlaceType
<1>4. ASSUME NEW s \in Streams, WriteFails(s) PROVE RotationNotForgotten'
  BY <1>4, <1>t DEF WriteFails, Looping, child, reader, sink, worker, super, RotationNotForgotten,
    PlaceType
<1>5. ASSUME NEW s \in Streams, CheckDue(s) PROVE RotationNotForgotten'
  BY <1>5, <1>t DEF CheckDue, child, reader, sink, worker, super, RotationNotForgotten, PlaceType
<1>6. ASSUME NEW s \in Streams, QueueRotation(s) PROVE RotationNotForgotten'
  BY <1>6, <1>t DEF QueueRotation, child, reader, sink, worker, super, RotationNotForgotten,
    PlaceType
<1>7. ASSUME NEW s \in Streams, SendAutoRotate(s) PROVE RotationNotForgotten'
  BY <1>7, <1>t DEF SendAutoRotate, child, reader, sink, worker, super, RotationNotForgotten,
    PlaceType
<1>8. ASSUME NEW s \in Streams, ReaderDone(s) PROVE RotationNotForgotten'
  BY <1>8, <1>t DEF ReaderDone, Looping, child, reader, sink, worker, super, RotationNotForgotten,
    PlaceType
<1>9. ASSUME NEW s \in Streams, ReaderFails(s) PROVE RotationNotForgotten'
  BY <1>9, <1>t DEF ReaderFails, Looping, child, reader, sink, worker, super, RotationNotForgotten,
    PlaceType
<1>10. CASE ChildExit
  BY <1>10, <1>t DEF ChildExit, child, reader, sink, worker, super, RotationNotForgotten, PlaceType
<1>11. CASE ForceRotate
  BY <1>11, <1>t DEF ForceRotate, child, reader, sink, worker, super, RotationNotForgotten,
    PlaceType
<1>12. CASE RequestStop
  BY <1>12, <1>t DEF RequestStop, child, reader, sink, worker, super, RotationNotForgotten,
    PlaceType
<1>13. CASE WorkerLock
  BY <1>13, <1>t DEF WorkerLock, child, reader, sink, worker, super, RotationNotForgotten, PlaceType
<1>14. CASE WorkerSync
  BY <1>14, <1>t DEF WorkerSync, Return, child, reader, sink, worker, super, RotationNotForgotten,
    PlaceType
<1>15. CASE WorkerArchive
  BY <1>15, <1>t DEF WorkerArchive, ArchiveFails, child, reader, sink, worker, super,
    RotationNotForgotten, PlaceType
<1>16. CASE WorkerTruncate
  BY <1>16, <1>t DEF WorkerTruncate, ArchiveFails, child, reader, sink, worker, super,
    RotationNotForgotten, PlaceType
<1>17. CASE WorkerReopen
  BY <1>17, <1>t DEF WorkerReopen, Return, child, reader, sink, worker, super, RotationNotForgotten,
    PlaceType
<1>18. CASE HandleMessage
  BY <1>18, <1>t DEF HandleMessage, child, reader, sink, worker, super, RotationNotForgotten,
    PlaceType
<1>19. CASE Depart
  BY <1>19, <1>t DEF Depart, child, reader, sink, worker, super, RotationNotForgotten, PlaceType
<1>20. CASE Decide
  BY <1>20, <1>t DEF Decide, NotDue, RotateSinksFails, child, reader, sink, worker, super,
    RotationNotForgotten, PlaceType
<1>21. CASE SpawnWorker
  BY <1>21, <1>t DEF SpawnWorker, child, reader, sink, worker, super, RotationNotForgotten,
    PlaceType
<1>22. CASE CancelWorker
  BY <1>22, <1>t DEF CancelWorker, child, reader, sink, worker, super, RotationNotForgotten,
    PlaceType
<1>23. CASE WorkerAnswered
  BY <1>23, <1>t DEF WorkerAnswered, child, reader, sink, worker, super, RotationNotForgotten,
    PlaceType
<1>24. CASE WorkerLost
  BY <1>24, <1>t DEF WorkerLost, RotateSinksFails, child, reader, sink, worker, super,
    RotationNotForgotten, PlaceType
<1>25. CASE Terminate
  BY <1>25, <1>t DEF Terminate, child, reader, sink, worker, super, RotationNotForgotten, PlaceType
<1>26. CASE FinishReaders
  BY <1>26, <1>t DEF FinishReaders, child, reader, sink, worker, super, RotationNotForgotten,
    PlaceType
<1>27. CASE Close
  BY <1>27, <1>t DEF Close, child, reader, sink, worker, super, RotationNotForgotten, PlaceType
<1> QED
  BY <1>1, <1>2, <1>3, <1>4, <1>5, <1>6, <1>7, <1>8, <1>9, <1>10, <1>11, <1>12, <1>13, <1>14, <1>15,
    <1>16, <1>17, <1>18, <1>19, <1>20, <1>21, <1>22, <1>23, <1>24, <1>25, <1>26, <1>27
  DEF Next, Reader, Worker, Supervise

-----------------------------------------------------------------------------
(* Every step                                                              *)

\* The steps that move pieces.
LEMMA DataSteps ==
    ASSUME Next
    PROVE  \/ DataUnchanged
           \/ \E s \in Streams : ChildWrite(s) \/ ReadPipe(s) \/ WriteSome(s)
           \/ WorkerArchive \/ WorkerTruncate
<1>1. ASSUME NEW s \in Streams, WriteFails(s) PROVE DataUnchanged
  BY <1>1 DEF WriteFails, DataUnchanged, child, reader, sink
<1>2. ASSUME NEW s \in Streams, CheckDue(s) PROVE DataUnchanged
  BY <1>2 DEF CheckDue, DataUnchanged, child, reader, sink
<1>3. ASSUME NEW s \in Streams, QueueRotation(s) PROVE DataUnchanged
  BY <1>3 DEF QueueRotation, DataUnchanged, child, reader, sink
<1>4. ASSUME NEW s \in Streams, SendAutoRotate(s) PROVE DataUnchanged
  BY <1>4 DEF SendAutoRotate, DataUnchanged, child, reader, sink
<1>5. ASSUME NEW s \in Streams, ReaderDone(s) PROVE DataUnchanged
  BY <1>5 DEF ReaderDone, DataUnchanged, child, reader, sink
<1>6. ASSUME NEW s \in Streams, ReaderFails(s) PROVE DataUnchanged
  BY <1>6 DEF ReaderFails, DataUnchanged, child, reader, sink
<1>7. CASE ChildExit
  BY <1>7 DEF ChildExit, DataUnchanged, child, reader, sink
<1>8. CASE ForceRotate
  BY <1>8 DEF ForceRotate, DataUnchanged, child, reader, sink
<1>9. CASE RequestStop
  BY <1>9 DEF RequestStop, DataUnchanged, child, reader, sink
<1>10. CASE WorkerLock
  BY <1>10 DEF WorkerLock, DataUnchanged, child, reader, sink
<1>11. CASE WorkerSync
  BY <1>11 DEF WorkerSync, DataUnchanged, child, reader, sink
<1>12. CASE WorkerReopen
  BY <1>12 DEF WorkerReopen, DataUnchanged, child, reader, sink
<1>13. CASE HandleMessage
  BY <1>13 DEF HandleMessage, DataUnchanged, child, reader, sink
<1>14. CASE Depart
  BY <1>14 DEF Depart, DataUnchanged, child, reader, sink
<1>15. CASE Decide
  BY <1>15 DEF Decide, DataUnchanged, child, reader, sink
<1>16. CASE SpawnWorker
  BY <1>16 DEF SpawnWorker, DataUnchanged, child, reader, sink
<1>17. CASE CancelWorker
  BY <1>17 DEF CancelWorker, DataUnchanged, child, reader, sink
<1>18. CASE WorkerAnswered
  BY <1>18 DEF WorkerAnswered, DataUnchanged, child, reader, sink
<1>19. CASE WorkerLost
  BY <1>19 DEF WorkerLost, DataUnchanged, child, reader, sink
<1>20. CASE Terminate
  BY <1>20 DEF Terminate, DataUnchanged, child, reader, sink
<1>21. CASE FinishReaders
  BY <1>21 DEF FinishReaders, DataUnchanged, child, reader, sink
<1>22. CASE Close
  BY <1>22 DEF Close, DataUnchanged, child, reader, sink
<1> QED
  BY <1>1, <1>2, <1>3, <1>4, <1>5, <1>6, <1>7, <1>8, <1>9, <1>10, <1>11, <1>12, <1>13, <1>14, <1>15,
    <1>16, <1>17, <1>18, <1>19, <1>20, <1>21, <1>22 DEF Next, Reader, Worker, Supervise

LEMMA DataStep ==
    ASSUME IInv, Next
    PROVE  DataType' /\ StreamInv' /\ StoredInv' /\ OutputKept' /\ OutputInOrder'
<1>t. DataType /\ StreamInv /\ StoredInv /\ OutputKept /\ OutputInOrder /\ CopyInv
  BY DEF IInv
<1>c. UNCHANGED copyAndTruncate
  BY DEF Next
<1>1. CASE DataUnchanged
  <2>1. DataType' /\ StreamInv'
    BY <1>t, <1>1 DEF DataUnchanged, DataType, StreamInv
  <2> QED
    BY <1>t, <1>c, <1>1, <2>1, StoredStays DEF DataUnchanged
<1>2. ASSUME NEW s \in Streams, ChildWrite(s) \/ ReadPipe(s)
      PROVE  DataType' /\ StreamInv' /\ StoredInv' /\ OutputKept' /\ OutputInOrder'
  <2>1. DataType' /\ StreamInv' /\ UNCHANGED <<acked, active, archives>>
    BY <1>t, <1>2, ChildWriteStep, ReadStep
  <2> QED
    BY <1>t, <1>c, <2>1, StoredStays
<1>3. ASSUME NEW s \in Streams, WriteSome(s)
      PROVE  DataType' /\ StreamInv' /\ StoredInv' /\ OutputKept' /\ OutputInOrder'
  BY <1>t, <1>c, <1>3, WriteStep
<1>4. CASE WorkerArchive \/ WorkerTruncate
  <2>1. /\ UNCHANGED <<produced, pipe, pending, acked>>
        /\ DataType' /\ StoredInv' /\ OutputKept' /\ OutputInOrder'
    BY <1>t, <1>c, <1>4, ArchiveStep, TruncateStep
  <2>2. StreamInv'
    BY <1>t, <2>1 DEF StreamInv
  <2> QED
    BY <2>1, <2>2
<1> QED
  BY <1>1, <1>2, <1>3, <1>4, DataSteps

\* While the copy is complete and the file not yet shortened, nobody writes.
LEMMA CopyStep ==
    ASSUME IInv, Next
    PROVE  CopyInv'
<1>t. CopyInv /\ LockInv /\ PlaceType /\ DataType /\ None = "None"
  BY DEF IInv, None
<1>1. ASSUME NEW s \in Streams, ChildWrite(s) PROVE CopyInv'
  BY <1>1, <1>t DEF ChildWrite, child, reader, sink, worker, super, CopyInv, LockInv
<1>2. ASSUME NEW s \in Streams, ReadPipe(s) PROVE CopyInv'
  BY <1>2, <1>t DEF ReadPipe, Looping, child, reader, sink, worker, super, CopyInv, LockInv
<1>3. ASSUME NEW s \in Streams, WriteSome(s) PROVE CopyInv'
  BY <1>3, <1>t DEF WriteSome, Looping, child, reader, sink, worker, super, CopyInv, LockInv
<1>4. ASSUME NEW s \in Streams, WriteFails(s) PROVE CopyInv'
  BY <1>4, <1>t DEF WriteFails, Looping, child, reader, sink, worker, super, CopyInv, LockInv
<1>5. ASSUME NEW s \in Streams, CheckDue(s) PROVE CopyInv'
  BY <1>5, <1>t DEF CheckDue, child, reader, sink, worker, super, CopyInv, LockInv
<1>6. ASSUME NEW s \in Streams, QueueRotation(s) PROVE CopyInv'
  BY <1>6, <1>t DEF QueueRotation, child, reader, sink, worker, super, CopyInv, LockInv
<1>7. ASSUME NEW s \in Streams, SendAutoRotate(s) PROVE CopyInv'
  BY <1>7, <1>t DEF SendAutoRotate, child, reader, sink, worker, super, CopyInv, LockInv
<1>8. ASSUME NEW s \in Streams, ReaderDone(s) PROVE CopyInv'
  BY <1>8, <1>t DEF ReaderDone, Looping, child, reader, sink, worker, super, CopyInv, LockInv
<1>9. ASSUME NEW s \in Streams, ReaderFails(s) PROVE CopyInv'
  BY <1>9, <1>t DEF ReaderFails, Looping, child, reader, sink, worker, super, CopyInv, LockInv
<1>10. CASE ChildExit
  BY <1>10, <1>t DEF ChildExit, child, reader, sink, worker, super, CopyInv, LockInv
<1>11. CASE ForceRotate
  BY <1>11, <1>t DEF ForceRotate, child, reader, sink, worker, super, CopyInv, LockInv
<1>12. CASE RequestStop
  BY <1>12, <1>t DEF RequestStop, child, reader, sink, worker, super, CopyInv, LockInv
<1>13. CASE WorkerLock
  BY <1>13, <1>t DEF WorkerLock, child, reader, sink, worker, super, CopyInv, LockInv
<1>14. CASE WorkerSync
  BY <1>14, <1>t DEF WorkerSync, Return, child, reader, sink, worker, super, CopyInv, LockInv
<1>15. CASE WorkerArchive
  <2>1. archives \in Seq(Seq(Pieces)) /\ active \in Seq(Pieces)
    BY <1>t DEF DataType
  <2>2. /\ Append(archives, active) # <<>>
        /\ Append(archives, active)[Len(Append(archives, active))] = active
    <3>1. /\ Len(archives) \in Nat /\ Len(Append(archives, active)) = Len(archives) + 1
          /\ Append(archives, active)[Len(archives) + 1] = active
          /\ DOMAIN Append(archives, active) = 1..(Len(archives) + 1)
      BY <2>1, AppendIs
    <3>2. Append(archives, active) # <<>>
      BY <3>1, EmptySeq
    <3> QED
      BY <3>1, <3>2
  <2>3. kpc' = "truncate" => archives' = Append(archives, active) /\ UNCHANGED active
    BY <1>15 DEF WorkerArchive, ArchiveFails
  <2> QED
    BY <2>2, <2>3 DEF CopyInv
<1>16. CASE WorkerTruncate
  BY <1>16, <1>t DEF WorkerTruncate, ArchiveFails, child, reader, sink, worker, super, CopyInv,
    LockInv
<1>17. CASE WorkerReopen
  BY <1>17, <1>t DEF WorkerReopen, Return, child, reader, sink, worker, super, CopyInv, LockInv
<1>18. CASE HandleMessage
  BY <1>18, <1>t DEF HandleMessage, child, reader, sink, worker, super, CopyInv, LockInv
<1>19. CASE Depart
  BY <1>19, <1>t DEF Depart, child, reader, sink, worker, super, CopyInv, LockInv
<1>20. CASE Decide
  BY <1>20, <1>t DEF Decide, NotDue, RotateSinksFails, child, reader, sink, worker, super, CopyInv,
    LockInv
<1>21. CASE SpawnWorker
  BY <1>21, <1>t DEF SpawnWorker, child, reader, sink, worker, super, CopyInv, LockInv
<1>22. CASE CancelWorker
  BY <1>22, <1>t DEF CancelWorker, child, reader, sink, worker, super, CopyInv, LockInv
<1>23. CASE WorkerAnswered
  BY <1>23, <1>t DEF WorkerAnswered, child, reader, sink, worker, super, CopyInv, LockInv
<1>24. CASE WorkerLost
  BY <1>24, <1>t DEF WorkerLost, RotateSinksFails, child, reader, sink, worker, super, CopyInv,
    LockInv
<1>25. CASE Terminate
  BY <1>25, <1>t DEF Terminate, child, reader, sink, worker, super, CopyInv, LockInv
<1>26. CASE FinishReaders
  BY <1>26, <1>t DEF FinishReaders, child, reader, sink, worker, super, CopyInv, LockInv
<1>27. CASE Close
  BY <1>27, <1>t DEF Close, child, reader, sink, worker, super, CopyInv, LockInv
<1> QED
  BY <1>1, <1>2, <1>3, <1>4, <1>5, <1>6, <1>7, <1>8, <1>9, <1>10, <1>11, <1>12, <1>13, <1>14, <1>15,
    <1>16, <1>17, <1>18, <1>19, <1>20, <1>21, <1>22, <1>23, <1>24, <1>25, <1>26, <1>27
  DEF Next, Reader, Worker, Supervise

LEMMA InitHolds == Init => IInv
<1> SUFFICES ASSUME Init PROVE IInv
  OBVIOUS
<1>1. FlagType
  BY DEF Init, FlagType
<1>2. PlaceType /\ LockInv /\ CopyInv /\ CountType /\ RotationNotForgotten
  BY SinkAssumption DEF Init, PlaceType, LockInv, CopyInv, CountType, RotationNotForgotten, None
<1>3. DataType
  <2>1. <<>> \in Seq(Pieces) /\ <<>> \in Seq(Seq(Pieces)) /\ Len(<<>>) = 0
    BY EmptySeq
  <2>2. \A s \in Streams : Len(pending[s]) <= BUFFER_LIMIT
    <3>1. \A s \in Streams : pending[s] = <<>>
      BY DEF Init
    <3>2. 0 <= BUFFER_LIMIT
      BY SinkAssumption
    <3> QED
      BY <2>1, <3>1, <3>2
  <2>3. active \in Seq(Pieces) /\ archives \in Seq(Seq(Pieces))
    BY <2>1 DEF Init
  <2>4. pipe \in [Streams -> Seq(Pieces)] /\ pending \in [Streams -> Seq(Pieces)]
    BY <2>1 DEF Init
  <2>5. produced \in [Streams -> 0..MaxOut] /\ acked \in [Streams -> 0..MaxOut]
    BY SinkAssumption DEF Init
  <2> QED
    BY <2>2, <2>3, <2>4, <2>5 DEF DataType
<1>4. StreamInv
  <2>1. \A s \in Streams : produced[s] = 0 /\ acked[s] = 0 /\ pending[s] = <<>> /\ pipe[s] = <<>>
    BY DEF Init
  <2>2. Len(<<>>) = 0 /\ 0 + 0 + 0 = 0
    BY EmptySeq
  <2>3. \A s \in Streams : Len(pending[s]) = 0 /\ Len(pipe[s]) = 0
    BY <2>1, <2>2
  <2>4. \A i : i \notin 1..0
    OBVIOUS
  <2> QED
    BY <2>1, <2>2, <2>3, <2>4 DEF StreamInv
<1>5. EndInv
  BY DEF Init, EndInv, None
<1>6. /\ \A f \in DOMAIN Stored : DOMAIN Stored[f] = {}
      /\ \A s \in Streams : acked[s] = 0
  <2>1. archives \in Seq(Seq(Pieces)) /\ active \in Seq(Pieces) /\ Len(archives) = 0 /\ active = <<>>
    BY <1>3 DEF DataType, Init
  <2>2. DOMAIN Stored = 1..(0 + 1) /\ Stored[0 + 1] = active
    BY <2>1, AppendIs DEF Stored
  <2>3. \A f \in DOMAIN Stored : Stored[f] = <<>>
    BY <2>1, <2>2
  <2> QED
    BY <2>3 DEF Init
<1>7. StoredInv /\ OutputKept /\ OutputInOrder
  BY <1>6 DEF StoredInv, OutputKept, OutputInOrder
<1> QED
  BY <1>1, <1>2, <1>3, <1>4, <1>5, <1>7 DEF IInv

LEMMA InvariantHolds == Spec => []IInv
<1>1. IInv /\ [Next]_vars => IInv'
  <2> SUFFICES ASSUME IInv, [Next]_vars PROVE IInv'
    OBVIOUS
  <2>1. CASE Next
    BY <2>1, FlagStep, PlaceStep, CountStep, LockStep, EndStep, QueuedStep, DataStep, CopyStep DEF IInv
  <2>2. CASE UNCHANGED vars
    <3>1. FlagType' /\ PlaceType' /\ CountType'
      BY <2>2 DEF IInv, FlagType, PlaceType, CountType, vars, child, reader, sink, worker, super
    <3>2. DataType' /\ StreamInv' /\ EndInv'
      BY <2>2 DEF IInv, DataType, StreamInv, EndInv, vars, child, reader, sink, super
    <3>3. LockInv' /\ CopyInv' /\ RotationNotForgotten'
      BY <2>2 DEF IInv, LockInv, CopyInv, RotationNotForgotten, vars, reader, sink, worker, super
    <3>4. StoredInv' /\ OutputKept' /\ OutputInOrder'
      BY <2>2, StoredStays DEF IInv, vars, reader, sink
    <3> QED
      BY <3>1, <3>2, <3>3, <3>4 DEF IInv
  <2> QED
    BY <2>1, <2>2
<1> QED
  BY <1>1, InitHolds, PTL DEF Spec

\* Pipes, buffers and files hold pieces, and copy_pipe never holds more than its
\* buffer limit.
THEOREM SinkTypeCorrect == Spec => []TypeOK
<1>1. IInv => TypeOK
  BY DEF IInv, TypeOK, FlagType, PlaceType, DataType, CountType
<1> QED
  BY <1>1, InvariantHolds, PTL

\* RT-09, RT-10: no rotation of RotationSink::rotate, however it fails, is cancelled
\* or is left behind, loses a byte that write_some has accepted.
THEOREM OutputKeptAlways == Spec => []OutputKept
<1>1. IInv => OutputKept
  BY DEF IInv
<1> QED
  BY <1>1, InvariantHolds, PTL

\* With rename, the bytes of a stream are stored once and in order across all files.
THEOREM OutputInOrderAlways == Spec => []OutputInOrder
<1>1. IInv => OutputInOrder
  BY DEF IInv
<1> QED
  BY <1>1, InvariantHolds, PTL

\* RT-08: cleanup_generation ends without an error only when everything the child
\* has written is stored.
THEOREM CleanDrainAlways == Spec => []CleanDrain
<1>1. IInv => CleanDrain
  <2> SUFFICES ASSUME IInv, outcome = "clean" PROVE acked = produced
    BY DEF CleanDrain
  <2>t. DataType /\ StreamInv /\ EndInv
    BY DEF IInv
  <2>1. \A s \in Streams : pipe[s] = <<>> /\ pending[s] = <<>>
    BY <2>t DEF EndInv
  <2>2. \A s \in Streams : acked[s] = produced[s]
    <3> SUFFICES ASSUME NEW s \in Streams PROVE acked[s] = produced[s]
      OBVIOUS
    <3>1. Len(pending[s]) = 0 /\ Len(pipe[s]) = 0 /\ acked[s] \in Nat
      BY <2>1, <2>t, DataFacts, EmptySeq
    <3>2. produced[s] = acked[s] + Len(pending[s]) + Len(pipe[s])
      BY <2>t DEF StreamInv
    <3>3. acked[s] + 0 + 0 = acked[s]
      BY <3>1
    <3> QED
      BY <3>1, <3>2, <3>3
  <2> QED
    BY <2>2, <2>t DEF DataType
<1> QED
  BY <1>1, InvariantHolds, PTL

\* rotation_queued is never left set without a message on its way: a rotation that
\* failed, was a no-op or lost a race does not switch automatic rotation off.
THEOREM RotationNotForgottenAlways == Spec => []RotationNotForgotten
<1>1. IInv => RotationNotForgotten
  BY DEF IInv
<1> QED
  BY <1>1, InvariantHolds, PTL
=============================================================================
