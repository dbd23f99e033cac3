--------------------------- MODULE EventLogProofs ---------------------------
(***************************************************************************)
(* The history of the shared event log is intact and no scan shows a       *)
(* record twice, for any number of writers, backups and calls, any         *)
(* threshold and any faults: neither the mutex nor the scan is given up.   *)
(*                                                                         *)
(* HistoryIntact needs one fact about the half-done rotation: the slot     *)
(* above the one being shifted is empty (ShiftInv), so that no rename      *)
(* replaces a backup.  ScanOnce needs a bound that the scan keeps although *)
(* it holds no lock: what it has read is older than all that is in the     *)
(* slots it has still to read (AheadInv).                                  *)
(***************************************************************************)
EXTENDS EventLog, SequenceTheorems, TLAPS

B == BACKUP_RETENTION_COUNT

ShiftInv == \A w \in Writers : wpc[w] = "shift" => shift < B /\ files[shift + 1] = <<>>

\* The records of a file in their order, and the slots oldest first.
FilesInOrder ==
    \A i \in Slots : \A m, n \in DOMAIN files[i] :
      m < n /\ files[i][m] # Torn /\ files[i][n] # Torn => files[i][m] < files[i][n]

SlotsInOrder ==
    \A i, j \in Slots : i < j => \A r \in RecordsOf(i), s \in RecordsOf(j) : s < r

Complete ==
    /\ \A r : r \in 1..written <=> r \in gone \/ \E i \in Slots : r \in RecordsOf(i)
    /\ \A i \in Slots : \A r \in gone, s \in RecordsOf(i) : r < s

\* What a scan has read is in order, file by file and line by line.
ReadInOrder ==
    /\ \A a \in DOMAIN got : \A m, n \in DOMAIN got[a] :
         m < n /\ got[a][m] # Torn /\ got[a][n] # Torn => got[a][m] < got[a][n]
    /\ \A a, b \in DOMAIN got : a < b =>
         \A m \in DOMAIN got[a], n \in DOMAIN got[b] :
           got[a][m] # Torn /\ got[b][n] # Torn => got[a][m] < got[b][n]

AheadInv ==
    \A i \in Slots : i < left =>
      \A a \in DOMAIN got : \A m \in DOMAIN got[a], r \in RecordsOf(i) :
        got[a][m] # Torn => got[a][m] < r

History == Complete /\ FilesInOrder /\ SlotsInOrder

IInv == TypeOK /\ ShiftInv /\ History /\ ReadInOrder /\ AheadInv

-----------------------------------------------------------------------------
(* The lines of the slots                                                  *)

LEMMA SlotFacts ==
    /\ B \in Nat \ {0} /\ B \in Slots /\ 0 \in Slots /\ Slots \subseteq Nat
    /\ \A i \in Slots : i <= B
    /\ \A i \in Nat : i < B => i \in Slots /\ i + 1 \in Slots
  BY EventLogAssumption DEF Slots, B

\* Lines over 0..k are lines over 0..l when l is not smaller.
LEMMA WidenAll ==
    ASSUME NEW k \in Nat, NEW l \in Nat, k <= l
    PROVE  /\ \A s \in Seq(0..k) : s \in Seq(0..l)
           /\ \A f \in [Slots -> Seq(0..k)] : f \in [Slots -> Seq(0..l)]
           /\ \A g \in Seq(Seq(0..k)) : g \in Seq(Seq(0..l))
<1>1. 0..k \subseteq 0..l
  OBVIOUS
<1> DEFINE S == Seq(0..k)
           T == Seq(0..l)
<1>2. S \subseteq T
  BY <1>1, SeqMonotonic
<1> HIDE DEF S, T
<1>3. \A g \in Seq(S) : g \in Seq(T)
  BY <1>2, SeqMonotonic
<1>4. \A f \in [Slots -> S] : f \in [Slots -> T]
  BY <1>2
<1> QED
  BY <1>2, <1>3, <1>4 DEF S, T

\* The lines of a slot are numbers.
LEMMA LineFacts ==
    ASSUME TypeOK
    PROVE  /\ written \in Nat
           /\ \A i \in Slots : /\ files[i] \in Seq(0..written) /\ Len(files[i]) \in Nat
                               /\ DOMAIN files[i] = 1..Len(files[i])
                               /\ \A n \in 1..Len(files[i]) : files[i][n] \in 0..written
           /\ \A i \in Slots : RecordsOf(i) \subseteq 1..written
<1>1. written \in Nat /\ files \in [Slots -> Seq(0..written)]
  BY DEF TypeOK
<1>2. \A i \in Slots : /\ files[i] \in Seq(0..written) /\ Len(files[i]) \in Nat
                       /\ DOMAIN files[i] = 1..Len(files[i])
                       /\ \A n \in 1..Len(files[i]) : files[i][n] \in 0..written
  BY <1>1
<1>3. \A i \in Slots : RecordsOf(i) \subseteq 1..written
  BY <1>1, <1>2 DEF RecordsOf, Torn
<1> QED
  BY <1>1, <1>2, <1>3

\* So are the lines that a scan has read.
LEMMA ReadFacts ==
    ASSUME TypeOK, NEW a \in DOMAIN got
    PROVE  /\ got \in Seq(Seq(0..written)) /\ Len(got) \in Nat /\ a \in 1..Len(got)
           /\ got[a] \in Seq(0..written) /\ DOMAIN got[a] = 1..Len(got[a])
           /\ \A m \in DOMAIN got[a] : got[a][m] \in 0..written
<1>1. got \in Seq(Seq(0..written))
  BY DEF TypeOK
<1>2. Len(got) \in Nat /\ a \in 1..Len(got)
  BY <1>1
<1>3. got[a] \in Seq(0..written)
  BY <1>1, <1>2, ElementOfSeq
<1>4. DOMAIN got[a] = 1..Len(got[a])
  BY <1>3
<1>5. \A m \in DOMAIN got[a] : got[a][m] \in 0..written
  BY <1>3, <1>4, ElementOfSeq
<1> QED
  BY <1>1, <1>2, <1>3, <1>4, <1>5

\* A line is added to the active file: a torn one, or the next record.
LEMMA AppendKeeps ==
    ASSUME IInv, NEW x \in {Torn, written + 1},
           files' = [files EXCEPT ![0] = Append(@, x)],
           written' = (IF x = Torn THEN written ELSE x),
           UNCHANGED <<gone, left, got>>
    PROVE  History' /\ AheadInv' /\ files' \in [Slots -> Seq(0..written')]
<1>t. TypeOK /\ Complete /\ FilesInOrder /\ SlotsInOrder /\ AheadInv
  BY DEF IInv, History
<1>f. /\ written \in Nat
      /\ \A i \in Slots : /\ files[i] \in Seq(0..written) /\ Len(files[i]) \in Nat
                          /\ DOMAIN files[i] = 1..Len(files[i])
                          /\ \A n \in 1..Len(files[i]) : files[i][n] \in 0..written
      /\ \A i \in Slots : RecordsOf(i) \subseteq 1..written
  BY <1>t, LineFacts
<1>s. 0 \in Slots /\ Slots \subseteq Nat
  BY SlotFacts
<1>w. x \in Nat /\ written' \in Nat /\ written <= written' /\ x \in 0..written'
  BY <1>f DEF Torn
<1>0. files \in [Slots -> Seq(0..written)]
  BY <1>t DEF TypeOK
<1>1. /\ Len(files'[0]) = Len(files[0]) + 1 /\ files'[0][Len(files[0]) + 1] = x
      /\ \A n \in 1..Len(files[0]) : files'[0][n] = files[0][n]
      /\ DOMAIN files'[0] = 1..(Len(files[0]) + 1)
  <2>1. files'[0] = Append(files[0], x)
    BY <1>0, <1>s
  <2> QED
    BY <1>f, <1>s, <1>w, <2>1
<1>2. \A i \in Slots \ {0} : files'[i] = files[i]
  BY <1>0, <1>s
<1>3. files' \in [Slots -> Seq(0..written')]
  <2> DEFINE T == Seq(0..written')
  <2>1. files \in [Slots -> T] /\ files[0] \in T
    BY <1>0, <1>s, <1>f, <1>w, WidenAll
  <2>2. Append(files[0], x) \in T
    BY <2>1, <1>w
  <2> HIDE DEF T
  <2>3. files' \in [Slots -> T]
    BY <2>1, <2>2
  <2> QED
    BY <2>3 DEF T
<1>4. \A i \in Slots \ {0} : RecordsOf(i)' = RecordsOf(i)
  BY <1>2 DEF RecordsOf
<1>5. RecordsOf(0)' = RecordsOf(0) \cup ({x} \ {Torn})
  <2>1. \A r : r \in RecordsOf(0)' <=> r # Torn /\ \E n \in 1..(Len(files[0]) + 1) : files'[0][n] = r
    BY <1>1 DEF RecordsOf
  <2>2. \A r : r \in RecordsOf(0) <=> r # Torn /\ \E n \in 1..Len(files[0]) : files[0][n] = r
    BY <1>f, <1>s DEF RecordsOf
  <2>3. 1..(Len(files[0]) + 1) = 1..Len(files[0]) \cup {Len(files[0]) + 1}
    BY <1>f, <1>s
  <2> QED
    BY <1>1, <2>1, <2>2, <2>3
<1>6. \A r : r \in {x} \ {Torn} <=> r = written + 1 /\ x # Torn
  BY <1>f DEF Torn
<1>7. Complete'
  <2>1. \A r : (\E i \in Slots : r \in RecordsOf(i)')
                <=> r \in {x} \ {Torn} \/ \E i \in Slots : r \in RecordsOf(i)
    BY <1>4, <1>5, <1>s
  <2>2. \A r : r \in 1..written' <=> r \in 1..written \/ r \in {x} \ {Torn}
    BY <1>6, <1>f
  <2>3. ASSUME NEW i \in Slots, NEW r \in gone, NEW s \in RecordsOf(i)' PROVE r < s
    <3>1. r \in 1..written
      BY <1>t DEF TypeOK
    <3>2. s \in RecordsOf(i) \/ s = written + 1
      BY <1>4, <1>5, <1>6
    <3> QED
      BY <1>t, <1>f, <3>1, <3>2 DEF Complete
  <2> QED
    BY <1>t, <2>1, <2>2, <2>3 DEF Complete
<1>8. FilesInOrder'
  <2> SUFFICES ASSUME NEW i \in Slots, NEW m \in DOMAIN files'[i], NEW n \in DOMAIN files'[i],
                      m < n, files'[i][m] # Torn, files'[i][n] # Torn
               PROVE  files'[i][m] < files'[i][n]
    BY DEF FilesInOrder
  <2>1. CASE i # 0
    BY <1>2, <1>t, <2>1 DEF FilesInOrder
  <2>2. CASE i = 0 /\ n \in 1..Len(files[0])
    BY <1>1, <1>f, <1>s, <1>t, <2>2 DEF FilesInOrder
  <2>3. CASE i = 0 /\ n = Len(files[0]) + 1
    <3>1. m \in 1..Len(files[0])
      BY <1>1, <1>f, <1>s, <2>3
    <3>2. files'[0][m] \in 0..written /\ files'[0][n] = written + 1
      BY <1>1, <1>f, <1>s, <2>3, <3>1
    <3> QED
      BY <1>f, <2>3, <3>2
  <2> QED
    BY <1>1, <1>f, <1>s, <2>1, <2>2, <2>3
<1>9. SlotsInOrder'
  <2> SUFFICES ASSUME NEW i \in Slots, NEW j \in Slots, i < j, NEW r \in RecordsOf(i)', NEW s \in RecordsOf(j)'
               PROVE  s < r
    BY DEF SlotsInOrder
  <2>1. s \in RecordsOf(j) /\ (r \in RecordsOf(i) \/ r = written + 1)
    BY <1>s, <1>4, <1>5, <1>6
  <2> QED
    BY <1>f, <1>t, <2>1 DEF SlotsInOrder
<1>10. AheadInv'
  <2> SUFFICES ASSUME NEW i \in Slots, i < left, NEW a \in DOMAIN got, NEW m \in DOMAIN got[a],
                      NEW r \in RecordsOf(i)', got[a][m] # Torn
               PROVE  got[a][m] < r
    BY DEF AheadInv
  <2>1. r \in RecordsOf(i) \/ r = written + 1
    BY <1>4, <1>5, <1>6
  <2>2. got[a][m] \in 0..written
    BY <1>t, ReadFacts
  <2> QED
    BY <1>f, <1>t, <2>1, <2>2 DEF AheadInv
<1> QED
  BY <1>3, <1>7, <1>8, <1>9, <1>10 DEF History

\* The oldest backup is deleted.
LEMMA RemoveKeeps ==
    ASSUME IInv, files' = [files EXCEPT ![B] = <<>>], gone' = gone \cup RecordsOf(B),
           UNCHANGED <<written, left, got>>
    PROVE  History' /\ AheadInv' /\ files' \in [Slots -> Seq(0..written')] /\ gone' \subseteq 1..written'
<1>t. TypeOK /\ Complete /\ FilesInOrder /\ SlotsInOrder /\ AheadInv
  BY DEF IInv, History
<1>f. /\ written \in Nat
      /\ \A i \in Slots : /\ files[i] \in Seq(0..written) /\ Len(files[i]) \in Nat
                          /\ DOMAIN files[i] = 1..Len(files[i])
                          /\ \A n \in 1..Len(files[i]) : files[i][n] \in 0..written
      /\ \A i \in Slots : RecordsOf(i) \subseteq 1..written
  BY <1>t, LineFacts
<1>s. B \in Nat /\ B \in Slots /\ Slots \subseteq Nat /\ \A i \in Slots : i <= B
  BY SlotFacts
<1>0. files \in [Slots -> Seq(0..written)]
  BY <1>t DEF TypeOK
<1>1. files'[B] = <<>> /\ \A i \in Slots \ {B} : files'[i] = files[i]
  BY <1>0, <1>s
<1>2. files' \in [Slots -> Seq(0..written')]
  <2> DEFINE T == Seq(0..written)
  <2>1. files \in [Slots -> T] /\ <<>> \in T
    BY <1>0
  <2> HIDE DEF T
  <2>2. files' \in [Slots -> T]
    BY <2>1
  <2> QED
    BY <2>2 DEF T
<1>3. RecordsOf(B)' = {} /\ \A i \in Slots \ {B} : RecordsOf(i)' = RecordsOf(i)
  BY <1>1 DEF RecordsOf
<1>4. gone' \subseteq 1..written'
  BY <1>t, <1>f, <1>s DEF TypeOK
<1>5. Complete'
  <2>1. \A r : (r \in gone' \/ \E i \in Slots : r \in RecordsOf(i)')
                <=> r \in gone \/ \E i \in Slots : r \in RecordsOf(i)
    BY <1>3, <1>s
  <2>2. ASSUME NEW i \in Slots, NEW r \in gone', NEW s \in RecordsOf(i)' PROVE r < s
    <3>1. i < B /\ s \in RecordsOf(i)
      BY <1>3, <1>s
    <3> QED
      BY <1>s, <1>t, <3>1 DEF Complete, SlotsInOrder
  <2> QED
    BY <1>t, <2>1, <2>2 DEF Complete
<1>6. FilesInOrder'
  <2> SUFFICES ASSUME NEW i \in Slots, NEW m \in DOMAIN files'[i], NEW n \in DOMAIN files'[i],
                      m < n, files'[i][m] # Torn, files'[i][n] # Torn
               PROVE  files'[i][m] < files'[i][n]
    BY DEF FilesInOrder
  <2>1. i # B
    BY <1>1
  <2> QED
    BY <1>1, <1>t, <2>1 DEF FilesInOrder
<1>7. SlotsInOrder'
  <2> SUFFICES ASSUME NEW i \in Slots, NEW j \in Slots, i < j, NEW r \in RecordsOf(i)', NEW s \in RecordsOf(j)'
               PROVE  s < r
    BY DEF SlotsInOrder
  <2> QED
    BY <1>3, <1>t DEF SlotsInOrder
<1>8. AheadInv'
  <2> SUFFICES ASSUME NEW i \in Slots, i < left, NEW a \in DOMAIN got, NEW m \in DOMAIN got[a],
                      NEW r \in RecordsOf(i)', got[a][m] # Torn
               PROVE  got[a][m] < r
    BY DEF AheadInv
  <2> QED
    BY <1>3, <1>t DEF AheadInv
<1> QED
  BY <1>2, <1>4, <1>5, <1>6, <1>7, <1>8 DEF History

\* A slot is renamed to the empty one above it.
LEMMA RenameKeeps ==
    ASSUME IInv, NEW k \in Nat, k < B, files[k + 1] = <<>>, Rename(k),
           UNCHANGED <<gone, written, left, got>>
    PROVE  /\ History' /\ AheadInv' /\ files' \in [Slots -> Seq(0..written')]
           /\ files'[k] = <<>>
<1>t. TypeOK /\ Complete /\ FilesInOrder /\ SlotsInOrder /\ AheadInv
  BY DEF IInv, History
<1>s. k \in Slots /\ k + 1 \in Slots /\ Slots \subseteq Nat
  BY SlotFacts
<1>0. files \in [Slots -> Seq(0..written)]
  BY <1>t DEF TypeOK
<1>1. /\ files'[k + 1] = files[k] /\ files'[k] = <<>>
      /\ \A i \in Slots \ {k, k + 1} : files'[i] = files[i]
  BY <1>0, <1>s DEF Rename
<1>2. files' \in [Slots -> Seq(0..written')]
  <2> DEFINE T == Seq(0..written)
  <2>1. files \in [Slots -> T] /\ <<>> \in T
    BY <1>0
  <2> HIDE DEF T
  <2>2. files' \in [Slots -> T]
    BY <2>1, <1>s DEF Rename
  <2> QED
    BY <2>2 DEF T
<1> DEFINE from(i) == IF i = k + 1 THEN k ELSE i
<1>3. \A i \in Slots : /\ from(i) \in Slots /\ from(i) <= i
                       /\ i # k => files'[i] = files[from(i)]
  BY <1>1, <1>s
<1>4. /\ RecordsOf(k)' = {} /\ RecordsOf(k + 1) = {}
      /\ \A i \in Slots \ {k} : RecordsOf(i)' = RecordsOf(from(i))
  BY <1>1, <1>3, <1>s DEF RecordsOf
<1>5. \A i, j \in Slots \ {k} : i < j => from(i) < from(j)
  BY <1>s
<1>6. Complete'
  <2>1. \A r : (\E i \in Slots : r \in RecordsOf(i)') <=> \E i \in Slots : r \in RecordsOf(i)
    <3>1. ASSUME NEW i \in Slots, NEW r \in RecordsOf(i)' PROVE \E j \in Slots : r \in RecordsOf(j)
      BY <1>3, <1>4
    <3>2. ASSUME NEW i \in Slots, NEW r \in RecordsOf(i) PROVE \E j \in Slots : r \in RecordsOf(j)'
      <4>1. CASE i = k
        BY <1>4, <1>s, <4>1
      <4>2. CASE i # k /\ i # k + 1
        BY <1>4, <4>2
      <4> QED
        BY <1>4, <4>1, <4>2
    <3> QED
      BY <3>1, <3>2
  <2>2. ASSUME NEW i \in Slots, NEW r \in gone, NEW s \in RecordsOf(i)' PROVE r < s
    BY <1>3, <1>4, <1>t DEF Complete
  <2> QED
    BY <1>t, <2>1, <2>2 DEF Complete
<1>7. FilesInOrder'
  <2> SUFFICES ASSUME NEW i \in Slots, NEW m \in DOMAIN files'[i], NEW n \in DOMAIN files'[i],
                      m < n, files'[i][m] # Torn, files'[i][n] # Torn
               PROVE  files'[i][m] < files'[i][n]
    BY DEF FilesInOrder
  <2>1. i # k
    BY <1>1
  <2>2. from(i) \in Slots /\ files'[i] = files[from(i)]
    BY <1>3, <2>1
  <2> HIDE DEF from
  <2> QED
    BY <1>t, <2>2 DEF FilesInOrder
<1>8. SlotsInOrder'
  <2> SUFFICES ASSUME NEW i \in Slots, NEW j \in Slots, i < j, NEW r \in RecordsOf(i)', NEW s \in RecordsOf(j)'
               PROVE  s < r
    BY DEF SlotsInOrder
  <2>1. i # k /\ j # k
    BY <1>4
  <2>2. /\ from(i) \in Slots /\ from(j) \in Slots /\ from(i) < from(j)
        /\ r \in RecordsOf(from(i)) /\ s \in RecordsOf(from(j))
    BY <1>3, <1>4, <1>5, <2>1
  <2> HIDE DEF from
  <2> QED
    BY <1>t, <2>2 DEF SlotsInOrder
<1>9. AheadInv'
  <2> SUFFICES ASSUME NEW i \in Slots, i < left, NEW a \in DOMAIN got, NEW m \in DOMAIN got[a],
                      NEW r \in RecordsOf(i)', got[a][m] # Torn
               PROVE  got[a][m] < r
    BY DEF AheadInv
  <2>1. i # k
    BY <1>4
  <2>2. from(i) \in Slots /\ from(i) < left /\ r \in RecordsOf(from(i))
    <3>1. left \in Nat
      BY <1>t, SlotFacts DEF TypeOK, B
    <3> QED
      BY <1>s, <1>3, <1>4, <2>1, <3>1
  <2> HIDE DEF from
  <2> QED
    BY <1>t, <2>2 DEF AheadInv
<1> QED
  BY <1>1, <1>2, <1>6, <1>7, <1>8, <1>9 DEF History

\* A scan reads the next slot.
LEMMA ScanKeeps ==
    ASSUME IInv, ScanFile
    PROVE  ReadInOrder' /\ AheadInv' /\ got' \in Seq(Seq(0..written))
           /\ left' \in 0..(B + 1)
<1>t. TypeOK /\ FilesInOrder /\ SlotsInOrder /\ ReadInOrder /\ AheadInv
  BY DEF IInv, History
<1>f. /\ written \in Nat
      /\ \A i \in Slots : /\ files[i] \in Seq(0..written) /\ Len(files[i]) \in Nat
                          /\ DOMAIN files[i] = 1..Len(files[i])
                          /\ \A n \in 1..Len(files[i]) : files[i][n] \in 0..written
      /\ \A i \in Slots : RecordsOf(i) \subseteq 1..written
  BY <1>t, LineFacts
<1> DEFINE k == IterLogPaths(left)
           lines == ReadRecords(k)
<1>k. k \in Slots /\ k \in Nat /\ left = k + 1 /\ left' = k
  <2>1. left \in 0..(B + 1) /\ left > 0 /\ B \in Nat
    BY <1>t, SlotFacts DEF TypeOK, ScanFile, B
  <2> QED
    BY <2>1 DEF ScanFile, IterLogPaths, Slots, B
<1>u. UNCHANGED files /\ got' = Append(got, lines)
  BY DEF ScanFile, disk
<1> HIDE DEF k
<1>1. /\ DOMAIN lines = 1..Len(files[k])
      /\ \A n \in DOMAIN lines : lines[n] # Torn => lines[n] = files[k][n] /\ lines[n] \in RecordsOf(k)
  BY <1>f, <1>k DEF ReadRecords, RecordsOf
<1>2. lines \in Seq(0..written)
  <2>1. \A n \in 1..Len(files[k]) : lines[n] \in 0..written
    BY <1>f, <1>k DEF ReadRecords, Torn
  <2>2. lines \in [1..Len(files[k]) -> 0..written] /\ Len(files[k]) \in Nat
    BY <1>f, <1>k, <2>1 DEF ReadRecords
  <2> DEFINE S == 0..written
             N == Len(files[k])
  <2>3. lines \in [1..N -> S] /\ N \in Nat
    BY <2>2
  <2> HIDE DEF lines, N, S
  <2>4. lines \in Seq(S)
    BY <2>3, SeqDef
  <2> QED
    BY <2>4 DEF S
<1> HIDE DEF lines
<1>3. got \in Seq(Seq(0..written)) /\ got' \in Seq(Seq(0..written))
  <2> DEFINE T == Seq(0..written)
  <2>1. got \in Seq(T) /\ lines \in T
    BY <1>t, <1>2 DEF TypeOK
  <2> HIDE DEF T
  <2>2. got' \in Seq(T)
    BY <1>u, <2>1
  <2> QED
    BY <2>1, <2>2 DEF T
<1>4. /\ Len(got) \in Nat /\ DOMAIN got = 1..Len(got) /\ DOMAIN got' = 1..(Len(got) + 1)
      /\ got'[Len(got) + 1] = lines /\ \A a \in 1..Len(got) : got'[a] = got[a]
  <2> DEFINE T == Seq(0..written)
  <2>1. got \in Seq(T) /\ lines \in T
    BY <1>t, <1>2 DEF TypeOK
  <2> HIDE DEF T
  <2> QED
    BY <1>u, <2>1
<1>5. \A a \in DOMAIN got : \A m \in DOMAIN got[a], r \in RecordsOf(k) : got[a][m] # Torn => got[a][m] < r
  BY <1>t, <1>k DEF AheadInv
<1>6. ReadInOrder'
  <2>1. ASSUME NEW a \in DOMAIN got', NEW m \in DOMAIN got'[a], NEW n \in DOMAIN got'[a],
               m < n, got'[a][m] # Torn, got'[a][n] # Torn
        PROVE  got'[a][m] < got'[a][n]
    <3>1. CASE a \in DOMAIN got
      BY <1>4, <1>t, <2>1, <3>1 DEF ReadInOrder
    <3>2. CASE a = Len(got) + 1
      <4>1. m \in DOMAIN lines /\ n \in DOMAIN lines /\ got'[a] = lines
        BY <1>4, <3>2
      <4>2. got'[a][m] = files[k][m] /\ got'[a][n] = files[k][n] /\ DOMAIN lines = DOMAIN files[k]
        BY <1>1, <1>f, <1>k, <2>1, <4>1
      <4> QED
        BY <1>k, <1>t, <2>1, <4>1, <4>2 DEF FilesInOrder
    <3> QED
      BY <1>4, <3>1, <3>2
  <2>2. ASSUME NEW a \in DOMAIN got', NEW b \in DOMAIN got', a < b,
               NEW m \in DOMAIN got'[a], NEW n \in DOMAIN got'[b],
               got'[a][m] # Torn, got'[b][n] # Torn
        PROVE  got'[a][m] < got'[b][n]
    <3>1. a \in DOMAIN got /\ got'[a] = got[a]
      BY <1>4, <2>2
    <3>2. CASE b \in DOMAIN got
      <4>1. got'[b] = got[b]
        BY <1>4, <3>2
      <4> QED
        BY <1>t, <2>2, <3>1, <3>2, <4>1 DEF ReadInOrder
    <3>3. CASE b = Len(got) + 1
      <4>1. got'[b][n] \in RecordsOf(k)
        BY <1>1, <1>4, <2>2, <3>3
      <4> QED
        BY <1>5, <2>2, <3>1, <4>1
    <3> QED
      BY <1>4, <3>2, <3>3
  <2> QED
    BY <2>1, <2>2 DEF ReadInOrder
<1>7. AheadInv'
  <2> SUFFICES ASSUME NEW i \in Slots, i < k, NEW a \in DOMAIN got', NEW m \in DOMAIN got'[a],
                      NEW r \in RecordsOf(i), got'[a][m] # Torn
               PROVE  got'[a][m] < r
    BY <1>k, <1>u DEF AheadInv, RecordsOf
  <2>1. CASE a \in DOMAIN got
    <3>1. got'[a] = got[a] /\ i < left
      BY <1>4, <1>k, <2>1, SlotFacts
    <3> QED
      BY <1>t, <2>1, <3>1 DEF AheadInv
  <2>2. CASE a = Len(got) + 1
    <3>1. got'[a][m] \in RecordsOf(k)
      BY <1>1, <1>4, <2>2
    <3> QED
      BY <1>k, <1>t, <3>1 DEF SlotsInOrder
  <2> QED
    BY <1>4, <2>1, <2>2
<1>8. left' \in 0..(B + 1)
  BY <1>k, SlotFacts
<1> QED
  BY <1>3, <1>6, <1>7, <1>8

-----------------------------------------------------------------------------
\* Nothing but the place of a writer changes: what holds of the files stays.
LEMMA FilesStay ==
    ASSUME IInv, UNCHANGED <<files, gone, written, left, got>>
    PROVE  History' /\ ReadInOrder' /\ AheadInv'
  BY DEF IInv, History, Complete, FilesInOrder, SlotsInOrder, ReadInOrder, AheadInv, RecordsOf

\* TypeOK, what writers keep and the rest.
Labels == {"idle", "acquire", "append", "rotate", "remove", "shift"}

WriterType ==
    /\ owner \in Writers \cup {None} /\ shift \in Slots
    /\ wpc \in [Writers -> Labels]
    /\ \A w \in Writers : wpc[w] \notin {"idle", "acquire"} => owner = w

DiskType ==
    /\ files \in [Slots -> Seq(0..written)] /\ written \in Nat
    /\ gone \subseteq 1..written

ScanType ==
    /\ scanning \in BOOLEAN /\ left \in 0..(B + 1)
    /\ due \subseteq 1..written /\ got \in Seq(Seq(0..written))

LEMMA TypeParts == TypeOK <=> WriterType /\ DiskType /\ ScanType /\ logs \in 0..MaxLogs
  BY DEF TypeOK, WriterType, DiskType, ScanType, Labels, B

\* One writer moves: what the writers keep, if it owns the mutex where it arrives
\* and gives it up only from where it held it.
LEMMA MoveKeeps ==
    ASSUME WriterType, NEW w \in Writers, NEW label \in Labels, Goto(w, label), shift' \in Slots,
           owner' \in Writers \cup {None},
           label \notin {"idle", "acquire"} => owner' = w,
           \A v \in Writers \ {w} : owner = v => owner' = v
    PROVE  WriterType'
<1>1. wpc' \in [Writers -> Labels] /\ wpc'[w] = label /\ \A v \in Writers \ {w} : wpc'[v] = wpc[v]
  BY DEF WriterType, Goto
<1> QED
  BY <1>1 DEF WriterType

\* Only the holder shifts: no other writer is at "shift".
LEMMA ShiftStays ==
    ASSUME WriterType, ShiftInv, NEW w \in Writers, NEW label \in Labels, Goto(w, label), label # "shift",
           UNCHANGED shift,
           \A i \in Slots : files'[i] = files[i] \/ owner = w
    PROVE  ShiftInv'
<1>1. wpc'[w] = label /\ \A v \in Writers \ {w} : wpc'[v] = wpc[v]
  BY DEF WriterType, Goto
<1> SUFFICES ASSUME NEW v \in Writers, wpc'[v] = "shift" PROVE shift < B /\ files'[shift + 1] = <<>>
  BY DEF ShiftInv
<1>2. v # w /\ wpc[v] = "shift" /\ owner = v
  BY <1>1 DEF WriterType
<1>3. shift < B /\ files[shift + 1] = <<>> /\ shift + 1 \in Slots
  BY <1>2, SlotFacts DEF ShiftInv, WriterType
<1> QED
  BY <1>2, <1>3

-----------------------------------------------------------------------------
(* Every step                                                              *)

LEMMA ScannerStep == IInv /\ Scanner => IInv'
<1> SUFFICES ASSUME IInv, Scanner PROVE IInv'
  OBVIOUS
<1>t. TypeOK /\ WriterType /\ DiskType /\ ScanType /\ logs \in 0..MaxLogs /\ ShiftInv
  BY TypeParts DEF IInv
<1>u. UNCHANGED <<disk, wpc, logs>>
  BY DEF Scanner, ScanBegin, ScanFile, ScanEnd
<1>1. WriterType' /\ DiskType' /\ (logs \in 0..MaxLogs)' /\ ShiftInv'
  BY <1>t, <1>u DEF disk, WriterType, DiskType, ShiftInv
<1>h. History'
  BY <1>u DEF IInv, History, Complete, FilesInOrder, SlotsInOrder, RecordsOf, disk
<1>2. CASE ScanFile
  <2>1. ReadInOrder' /\ AheadInv' /\ got' \in Seq(Seq(0..written)) /\ left' \in 0..(B + 1)
    BY <1>2, ScanKeeps
  <2>2. ScanType'
    BY <1>2, <1>t, <1>u, <2>1 DEF ScanFile, ScanType, disk
  <2> QED
    BY <1>1, <1>h, <2>1, <2>2, TypeParts, PTL DEF IInv
<1>3. CASE ScanBegin \/ ScanEnd
  <2>1. got' = <<>>
    BY <1>3 DEF ScanBegin, ScanEnd
  <2>2. ReadInOrder' /\ AheadInv'
    BY <2>1 DEF ReadInOrder, AheadInv
  <2>3. due' \subseteq 1..written
    <3>1. \A i \in Slots : Readable(i) \subseteq RecordsOf(i)
      BY DEF Readable, RecordsOf, IsParseable
    <3>2. \A i \in Slots : RecordsOf(i) \subseteq 1..written
      BY <1>t, LineFacts
    <3>3. UNION {Readable(i) : i \in Slots} \subseteq 1..written
      BY <3>1, <3>2
    <3> QED
      BY <1>3, <3>3 DEF ScanBegin, ScanEnd
  <2>4. scanning' \in BOOLEAN /\ left' \in 0..(B + 1) /\ got' \in Seq(Seq(0..written))
    <3>1. scanning' \in BOOLEAN
      BY <1>3, Zenon DEF ScanBegin, ScanEnd
    <3>2. left' \in 0..(B + 1)
      BY <1>3, SlotFacts DEF ScanBegin, ScanEnd, B
    <3>3. got' \in Seq(Seq(0..written))
      BY <2>1, EmptySeq
    <3> QED
      BY <3>1, <3>2, <3>3
  <2>5. ScanType'
    BY <1>u, <2>3, <2>4 DEF ScanType, disk
  <2> QED
    BY <1>1, <1>h, <2>2, <2>5, TypeParts, PTL DEF IInv
<1> QED
  BY <1>2, <1>3 DEF Scanner

\* A step that leaves the files alone.
LEMMA QuietStep ==
    ASSUME IInv, NEW w \in Writers,
           \/ Log(w) \/ Acquire(w) \/ Timeout(w) \/ Measure(w) \/ RotationFails(w)
           \/ AppendFails(w) /\ UNCHANGED files
           \/ Crash(w) /\ UNCHANGED files
    PROVE  IInv'
<1>t. TypeOK /\ WriterType /\ DiskType /\ ScanType /\ logs \in 0..MaxLogs /\ ShiftInv
  BY TypeParts DEF IInv
<1>u. UNCHANGED <<files, shift, gone, written, scanning, left, due, got>>
  BY DEF Log, Acquire, Timeout, Measure, RotationFails, AppendFails, Crash, disk, scanner
<1>1. History' /\ ReadInOrder' /\ AheadInv'
  BY <1>u, FilesStay
<1>2. DiskType' /\ ScanType'
  BY <1>t, <1>u DEF DiskType, ScanType
<1>3. (logs \in 0..MaxLogs)'
  BY <1>t, EventLogAssumption
     DEF Log, Acquire, Timeout, Measure, RotationFails, AppendFails, Crash
<1>4. PICK label \in Labels \ {"shift"} :
        /\ Goto(w, label) /\ owner' \in Writers \cup {None}
        /\ label \notin {"idle", "acquire"} => owner' = w
        /\ \A v \in Writers \ {w} : owner = v => owner' = v
  <2>o. wpc[w] \notin {"idle", "acquire"} => owner = w
    BY <1>t DEF WriterType
  <2>n. owner \in Writers \cup {None} /\ None \notin Writers
    BY <1>t, EventLogAssumption DEF WriterType, None
  <2>1. CASE Log(w)
    BY <2>1, <2>n DEF Log, disk, Labels
  <2>2. CASE Acquire(w)
    BY <2>2, <2>n DEF Acquire, Labels
  <2>3. CASE Timeout(w)
    BY <2>3, <2>n DEF Timeout, disk, Labels
  <2>4. CASE Measure(w)
    BY <2>4, <2>n, <2>o DEF Measure, Release, Labels
  <2>5. CASE RotationFails(w)
    BY <2>5, <2>n, <2>o DEF RotationFails, Release, Labels
  <2>6. CASE AppendFails(w)
    BY <2>6, <2>n, <2>o DEF AppendFails, Release, Labels
  <2>7. CASE Crash(w)
    BY <2>7, <2>n DEF Crash, Labels
  <2> QED
    BY <2>1, <2>2, <2>3, <2>4, <2>5, <2>6, <2>7
<1>5. WriterType'
  <2>1. shift' \in Slots
    BY <1>t, <1>u DEF WriterType
  <2> QED
    BY <1>t, <1>4, <2>1, MoveKeeps
<1>6. ShiftInv'
  BY <1>t, <1>u, <1>4, ShiftStays
<1> QED
  BY <1>1, <1>2, <1>3, <1>5, <1>6, TypeParts, PTL DEF IInv

\* A step that adds a line to the active file.
LEMMA AppendStep ==
    ASSUME IInv, NEW w \in Writers, wpc[w] = "append",
           NEW x \in {Torn, written + 1}, NEW label \in {"idle", "rotate"},
           files' = [files EXCEPT ![0] = Append(@, x)],
           written' = (IF x = Torn THEN written ELSE x),
           Goto(w, label), owner' = (IF label = "idle" THEN None ELSE owner),
           UNCHANGED <<shift, gone, logs, scanner>>
    PROVE  IInv'
<1>t. TypeOK /\ WriterType /\ DiskType /\ ScanType /\ logs \in 0..MaxLogs /\ ShiftInv /\ ReadInOrder
  BY TypeParts DEF IInv
<1>u. UNCHANGED <<gone, left, got, due, scanning>>
  BY DEF scanner
<1>o. owner = w
  BY <1>t DEF WriterType
<1>1. History' /\ AheadInv' /\ files' \in [Slots -> Seq(0..written')]
  BY <1>u, AppendKeeps
<1>w. written \in Nat /\ written' \in Nat /\ written <= written' /\ 1..written \subseteq 1..written'
  BY <1>t DEF DiskType, Torn
<1>2. DiskType'
  BY <1>t, <1>u, <1>w, <1>1 DEF DiskType
<1>3. ScanType'
  <2>1. got \in Seq(Seq(0..written')) /\ due \subseteq 1..written'
    BY <1>t, <1>w, WidenAll DEF ScanType
  <2> QED
    BY <1>t, <1>u, <2>1 DEF ScanType
<1>4. ReadInOrder'
  BY <1>t, <1>u DEF ReadInOrder
<1>5. WriterType'
  <2>1. label \in Labels /\ shift' \in Slots /\ owner' \in Writers \cup {None}
    BY <1>t, <1>o DEF WriterType, Labels
  <2> QED
    BY <1>t, <1>o, <2>1, MoveKeeps
<1>6. ShiftInv'
  <2>1. label \in Labels /\ label # "shift"
    BY DEF Labels
  <2> QED
    BY <1>t, <1>o, <2>1, ShiftStays
<1>l. (logs \in 0..MaxLogs)'
  BY <1>t
<1> QED
  BY <1>1, <1>2, <1>3, <1>4, <1>5, <1>6, <1>l, TypeParts, PTL DEF IInv

LEMMA RemoveStep == ASSUME IInv, NEW w \in Writers, RemoveOldest(w) PROVE IInv'
<1>t. TypeOK /\ WriterType /\ DiskType /\ ScanType /\ logs \in 0..MaxLogs /\ ShiftInv /\ ReadInOrder
  BY TypeParts DEF IInv
<1>u. UNCHANGED <<written, owner, logs, left, got, due, scanning>>
  BY DEF RemoveOldest, scanner
<1>o. owner = w
  BY <1>t DEF WriterType, RemoveOldest
<1>0. files' = [files EXCEPT ![B] = <<>>] /\ gone' = gone \cup RecordsOf(B)
  BY DEF RemoveOldest, OldestBackup, B
<1>1. History' /\ AheadInv' /\ files' \in [Slots -> Seq(0..written')] /\ gone' \subseteq 1..written'
  BY <1>u, <1>0, RemoveKeeps
<1>2. DiskType' /\ ScanType' /\ ReadInOrder'
  BY <1>t, <1>u, <1>1 DEF DiskType, ScanType, ReadInOrder
<1>s. shift' = B - 1 /\ shift' \in Slots /\ shift' + 1 = B /\ shift' < B /\ B \in Slots
  <2>1. shift' = B - 1
    BY DEF RemoveOldest, OldestShifted, B
  <2> QED
    BY <2>1, SlotFacts
<1>g. Goto(w, "shift")
  BY DEF RemoveOldest
<1>3. WriterType'
  <2>1. "shift" \in Labels /\ owner' \in Writers \cup {None}
    BY <1>o, <1>u DEF Labels
  <2> QED
    BY <1>t, <1>o, <1>u, <1>s, <1>g, <2>1, MoveKeeps
<1>4. ShiftInv'
  <2>1. files'[B] = <<>>
    BY <1>0, <1>s, <1>t DEF DiskType
  <2> QED
    BY <2>1, <1>s DEF ShiftInv
<1>l. (logs \in 0..MaxLogs)'
  BY <1>t, <1>u
<1> QED
  BY <1>1, <1>2, <1>3, <1>4, <1>l, TypeParts, PTL DEF IInv

LEMMA ShiftStep == ASSUME IInv, NEW w \in Writers, Shift(w) PROVE IInv'
<1>t. TypeOK /\ WriterType /\ DiskType /\ ScanType /\ logs \in 0..MaxLogs /\ ShiftInv /\ ReadInOrder
  BY TypeParts DEF IInv
<1>u. UNCHANGED <<gone, written, logs, left, got, due, scanning>>
  BY DEF Shift, scanner
<1>o. owner = w /\ wpc[w] = "shift"
  BY <1>t DEF WriterType, Shift
<1>s. shift \in Nat /\ shift < B /\ files[shift + 1] = <<>>
  BY <1>o, <1>t, SlotFacts DEF ShiftInv, WriterType
<1>1. History' /\ AheadInv' /\ files' \in [Slots -> Seq(0..written')] /\ files'[shift] = <<>>
  <2>1. CASE files[shift] = <<>>
    <3>1. UNCHANGED files
      BY <2>1 DEF Shift
    <3>2. files' \in [Slots -> Seq(0..written')] /\ files'[shift] = <<>>
      BY <1>t, <1>u, <2>1, <3>1 DEF DiskType
    <3> QED
      BY <1>u, <3>1, <3>2, FilesStay
  <2>2. CASE files[shift] # <<>>
    <3>1. Rename(shift)
      BY <2>2 DEF Shift
    <3> QED
      BY <1>u, <1>s, <3>1, RenameKeeps
  <2> QED
    BY <2>1, <2>2
<1>2. DiskType' /\ ScanType' /\ ReadInOrder'
  BY <1>t, <1>u, <1>1 DEF DiskType, ScanType, ReadInOrder
<1>3. WriterType' /\ ShiftInv'
  <2>1. CASE shift > 0 /\ shift' = shift - 1 /\ UNCHANGED <<wpc, owner>>
    <3>1. shift' \in Slots /\ shift' + 1 = shift /\ shift' < B
      BY <1>s, <2>1, SlotFacts
    <3>2. WriterType'
      BY <1>t, <2>1, <3>1 DEF WriterType
    <3>3. ShiftInv'
      BY <1>1, <3>1 DEF ShiftInv
    <3> QED
      BY <3>2, <3>3
  <2>2. CASE shift = 0 /\ Release(w) /\ UNCHANGED shift
    <3>1. /\ Goto(w, "idle") /\ owner' = None /\ shift' \in Slots /\ "idle" \in Labels /\ "idle" # "shift"
      BY <1>t, <2>2 DEF Release, WriterType, Labels
    <3>2. WriterType'
      BY <1>t, <1>o, <3>1, MoveKeeps
    <3>3. ShiftInv'
      BY <1>t, <1>o, <2>2, <3>1, ShiftStays
    <3> QED
      BY <3>2, <3>3
  <2> QED
    BY <2>1, <2>2 DEF Shift
<1>l. (logs \in 0..MaxLogs)'
  BY <1>t, <1>u
<1> QED
  BY <1>1, <1>2, <1>3, <1>l, TypeParts, PTL DEF IInv

LEMMA WriterStep == ASSUME IInv, NEW w \in Writers, Writer(w) PROVE IInv'
<1>t. WriterType /\ written \in Nat
  BY TypeParts DEF IInv, DiskType
<1>1. CASE Log(w) \/ Waiting(w) \/ Measure(w) \/ RotationFails(w)
  BY <1>1, QuietStep DEF Waiting
<1>2. CASE AppendOne(w)
  <2>1. written + 1 \in {Torn, written + 1} /\ written + 1 # Torn
    BY <1>t DEF Torn
  <2>2. /\ files' = [files EXCEPT ![0] = Append(@, written + 1)]
        /\ written' = (IF written + 1 = Torn THEN written ELSE written + 1)
        /\ Goto(w, "rotate") /\ owner' = (IF "rotate" = "idle" THEN None ELSE owner)
        /\ wpc[w] = "append" /\ UNCHANGED <<shift, gone, logs, scanner>>
    BY <1>2, <2>1 DEF AppendOne
  <2> QED
    BY <2>1, <2>2, AppendStep
<1>3. CASE AppendFails(w)
  <2>1. CASE UNCHANGED files
    BY <1>3, <2>1, QuietStep
  <2>2. CASE files' = [files EXCEPT ![0] = Append(@, Torn)]
    <3>1. Goto(w, "idle") /\ owner' = None /\ wpc[w] = "append" /\ written' = written
          /\ UNCHANGED <<shift, gone, logs, scanner>>
      BY <1>3 DEF AppendFails, Release
    <3> QED
      BY <2>2, <3>1, AppendStep
  <2> QED
    BY <1>3, <2>1, <2>2 DEF AppendFails
<1>4. CASE RemoveOldest(w)
  BY <1>4, RemoveStep
<1>5. CASE Shift(w)
  BY <1>5, ShiftStep
<1>6. CASE Crash(w)
  <2>1. CASE UNCHANGED files
    BY <1>6, <2>1, QuietStep
  <2>2. CASE wpc[w] = "append" /\ files' = [files EXCEPT ![0] = Append(@, Torn)]
    <3>1. Goto(w, "idle") /\ owner' = None /\ written' = written
          /\ UNCHANGED <<shift, gone, logs, scanner>>
      BY <1>6, <1>t, <2>2 DEF Crash, WriterType
    <3> QED
      BY <2>2, <3>1, AppendStep
  <2> QED
    BY <1>6, <2>1, <2>2 DEF Crash
<1> QED
  BY <1>1, <1>2, <1>3, <1>4, <1>5, <1>6 DEF Writer

LEMMA InitHolds == Init => IInv
<1> SUFFICES ASSUME Init PROVE IInv
  OBVIOUS
<1>1. files = [i \in Slots |-> <<>>] /\ gone = {} /\ written = 0 /\ got = <<>>
  BY DEF Init
<1>2. WriterType /\ ShiftInv
  BY SlotFacts DEF Init, WriterType, ShiftInv, Labels
<1>3. DiskType
  BY <1>1, EmptySeq DEF DiskType
<1>4. ScanType /\ logs \in 0..MaxLogs
  <2>1. scanning \in BOOLEAN
    BY DEF Init
  <2>2. left \in 0..(B + 1) /\ due \subseteq 1..written /\ logs \in 0..MaxLogs
    BY SlotFacts, EventLogAssumption DEF Init
  <2>3. got \in Seq(Seq(0..written))
    BY <1>1, EmptySeq
  <2> QED
    BY <2>1, <2>2, <2>3 DEF ScanType
<1>5. \A i \in Slots : RecordsOf(i) = {} /\ files[i] = <<>>
  BY <1>1 DEF RecordsOf
<1>6. History
  BY <1>1, <1>5 DEF History, Complete, FilesInOrder, SlotsInOrder
<1>7. ReadInOrder /\ AheadInv
  BY <1>1 DEF ReadInOrder, AheadInv
<1> QED
  BY <1>2, <1>3, <1>4, <1>6, <1>7, TypeParts DEF IInv

LEMMA InvariantHolds == Spec => []IInv
<1>1. IInv /\ [Next]_vars => IInv'
  <2> SUFFICES ASSUME IInv, [Next]_vars PROVE IInv'
    OBVIOUS
  <2>1. CASE UNCHANGED vars
    <3>1. UNCHANGED <<files, gone, written, left, got>> /\ UNCHANGED <<owner, shift, wpc, logs, scanning, due>>
      BY <2>1 DEF vars, disk, scanner
    <3>2. History' /\ ReadInOrder' /\ AheadInv'
      BY <3>1, FilesStay
    <3>3. TypeOK' /\ ShiftInv'
      BY <3>1 DEF IInv, TypeOK, ShiftInv
    <3> QED
      BY <3>2, <3>3 DEF IInv
  <2> QED
    BY <2>1, ScannerStep, WriterStep DEF Next
<1> QED
  BY <1>1, InitHolds, PTL DEF Spec

\* The lines of every slot are records appended so far or torn, a writer past the
\* wait of EventLock::acquire owns the mutex, and the scan is within the slots.
THEOREM EventLogTypeCorrect == Spec => []TypeOK
<1>1. IInv => TypeOK
  BY DEF IInv
<1> QED
  BY <1>1, InvariantHolds, PTL

\* Append and rotation (append_one, maybe_rotate) neither lose, repeat nor reorder
\* a record, whatever fails and whoever dies between two of their steps.
THEOREM HistoryIntactAlways == Spec => []HistoryIntact
<1>1. IInv => HistoryIntact
  <2> SUFFICES ASSUME IInv PROVE HistoryIntact
    OBVIOUS
  <2>1. Complete /\ FilesInOrder /\ SlotsInOrder
    BY DEF IInv, History
  <2>2. gone \cup UNION {RecordsOf(i) : i \in Slots} = 1..written
    BY <2>1 DEF Complete
  <2> QED
    BY <2>1, <2>2 DEF HistoryIntact, Complete, FilesInOrder, SlotsInOrder
<1> QED
  BY <1>1, InvariantHolds, PTL

\* A scan without a lock (read_since, iter_log_paths) never shows a record twice,
\* however its reads fall between the renames of a rotation.
THEOREM ScanOnceAlways == Spec => []ScanOnce
<1>1. IInv => ScanOnce
  <2> SUFFICES ASSUME IInv, NEW a \in DOMAIN got, NEW b \in DOMAIN got,
                      NEW m \in DOMAIN got[a], NEW n \in DOMAIN got[b],
                      got[a][m] # Torn, got[a][m] = got[b][n]
               PROVE  a = b /\ m = n
    BY DEF ScanOnce
  <2>1. TypeOK /\ ReadInOrder
    BY DEF IInv
  <2>2. a \in Nat /\ b \in Nat /\ m \in Nat /\ n \in Nat /\ got[a][m] \in Nat
    <3>1. /\ Len(got) \in Nat /\ a \in 1..Len(got) /\ DOMAIN got[a] = 1..Len(got[a])
          /\ got[a] \in Seq(0..written) /\ got[a][m] \in 0..written
      BY <2>1, ReadFacts
    <3>2. b \in 1..Len(got) /\ DOMAIN got[b] = 1..Len(got[b]) /\ got[b] \in Seq(0..written)
      BY <2>1, ReadFacts
    <3>3. Len(got[a]) \in Nat /\ Len(got[b]) \in Nat
      BY <3>1, <3>2
    <3> QED
      BY <3>1, <3>2, <3>3
  <2>3. ~(got[a][m] < got[b][n]) /\ ~(got[b][n] < got[a][m])
    BY <2>2
  <2>4. ~(a < b) /\ ~(b < a)
    BY <2>1, <2>3 DEF ReadInOrder
  <2>5. a = b
    BY <2>2, <2>4
  <2>6. ~(m < n) /\ ~(n < m)
    BY <2>1, <2>3, <2>5 DEF ReadInOrder
  <2> QED
    BY <2>2, <2>5, <2>6
<1> QED
  BY <1>1, InvariantHolds, PTL
=============================================================================
