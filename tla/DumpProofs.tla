----------------------------- MODULE DumpProofs -----------------------------
(***************************************************************************)
(* roots.dump: who writes it, and that the file keeps the promise of       *)
(* RewatchSet across crashes and restarts.                                 *)
(***************************************************************************)
EXTENDS RootDump, FunctionTheorems, FiniteSetTheorems, SequenceTheorems, TLAPS

MainType ==
    [pc : {"down", "read", "dump", "write", "begin", "serve", "answer", "exit"},
     path : Path \union {NoPath},
     then : {"read", "begin", "serve", "answer", "exit"}]
ReaderType == [buf : Seq(Entry), pos : Nat, all : BOOLEAN]
WriterType == [by : Thread \union {Nobody, "main"}, order : Seq(Root), n : Nat]
WorkType   == [pc : {"idle", "work", "dump", "write"}, path : Path \union {NoPath}]

(* There are finitely many roots.                                          *)
LEMMA RootFinite == IsFiniteSet(Root)
<1> DEFINE K == {"rewatch", "zero"}
           f == [y \in Path \X K |-> [path |-> y[1], kind |-> y[2]]]
<1>1. IsFiniteSet(K)
  <2>1. IsFiniteSet({"rewatch"} \union {"zero"})
    BY FS_Singleton, FS_Union
  <2>2. {"rewatch"} \union {"zero"} = K
    OBVIOUS
  <2> QED
    BY <2>1, <2>2
<1>2. IsFiniteSet(Path \X K)
  BY <1>1, FS_Product, DumpAssumptions
<1>3. f \in Surjection(Path \X K, Root)
  <2>1. f \in [Path \X K -> Root]
    BY DEF Root
  <2>2. \A x \in Root : \E y \in Path \X K : f[y] = x
    <3> SUFFICES ASSUME NEW x \in Root PROVE \E y \in Path \X K : f[y] = x
      OBVIOUS
    <3>1. <<x.path, x.kind>> \in Path \X K /\ f[<<x.path, x.kind>>] = x
      BY DEF Root
    <3> QED
      BY <3>1
  <2> QED
    BY <2>1, <2>2 DEF Surjection
<1> QED
  BY <1>2, <1>3, FS_Surjection

(* The order in which the roots are written is a sequence of them.         *)
LEMMA OrdersAre ==
    ASSUME NEW S \in SUBSET Root, NEW s \in Orders(S)
    PROVE  /\ s \in Seq(Root) /\ Len(s) = Cardinality(S) /\ Cardinality(S) \in Nat
           /\ \A i \in 1 .. Len(s) : s[i] \in S
           /\ \A i, j \in 1 .. Len(s) : s[i] = s[j] => i = j
<1>1. IsFiniteSet(S) /\ Cardinality(S) \in Nat
  BY RootFinite, FS_Subset, FS_CardinalityType
<1> PICK n \in Nat : n = Cardinality(S)
  BY <1>1
<1>2. s \in [1 .. n -> S] /\ \A i, j \in 1 .. n : s[i] = s[j] => i = j
  BY DEF Orders
<1>3. s \in [1 .. n -> Root]
  BY <1>2
<1>4. s \in Seq(Root) /\ Len(s) = n
  BY <1>3, SeqDef, LenProperties
<1> QED
  BY <1>1, <1>2, <1>4

(* The first n roots as they are written.                                  *)
LEMMA WrittenIs ==
    ASSUME NEW s \in Seq(Root), NEW n \in Nat, n <= Len(s)
    PROVE  /\ Written(s, n) \in Seq(Entry) /\ Len(Written(s, n)) = n
           /\ \A i \in 1 .. n : Written(s, n)[i] = Whole(s[i])
<1>1. \A i \in 1 .. n : s[i] \in Root
  BY ElementOfSeq
<1>2. \A i \in 1 .. n : Whole(s[i]) \in Entry
  BY <1>1 DEF Whole, Entry
<1>3. Written(s, n) \in [1 .. n -> Entry]
  BY <1>2 DEF Written
<1> QED
  BY <1>3, SeqDef, LenProperties DEF Written

(* What is left of an entry that is cut off.                               *)
LEMMA CutIs ==
    ASSUME NEW e \in Entry
    PROVE  Cut(e) \in Entry /\ Cut(e).root = e.root /\ Cut(e).cut = TRUE
  BY DEF Cut, Entry

(* What the file holds after WriteOut(t).                                  *)
LEMMA WriteOutIs ==
    ASSUME DumpTypeOK, NEW t, WriteOut(t)
    PROVE  \E n \in Nat :
             /\ n <= Len(writer.order) /\ writer.n <= n
             /\ file' \in Seq(Entry)
             /\ \A i \in DOMAIN file' : i \in DOMAIN writer.order
                                        /\ file'[i].root = writer.order[i]
                                        /\ (file'[i].cut => i > BufLines)
             /\ n = Len(writer.order) => file' = Written(writer.order, n) /\ writer' = Idle
             /\ n # Len(writer.order) => writer' = [writer EXCEPT !.n = n]
<1> PICK s \in Seq(Root) : s = writer.order
  BY DEF DumpTypeOK
<1>1. writer.n \in Nat /\ writer.n <= Len(s) /\ BufLines \in Nat /\ Len(s) \in Nat
  BY DumpAssumptions DEF DumpTypeOK
<1> DEFINE k == IF writer.n + BufLines < Len(s) THEN writer.n + BufLines ELSE Len(s)
<1> PICK n \in Nat : n = k
  BY <1>1
<1>2. n <= Len(s) /\ writer.n <= n /\ (n < Len(s) => n >= BufLines)
  BY <1>1
<1> DEFINE w == Written(s, n)
<1>3. w \in Seq(Entry) /\ Len(w) = n /\ \A i \in 1 .. n : w[i].root = s[i] /\ ~w[i].cut
  <2>1. w \in Seq(Entry) /\ Len(w) = n /\ \A i \in 1 .. n : w[i] = Whole(s[i])
    BY <1>2, WrittenIs
  <2>2. \A i \in 1 .. n : Whole(s[i]).root = s[i] /\ ~Whole(s[i]).cut
    BY DEF Whole
  <2> QED
    BY <2>1, <2>2
<1>4. /\ \/ file' = w
         \/ n < Len(s) /\ file' = Append(w, Cut(Whole(s[n + 1])))
      /\ writer' = IF n = Len(s) THEN Idle ELSE [writer EXCEPT !.n = n]
  BY DEF WriteOut
<1> HIDE DEF w, k
<1>5. DOMAIN s = 1 .. Len(s)
  OBVIOUS
<1>6. CASE file' = w
  <2>1. DOMAIN w = 1 .. n /\ \A i \in 1 .. n : i \in 1 .. Len(s)
    BY <1>1, <1>2, <1>3
  <2>2. \A i \in DOMAIN file' : i \in DOMAIN s /\ file'[i].root = s[i]
                                 /\ (file'[i].cut => i > BufLines)
    BY <1>3, <1>5, <1>6, <2>1
  <2> QED
    BY <1>2, <1>3, <1>4, <1>6, <2>2 DEF w
<1>7. CASE n < Len(s) /\ file' = Append(w, Cut(Whole(s[n + 1])))
  <2>1. n + 1 \in 1 .. Len(s) /\ s[n + 1] \in Root
    BY <1>1, <1>7, ElementOfSeq
  <2>2. Whole(s[n + 1]) \in Entry /\ Whole(s[n + 1]).root = s[n + 1]
    BY <2>1 DEF Whole, Entry
  <2> PICK e \in Entry : e = Cut(Whole(s[n + 1])) /\ e.root = s[n + 1]
    BY <2>2, CutIs
  <2>3. /\ Append(w, e) \in Seq(Entry) /\ Len(Append(w, e)) = n + 1
        /\ Append(w, e)[n + 1] = e /\ \A i \in 1 .. n : Append(w, e)[i] = w[i]
    BY <1>3, AppendProperties
  <2>4. DOMAIN Append(w, e) = 1 .. n + 1
    BY <2>3
  <2>5. /\ \A i \in 1 .. n + 1 : i \in 1 .. Len(s) /\ (i \in 1 .. n \/ i = n + 1)
        /\ n + 1 > BufLines
    BY <1>1, <1>2, <1>7
  <2>6. \A i \in DOMAIN file' : i \in DOMAIN s /\ file'[i].root = s[i]
                                 /\ (file'[i].cut => i > BufLines)
    BY <1>3, <1>5, <1>7, <2>3, <2>4, <2>5
  <2>7. n # Len(s) /\ writer' = [writer EXCEPT !.n = n] /\ file' \in Seq(Entry)
    BY <1>1, <1>4, <1>7, <2>3
  <2> QED
    BY <1>2, <2>6, <2>7
<1> QED
  BY <1>4, <1>6, <1>7

(* The part of the file that is not read yet, and what a buffer takes.     *)
LEMMA BufferedIs ==
    ASSUME NEW s \in Seq(Entry), NEW b \in Buffered(s)
    PROVE  /\ b \in Seq(Entry)
           /\ \A i \in DOMAIN b : i \in DOMAIN s /\ b[i].root = s[i].root
           /\ \A i \in 1 .. BufLines : i \in DOMAIN s => i \in DOMAIN b /\ b[i] = s[i]
           /\ Len(s) <= BufLines => b = s
<1>0. BufLines \in Nat \ {0} /\ Len(s) \in Nat /\ DOMAIN s = 1 .. Len(s)
  BY DumpAssumptions
<1>1. CASE Len(s) <= BufLines
  BY <1>0, <1>1 DEF Buffered
<1>2. CASE ~(Len(s) <= BufLines)
  <2>1. \A i \in 1 .. BufLines : s[i] \in Entry /\ i \in 1 .. Len(s)
    BY <1>0, <1>2, ElementOfSeq
  <2> PICK w : w = SubSeq(s, 1, BufLines)
    OBVIOUS
  <2>2. w \in Seq(Entry) /\ Len(w) = BufLines /\ \A i \in 1 .. BufLines : w[i] = s[i]
    BY <1>0, <2>1, SubSeqProperties
  <2>3. DOMAIN w = 1 .. BufLines
    BY <2>2
  <2>4. CASE b = w
    BY <1>0, <1>2, <2>1, <2>2, <2>3, <2>4
  <2>5. CASE b = Append(w, Cut(s[BufLines + 1]))
    <3>1. s[BufLines + 1] \in Entry /\ BufLines + 1 \in 1 .. Len(s)
      BY <1>0, <1>2, ElementOfSeq
    <3> PICK e \in Entry : e = Cut(s[BufLines + 1]) /\ e.root = s[BufLines + 1].root
      BY <3>1, CutIs
    <3>2. /\ Append(w, e) \in Seq(Entry) /\ Len(Append(w, e)) = BufLines + 1
          /\ Append(w, e)[BufLines + 1] = e
          /\ \A i \in 1 .. BufLines : Append(w, e)[i] = w[i]
      BY <2>2, AppendProperties
    <3>3. DOMAIN Append(w, e) = 1 .. BufLines + 1
      BY <1>0, <3>2
    <3>4. \A i \in 1 .. BufLines + 1 : i \in 1 .. BufLines \/ i = BufLines + 1
      BY <1>0
    <3>5. \A i \in 1 .. BufLines : i \in 1 .. BufLines + 1
      BY <1>0
    <3> QED
      BY <1>0, <1>2, <2>1, <2>2, <2>5, <3>1, <3>2, <3>3, <3>4, <3>5
  <2> QED
    BY <1>2, <2>4, <2>5 DEF Buffered
<1> QED
  BY <1>1, <1>2

-----------------------------------------------------------------------------
(* Type correctness, and the mutex that guards the file.                   *)

(* The unread part of the file is a sequence of entries.                   *)
LEMMA UnreadIs ==
    ASSUME DumpTypeOK
    PROVE  Unread \in Seq(Entry)
<1> PICK s \in Seq(Entry) : s = file
  BY DEF DumpTypeOK
<1> PICK k \in Nat : k = reader.pos
  BY DEF DumpTypeOK
<1>1. \A i \in k + 1 .. Len(s) : s[i] \in Entry
  BY ElementOfSeq
<1> QED
  BY <1>1, SubSeqProperties DEF Unread

(* inotify_dump_roots() begins.                                            *)
LEMMA TruncateTypes ==
    ASSUME NEW t \in Thread \union {"main"}, Truncate(t)
    PROVE  /\ file' \in Seq(Entry) /\ writer' \in WriterType
           /\ writer.by = Nobody /\ writer'.by = t /\ writer'.n = 0
           /\ writer'.order \in Orders(DumpedRoots)
           /\ writer'.n <= Len(writer'.order)
<1>1. PICK s \in Orders(DumpedRoots) : writer' = [by |-> t, order |-> s, n |-> 0]
  BY DEF Truncate
<1>2. DumpedRoots \in SUBSET Root
  BY DEF DumpedRoots
<1>3. s \in Seq(Root) /\ Len(s) \in Nat
  BY <1>2, OrdersAre
<1>4. file' = <<>> /\ writer.by = Nobody
  BY DEF Truncate
<1>5. <<>> \in Seq(Entry)
  OBVIOUS
<1> QED
  BY <1>1, <1>3, <1>4, <1>5 DEF WriterType

(* It goes on or ends.                                                     *)
LEMMA WriteOutTypes ==
    ASSUME DumpTypeOK, NEW t \in Thread \union {"main"}, WriteOut(t)
    PROVE  /\ file' \in Seq(Entry) /\ writer' \in WriterType
           /\ writer'.n <= Len(writer'.order) /\ writer.by = t
           /\ writer' = Idle \/ writer'.by = t
<1>1. PICK n \in Nat :
             /\ n <= Len(writer.order) /\ file' \in Seq(Entry)
             /\ n = Len(writer.order) => writer' = Idle
             /\ n # Len(writer.order) => writer' = [writer EXCEPT !.n = n]
  BY WriteOutIs
<1>2. writer \in WriterType /\ writer.by = t
  BY DEF DumpTypeOK, WriterType, WriteOut
<1>3. Idle \in WriterType /\ Idle.n <= Len(Idle.order)
  BY DEF Idle, WriterType
<1>4. CASE writer' = Idle
  BY <1>1, <1>2, <1>3, <1>4
<1>5. CASE writer' = [writer EXCEPT !.n = n]
  BY <1>1, <1>2, <1>5 DEF WriterType
<1> QED
  BY <1>1, <1>4, <1>5

(* The end of the process.                                                 *)
LEMMA ExitTypes ==
    ASSUME Exit
    PROVE  /\ main' \in MainType /\ reader' \in ReaderType /\ writer' \in WriterType
           /\ writer'.n <= Len(writer'.order)
           /\ inotify_roots' \in [Path -> {"none", "plain", "rewatch", "zero"}]
           /\ destroyer' \in [Thread -> WorkType]
           /\ main'.pc = "down" /\ writer'.by = Nobody
           /\ \A t \in Thread : destroyer'[t].pc = "idle"
<1>1. main' \in MainType /\ main'.pc = "down"
  BY DEF Exit, At, MainType
<1>2. reader' \in ReaderType
  <2>1. <<>> \in Seq(Entry) /\ TRUE \in BOOLEAN /\ 0 \in Nat
    OBVIOUS
  <2> QED
    BY <2>1, Zenon DEF Exit, NoReader, ReaderType
<1>3. writer' \in WriterType /\ writer'.n <= Len(writer'.order) /\ writer'.by = Nobody
  BY DEF Exit, Idle, WriterType
<1>4. destroyer' \in [Thread -> WorkType] /\ \A t \in Thread : destroyer'[t].pc = "idle"
  BY DEF Exit, NoThreads, WorkType
<1>5. inotify_roots' \in [Path -> {"none", "plain", "rewatch", "zero"}]
  BY DEF Exit
<1> QED
  BY <1>1, <1>2, <1>3, <1>4, <1>5

(* The conjuncts of DumpTypeOK under the names used here.                  *)
LEMMA TypesAre ==
    DumpTypeOK <=>
        /\ file \in Seq(Entry) /\ dirs \in SUBSET Path
        /\ inotify_roots \in [Path -> {"none", "plain", "rewatch", "zero"}]
        /\ main \in MainType /\ reader \in ReaderType
        /\ writer \in WriterType /\ writer.n <= Len(writer.order)
        /\ destroyer \in [Thread -> WorkType]
        /\ main.pc = "write" <=> writer.by = "main"
        /\ \A t \in Thread : destroyer[t].pc = "write" <=> writer.by = t
        /\ calls \in 0 .. MaxCalls /\ downs \in 0 .. MaxDowns /\ fsOps \in 0 .. MaxFsOps
  BY DEF DumpTypeOK, Kinds, MainType, ReaderType, WriterType, WorkType

(* Every step keeps the state well formed, with one writer at a time.      *)
LEMMA StepTypes ==
    ASSUME DumpTypeOK, [DumpNext]_dumpVars
    PROVE  DumpTypeOK'
<1> DEFINE Types(f, d, r, m, b, w, x) ==
             /\ f \in Seq(Entry) /\ d \in SUBSET Path
             /\ r \in [Path -> {"none", "plain", "rewatch", "zero"}]
             /\ m \in MainType /\ b \in ReaderType
             /\ w \in WriterType /\ w.n <= Len(w.order)
             /\ x \in [Thread -> WorkType]
             /\ m.pc = "write" <=> w.by = "main"
             /\ \A t \in Thread : x[t].pc = "write" <=> w.by = t
<1>0. /\ Types(file, dirs, inotify_roots, main, reader, writer, destroyer)
      /\ calls \in 0 .. MaxCalls /\ downs \in 0 .. MaxDowns /\ fsOps \in 0 .. MaxFsOps
  BY TypesAre
<1>1. /\ Types(file', dirs', inotify_roots', main', reader', writer', destroyer')
      /\ calls' \in 0 .. MaxCalls /\ downs' \in 0 .. MaxDowns /\ fsOps' \in 0 .. MaxFsOps
      => DumpTypeOK'
  BY DEF DumpTypeOK, Kinds, MainType, ReaderType, WriterType, WorkType
<1>2. /\ MaxCalls \in Nat /\ MaxDowns \in Nat /\ MaxFsOps \in Nat /\ NoPath \notin Path
      /\ Nobody \notin Thread /\ "main" \notin Thread /\ Nobody # "main"
  BY DumpAssumptions DEF Nobody
<1>4. ASSUME UNCHANGED <<file, dirs, inotify_roots, writer, destroyer, boundVars>>,
             main' \in MainType, main'.pc # "write", main.pc # "write", reader' \in ReaderType
      PROVE  DumpTypeOK'
  BY <1>0, <1>1, <1>4 DEF boundVars
<1>5. /\ \A pc \in {"down", "read", "dump", "serve"} : At(pc) \in MainType /\ At(pc).pc = pc
      /\ NoReader \in ReaderType
  <2>1. \A pc \in {"down", "read", "dump", "serve"} : At(pc) \in MainType /\ At(pc).pc = pc
    BY DEF At, MainType
  <2>2. <<>> \in Seq(Entry) /\ TRUE \in BOOLEAN /\ 0 \in Nat
    OBVIOUS
  <2> QED
    BY <2>1, <2>2, Zenon DEF NoReader, ReaderType
<1>6. CASE Start
  <2>1. main' = At("read") /\ reader' = [NoReader EXCEPT !.all = (Len(file) <= BufLines)]
    BY <1>6 DEF Start
  <2>2. (Len(file) <= BufLines) \in BOOLEAN
    OBVIOUS
  <2>3. \A x \in BOOLEAN : [NoReader EXCEPT !.all = x] \in ReaderType
    BY <1>5, Zenon DEF ReaderType
  <2> QED
    BY <1>4, <1>5, <1>6, <2>1, <2>2, <2>3 DEF Start
<1>7. CASE FillBuffer
  <2>1. PICK b \in Buffered(Unread) : reader' = [reader EXCEPT !.buf = b,
            !.pos = @ + IF Len(Unread) < BufLines THEN Len(Unread) ELSE BufLines]
    BY <1>7 DEF FillBuffer
  <2>2. b \in Seq(Entry) /\ Len(Unread) \in Nat /\ BufLines \in Nat
    BY UnreadIs, BufferedIs, DumpAssumptions
  <2> PICK k \in Nat : k = IF Len(Unread) < BufLines THEN Len(Unread) ELSE BufLines
    BY <2>2
  <2>3. reader' \in ReaderType
    <3>1. reader' = [reader EXCEPT !.buf = b, !.pos = reader.pos + k]
      BY <1>0, <2>1 DEF ReaderType
    <3>2. reader.pos + k \in Nat
      BY <1>0 DEF ReaderType
    <3> QED
      BY <1>0, <2>2, <3>1, <3>2 DEF ReaderType
  <2> QED
    BY <1>0, <1>4, <1>7, <2>3 DEF FillBuffer
<1>8. ASSUME NEW p \in Path, Rewatch(p), main.pc = "read", reader.buf # <<>>,
             UNCHANGED <<file, dirs, writer, destroyer, boundVars>>
      PROVE  DumpTypeOK'
  <2>1. reader' \in ReaderType
    <3>1. Tail(reader.buf) \in Seq(Entry)
      BY <1>0, <1>8, HeadTailProperties DEF ReaderType
    <3> QED
      BY <1>0, <1>8, <3>1 DEF Rewatch, ReaderType
  <2>2. /\ inotify_roots' \in [Path -> {"none", "plain", "rewatch", "zero"}]
        /\ main' \in MainType /\ main'.pc # "write"
    BY <1>0, <1>8 DEF Rewatch, MainType
  <2> QED
    BY <1>0, <1>1, <1>8, <2>1, <2>2 DEF boundVars
<1>9. ASSUME reader.buf # <<>> PROVE Head(reader.buf).root.path \in Path
  <2>1. reader.buf \in Seq(Entry)
    BY <1>0 DEF ReaderType
  <2>2. Head(reader.buf) \in Entry
    BY <1>9, <2>1, HeadTailProperties
  <2> QED
    BY <2>2 DEF Entry, Root
<1>9a. ASSUME SkipEntry, main.pc = "read", reader.buf # <<>>,
              UNCHANGED <<file, dirs, writer, destroyer, boundVars>>
       PROVE  DumpTypeOK'
  <2>1. Tail(reader.buf) \in Seq(Entry)
    BY <1>0, <1>9a, HeadTailProperties DEF ReaderType
  <2>2. reader' \in ReaderType
    BY <1>0, <1>9a, <2>1 DEF SkipEntry, ReaderType
  <2> QED
    BY <1>0, <1>4, <1>9a, <2>2 DEF SkipEntry
<1>10. CASE ReadEntry
  BY <1>8, <1>9, <1>10, <1>9a DEF ReadEntry, WholeEntryRead
<1>11. ASSUME Die PROVE DumpTypeOK'
  BY <1>0, <1>1, <1>2, <1>11, ExitTypes DEF Die
<1>12. CASE ReadCutEntry
  BY <1>8, <1>9, <1>11, <1>12, <1>9a DEF ReadCutEntry
<1>13. CASE SetupDone
  <2>1. [At("dump") EXCEPT !.then = "begin"] \in MainType
        /\ [At("dump") EXCEPT !.then = "begin"].pc = "dump"
    BY DEF At, MainType
  <2> QED
    BY <1>0, <1>4, <1>13, <2>1 DEF SetupDone
<1>14. CASE EnterLoop \/ Answer
  BY <1>0, <1>4, <1>5, <1>14 DEF EnterLoop, Answer
<1>15. CASE MainTruncate
  <2>1. main' = [main EXCEPT !.pc = "write"]
    BY <1>15 DEF MainTruncate
  <2>2. main' \in MainType /\ main'.pc = "write"
    BY <1>0, <2>1 DEF MainType
  <2>3. /\ file' \in Seq(Entry) /\ writer' \in WriterType /\ writer'.by = "main"
        /\ writer'.n <= Len(writer'.order) /\ writer.by = Nobody
    BY <1>15, TruncateTypes DEF MainTruncate
  <2> QED
    BY <1>0, <1>1, <1>2, <1>15, <2>2, <2>3 DEF MainTruncate, boundVars
<1>16. CASE MainWriteOut
  <2>1. /\ file' \in Seq(Entry) /\ writer' \in WriterType /\ writer.by = "main"
        /\ writer'.n <= Len(writer'.order) /\ (writer' = Idle \/ writer'.by = "main")
    BY <1>16, WriteOutTypes DEF MainWriteOut
  <2>2. CASE writer'.by = Nobody
    <3>1. main' = [main EXCEPT !.pc = main.then]
      BY <1>16, <2>2 DEF MainWriteOut, WriteDone
    <3>2. main' \in MainType /\ main'.pc # "write"
      BY <1>0, <3>1 DEF MainType
    <3> QED
      BY <1>0, <1>1, <1>2, <1>16, <2>1, <2>2, <3>2 DEF MainWriteOut, boundVars
  <2>3. CASE writer'.by = "main"
    <3>1. main' = main
      BY <1>2, <1>16, <2>3 DEF MainWriteOut, WriteDone
    <3> QED
      BY <1>0, <1>1, <1>2, <1>16, <2>1, <2>3, <3>1 DEF MainWriteOut, boundVars
  <2> QED
    BY <2>1, <2>2, <2>3 DEF Idle
<1>17. ASSUME NEW p \in Path, NEW kind \in {"plain", "rewatch", "zero"}, WatchTree(p, kind)
       PROVE  DumpTypeOK'
  <2>1. main' = [pc |-> "dump", path |-> p, then |-> "answer"] /\ main.pc = "serve"
        /\ calls' \in 0 .. MaxCalls
    BY <1>0, <1>2, <1>17 DEF WatchTree, Call
  <2>2. main' \in MainType /\ main'.pc = "dump"
    BY <2>1 DEF MainType
  <2>3. inotify_roots' \in [Path -> {"none", "plain", "rewatch", "zero"}]
    BY <1>0, <1>17 DEF WatchTree
  <2> QED
    BY <1>0, <1>1, <1>17, <2>1, <2>2, <2>3 DEF WatchTree
<1>18. ASSUME NEW t \in Thread, NEW x \in WorkType, x.pc = "write" <=> destroyer[t].pc = "write",
              destroyer' = [destroyer EXCEPT ![t] = x],
              inotify_roots' \in [Path -> {"none", "plain", "rewatch", "zero"}],
              calls' \in 0 .. MaxCalls,
              UNCHANGED <<file, dirs, main, reader, writer, downs, fsOps>>
       PROVE  DumpTypeOK'
  <2>1. destroyer' \in [Thread -> WorkType]
    BY <1>0, <1>18
  <2>2. \A u \in Thread : destroyer'[u].pc = "write" <=> destroyer[u].pc = "write"
    BY <1>0, <1>18
  <2> QED
    BY <1>0, <1>1, <1>18, <2>1, <2>2
<1>19. ASSUME NEW p \in Path, UnwatchTree(p) PROVE DumpTypeOK'
  <2>1. PICK t \in Thread : destroyer[t].pc = "idle"
                            /\ destroyer' = [destroyer EXCEPT ![t] = [pc |-> "work", path |-> p]]
    BY <1>19 DEF UnwatchTree
  <2> PICK x : x = [pc |-> "work", path |-> p]
    OBVIOUS
  <2>0. x \in WorkType /\ x.pc = "work"
    BY DEF WorkType
  <2>2. calls' \in 0 .. MaxCalls
    BY <1>0, <1>2, <1>19 DEF UnwatchTree, Call
  <2> QED
    BY <1>0, <1>18, <1>19, <2>0, <2>1, <2>2 DEF UnwatchTree
<1>20. ASSUME NEW t \in Thread, DestroyRoot(t) PROVE DumpTypeOK'
  <2> PICK x : x = [destroyer[t] EXCEPT !.pc = "dump"]
    OBVIOUS
  <2>0. x \in WorkType /\ x.pc = "dump"
    BY <1>0 DEF WorkType
  <2>1. destroyer' = [destroyer EXCEPT ![t] = x] /\ destroyer[t].pc = "work"
    BY <1>20 DEF DestroyRoot
  <2>2. inotify_roots' \in [Path -> {"none", "plain", "rewatch", "zero"}]
    BY <1>0, <1>20 DEF DestroyRoot
  <2> QED
    BY <1>0, <1>18, <1>20, <2>0, <2>1, <2>2 DEF DestroyRoot, boundVars
<1>21. ASSUME NEW t \in Thread, DestroyTruncate(t) PROVE DumpTypeOK'
  <2> PICK x : x = [destroyer[t] EXCEPT !.pc = "write"]
    OBVIOUS
  <2>0. x \in WorkType /\ x.pc = "write"
    BY <1>0 DEF WorkType
  <2>1. destroyer' = [destroyer EXCEPT ![t] = x] /\ destroyer[t].pc = "dump"
    BY <1>21 DEF DestroyTruncate
  <2>2. /\ file' \in Seq(Entry) /\ writer' \in WriterType /\ writer'.by = t
        /\ writer'.n <= Len(writer'.order) /\ writer.by = Nobody
    BY <1>21, TruncateTypes DEF DestroyTruncate
  <2>3. destroyer' \in [Thread -> WorkType] /\ main.pc # "write" /\ t # "main"
    BY <1>0, <1>2, <2>0, <2>1, <2>2
  <2>4. \A u \in Thread : destroyer'[u].pc = "write" <=> writer'.by = u
    BY <1>0, <1>2, <2>0, <2>1, <2>2
  <2> QED
    BY <1>0, <1>1, <1>21, <2>2, <2>3, <2>4 DEF DestroyTruncate, boundVars
<1>22. ASSUME NEW t \in Thread, DestroyWriteOut(t) PROVE DumpTypeOK'
  <2>1. /\ file' \in Seq(Entry) /\ writer' \in WriterType /\ writer.by = t
        /\ writer'.n <= Len(writer'.order) /\ (writer' = Idle \/ writer'.by = t)
    BY <1>22, WriteOutTypes DEF DestroyWriteOut
  <2>2. CASE writer'.by = Nobody
    <3> PICK x : x = NoThreads[t]
      OBVIOUS
    <3>0. x \in WorkType /\ x.pc = "idle"
      BY DEF WorkType, NoThreads
    <3>1. destroyer' = [destroyer EXCEPT ![t] = x]
      BY <1>22, <2>2 DEF DestroyWriteOut, WriteDone
    <3>2. destroyer' \in [Thread -> WorkType] /\ main.pc # "write"
      BY <1>0, <1>2, <2>1, <3>0, <3>1
    <3>3. \A u \in Thread : destroyer'[u].pc = "write" <=> writer'.by = u
      BY <1>0, <1>2, <2>1, <2>2, <3>0, <3>1
    <3> QED
      BY <1>0, <1>1, <1>2, <1>22, <2>1, <2>2, <3>2, <3>3 DEF DestroyWriteOut, boundVars
  <2>3. CASE writer'.by = t
    <3>1. destroyer' = destroyer
      BY <1>2, <1>22, <2>3 DEF DestroyWriteOut, WriteDone
    <3> QED
      BY <1>0, <1>1, <1>2, <1>22, <2>1, <2>3, <3>1 DEF DestroyWriteOut, boundVars
  <2> QED
    BY <2>1, <2>2, <2>3 DEF Idle
<1>23. CASE Alarm
  BY <1>0, <1>1, <1>2, <1>5, <1>23 DEF Alarm, Call
<1>24. CASE Stop
  <2>1. [At("dump") EXCEPT !.then = "exit"] \in MainType
        /\ [At("dump") EXCEPT !.then = "exit"].pc = "dump"
    BY DEF At, MainType
  <2> QED
    BY <1>0, <1>1, <1>2, <1>24, <2>1 DEF Stop
<1>25. CASE StopExit
  BY <1>0, <1>1, <1>2, <1>25, ExitTypes DEF StopExit, boundVars
<1>26. CASE Crash
  BY <1>11, <1>26 DEF Crash
<1>27. CASE ChangeDirs
  BY <1>0, <1>1, <1>2, <1>27 DEF ChangeDirs
<1>28. CASE UNCHANGED dumpVars
  BY <1>28 DEF dumpVars, DumpTypeOK
<1> QED
  BY <1>6, <1>7, <1>10, <1>12, <1>13, <1>14, <1>15, <1>16, <1>17, <1>19, <1>20, <1>21,
     <1>22, <1>23, <1>24, <1>25, <1>26, <1>27, <1>28 DEF DumpNext, Kinds

(* The state of roots.dump is well formed, and at any moment at most one   *)
(* thread is inside inotify_dump_roots(), the one that holds the mutex,    *)
(* for any set of roots, threads, calls, crashes and restarts.             *)
THEOREM DumpTypeCorrect == DumpSpec => []DumpTypeOK
<1>1. DumpInit => DumpTypeOK
  <2> SUFFICES ASSUME DumpInit PROVE DumpTypeOK
    OBVIOUS
  <2>1. <<>> \in Seq(Entry) /\ TRUE \in BOOLEAN /\ 0 \in Nat
    OBVIOUS
  <2>2. reader \in ReaderType
    BY <2>1, Zenon DEF DumpInit, NoReader, ReaderType
  <2>3. main \in MainType /\ main.pc = "down"
    BY DEF DumpInit, At, MainType
  <2>4. writer \in WriterType /\ writer.by = Nobody /\ writer.n <= Len(writer.order)
    BY DEF DumpInit, Idle, WriterType
  <2>5. destroyer \in [Thread -> WorkType] /\ \A t \in Thread : destroyer[t].pc = "idle"
    BY DEF DumpInit, NoThreads, WorkType
  <2>6. Nobody \notin Thread /\ Nobody # "main"
    BY DumpAssumptions DEF Nobody
  <2> QED
    BY <2>1, <2>2, <2>3, <2>4, <2>5, <2>6, DumpAssumptions, TypesAre DEF DumpInit
<1>2. DumpTypeOK /\ [DumpNext]_dumpVars => DumpTypeOK'
  BY StepTypes
<1> QED
  BY <1>1, <1>2, PTL DEF DumpSpec

-----------------------------------------------------------------------------
(* The promise of RewatchSet.                                              *)

OrderSet == {writer.order[i] : i \in DOMAIN writer.order}

(* Where main() can be, and what is left when the process has ended.       *)
Places ==
    /\ main.pc \in {"begin", "serve", "answer", "exit"} => main.then = main.pc
    /\ main.pc = "read" => main.then \in {"serve", "read"}
    /\ main.pc = "down" => /\ main.then = "serve" /\ reader = NoReader
                           /\ \A p \in Path : inotify_roots[p] = "none"
    /\ Phase # "up" => \A t \in Thread : destroyer[t].pc = "idle"
    /\ Lasting \subseteq dirs

(* The threads that destroy roots destroy different ones, and none that is *)
(* still to be answered for.                                               *)
Workers ==
    \A t \in Thread : destroyer[t].pc = "work" =>
        /\ destroyer[t].path \in Path /\ inotify_roots[destroyer[t].path] # "none"
        /\ main.then = "answer" => destroyer[t].path # main.path
        /\ \A u \in Thread : destroyer[u].pc = "work" /\ destroyer[u].path = destroyer[t].path
                                => u = t

(* The file has no root twice, and what a buffer takes of it is whole.     *)
(* While it is written the roots stay, and what is in it so far is a part  *)
(* of them.                                                                *)
WrittenSoFar ==
    /\ \A i, j \in DOMAIN file : file[i].root = file[j].root => i = j
    /\ \A i \in DOMAIN file : file[i].cut => i > BufLines
    /\ writer.by # Nobody =>
         /\ \A i, j \in DOMAIN writer.order : writer.order[i] = writer.order[j] => i = j
         /\ Len(writer.order) = Cardinality(RewatchRoots)
         /\ OrderSet = RewatchRoots
         /\ RootsOf(file) \subseteq OrderSet

(* The roots that a start that fits in the buffer finds again.             *)
LastingRoots == {x \in Root : x.path \in Lasting /\ x.kind = "rewatch"}

(* A start that fits in the buffer finds everything in its first read, and *)
(* no entry of it is cut.                                                  *)
Starts ==
    Phase = "starting" =>
        /\ \A p \in Path : inotify_roots[p] \in {"none", "rewatch"}
        /\ reader.all => \A i \in DOMAIN reader.buf : ~reader.buf[i].cut
        /\ main.then = "begin" => reader.buf = <<>>
        /\ main.pc = "begin" => RootsOf(file) = RewatchRoots
        /\ reader.all /\ reader.pos = 0 =>
             /\ reader.buf = <<>> /\ RewatchRoots = {} /\ Len(file) <= BufLines
             /\ main.pc = "read" \/ file = <<>>
        /\ reader.all /\ reader.pos # 0 =>
             /\ Len(file) <= reader.pos
             /\ Cardinality(RewatchRoots) + Len(reader.buf) <= reader.pos
             /\ LastingRoots \intersect RootsOf(file) \subseteq
                    RewatchRoots \union RootsOf(reader.buf)

(* A watch is answered when its root is in the file.                       *)
Answered ==
    /\ main.pc = "answer" /\ writer.by = Nobody /\ Asked \in RewatchRoots
    => Asked \in RootsOf(file)

KeepInv == Places /\ Workers /\ WrittenSoFar /\ Starts /\ Answered

(* An order of the roots names every one of them.                          *)
LEMMA OrderNamesAll ==
    ASSUME NEW S \in SUBSET Root, NEW s \in Orders(S)
    PROVE  {s[i] : i \in DOMAIN s} = S
<1>1. IsFiniteSet(S) /\ Cardinality(S) \in Nat
  BY RootFinite, FS_Subset, FS_CardinalityType
<1> PICK n \in Nat : n = Cardinality(S)
  BY <1>1
<1>2. s \in [1 .. n -> S] /\ \A i, j \in 1 .. n : s[i] = s[j] => i = j
  BY DEF Orders
<1> PICK R : R = {s[i] : i \in DOMAIN s}
  OBVIOUS
<1>0. R \in SUBSET S /\ DOMAIN s = 1 .. n
  BY <1>2
<1>3. s \in Bijection(1 .. n, R)
  <2>1. s \in [1 .. n -> R] /\ \A y \in R : \E i \in 1 .. n : s[i] = y
    BY <1>0, <1>2
  <2> QED
    BY <1>2, <2>1, Fun_IsBij
<1>4. Cardinality(R) = n
  BY <1>3, FS_CountingElements DEF ExistsBijection
<1> QED
  BY <1>0, <1>1, <1>4, FS_Subset

(* A file without a root twice has as many entries as roots.               *)
LEMMA EntriesAreRoots ==
    ASSUME NEW s \in Seq(Entry), \A i, j \in DOMAIN s : s[i].root = s[j].root => i = j
    PROVE  Cardinality(RootsOf(s)) = Len(s)
<1> PICK n \in Nat : n = Len(s)
  OBVIOUS
<1>1. DOMAIN s = 1 .. n
  OBVIOUS
<1> PICK f : f = [i \in 1 .. n |-> s[i].root]
  OBVIOUS
<1>2. f \in Bijection(1 .. n, RootsOf(s))
  <2>1. f \in [1 .. n -> RootsOf(s)] /\ \A y \in RootsOf(s) : \E i \in 1 .. n : f[i] = y
    BY <1>1 DEF RootsOf
  <2>2. \A i, j \in 1 .. n : f[i] = f[j] => i = j
    BY <1>1
  <2> QED
    BY <2>1, <2>2, Fun_IsBij
<1> QED
  BY <1>2, FS_CountingElements DEF ExistsBijection

(* The head and the tail of a buffer hold its paths.                       *)
LEMMA RootsOfTail ==
    ASSUME NEW s \in Seq(Entry), s # <<>>
    PROVE  /\ RootsOf(s) = {Head(s).root} \union RootsOf(Tail(s))
           /\ Len(Tail(s)) = Len(s) - 1 /\ Head(s).root \in Root
           /\ 1 \in DOMAIN s /\ Head(s) = s[1]
           /\ \A i \in DOMAIN Tail(s) : i + 1 \in DOMAIN s /\ Tail(s)[i] = s[i + 1]
<1> PICK n \in Nat : n = Len(s)
  OBVIOUS
<1> PICK u : u = Tail(s)
  OBVIOUS
<1>1. /\ u \in Seq(Entry) /\ Len(u) = n - 1 /\ n # 0 /\ Head(s) \in Entry
      /\ \A i \in 1 .. n - 1 : u[i] = s[i + 1]
  BY HeadTailProperties, EmptySeq
<1>2. DOMAIN s = 1 .. n /\ DOMAIN u = 1 .. n - 1 /\ Head(s) = s[1]
  BY <1>1
<1>3. \A i \in 1 .. n : i = 1 \/ (i - 1 \in 1 .. n - 1 /\ s[i] = u[i - 1])
  BY <1>1
<1>4. \A i \in 1 .. n - 1 : i + 1 \in 1 .. n
  OBVIOUS
<1>5. 1 \in 1 .. n
  BY <1>1
<1>6. \A x \in RootsOf(s) : x \in {s[1].root} \union RootsOf(u)
  <2>1. \A i \in 1 .. n : s[i].root \in {s[1].root} \union RootsOf(u)
    BY <1>2, <1>3 DEF RootsOf
  <2> QED
    BY <1>2, <2>1 DEF RootsOf
<1>7. \A x \in RootsOf(u) : x \in RootsOf(s)
  BY <1>1, <1>2, <1>4 DEF RootsOf
<1>8. s[1].root \in RootsOf(s)
  BY <1>2, <1>5 DEF RootsOf
<1> QED
  BY <1>1, <1>2, <1>4, <1>5, <1>6, <1>7, <1>8 DEF Entry

(* The roots to rewatch are finitely many.                                 *)
LEMMA RootsFinite ==
    /\ RewatchRoots \in SUBSET Root
    /\ IsFiniteSet(RewatchRoots) /\ Cardinality(RewatchRoots) \in Nat
  BY RootFinite, FS_Subset, FS_CardinalityType DEF RewatchRoots

(* A root is added to the registry.                                        *)
LEMMA RootAdded ==
    ASSUME inotify_roots \in [Path -> {"none", "plain", "rewatch", "zero"}], NEW x \in Root,
           inotify_roots[x.path] = "none",
           inotify_roots' = [inotify_roots EXCEPT ![x.path] = x.kind]
    PROVE  RewatchRoots' = RewatchRoots \union {x} /\ x \notin RewatchRoots
<1>0. x.path \in Path /\ x.kind \in {"rewatch", "zero"}
  BY DEF Root
<1>1. \A y \in Root : y.path \in Path
  BY DEF Root
<1>2. x \notin RewatchRoots /\ x \in RewatchRoots'
  BY <1>0 DEF RewatchRoots
<1>3. \A y \in Root : y.path = x.path /\ y.kind = x.kind => y = x
  BY DEF Root
<1>4. \A y \in Root : y # x => (y \in RewatchRoots' <=> y \in RewatchRoots)
  <2> TAKE y \in Root
  <2>1. CASE y.path = x.path
    <3>1. inotify_roots'[y.path] = x.kind /\ inotify_roots[y.path] = "none"
      BY <1>0, <2>1
    <3>2. y.kind # "none"
      BY DEF Root
    <3> QED
      BY <1>3, <2>1, <3>1, <3>2 DEF RewatchRoots
  <2>2. CASE y.path # x.path
    <3>1. inotify_roots'[y.path] = inotify_roots[y.path]
      BY <1>0, <1>1, <2>2
    <3> QED
      BY <3>1 DEF RewatchRoots
  <2> QED
    BY <2>1, <2>2
<1>5. RewatchRoots \subseteq Root /\ RewatchRoots' \subseteq Root
  BY DEF RewatchRoots
<1> QED
  BY <1>2, <1>4, <1>5

(* A root is taken out of the registry.                                    *)
LEMMA RootRemoved ==
    ASSUME inotify_roots \in [Path -> {"none", "plain", "rewatch", "zero"}], NEW p \in Path,
           inotify_roots' = [inotify_roots EXCEPT ![p] = "none"]
    PROVE  RewatchRoots' = {x \in RewatchRoots : x.path # p}
<1>1. \A y \in Root : y.path \in Path /\ y.kind # "none"
  BY DEF Root
<1>2. \A y \in Root : y.path = p => inotify_roots'[y.path] = "none"
  OBVIOUS
<1>3. \A y \in Root : y.path # p => inotify_roots'[y.path] = inotify_roots[y.path]
  BY <1>1
<1> QED
  BY <1>1, <1>2, <1>3 DEF RewatchRoots

(* A start that fits in the buffer meets no entry that is cut.             *)
LEMMA HeadUncut ==
    ASSUME DumpTypeOK, Starts, Phase = "starting", reader.buf # <<>>, reader.all
    PROVE  ~Head(reader.buf).cut
<1> PICK s \in Seq(Entry) : s = reader.buf
  BY DEF DumpTypeOK
<1>1. 1 \in DOMAIN s /\ Head(s) = s[1]
  BY RootsOfTail
<1> QED
  BY <1>1 DEF Starts

(* An empty file has no roots.                                             *)
LEMMA RootsOfEmpty == RootsOf(<<>>) = {} /\ DOMAIN <<>> = {} /\ Len(<<>>) = 0
  BY DEF RootsOf

(* inotify_dump_roots() begins: the file is empty and the roots to write   *)
(* are those to rewatch.                                                   *)
LEMMA TruncateKeeps ==
    ASSUME DumpTypeOK, NEW t \in Thread \union {"main"}, Truncate(t),
           UNCHANGED inotify_roots
    PROVE  /\ file' = <<>> /\ RootsOf(file)' = {} /\ Len(file') = 0
           /\ OrderSet' = RewatchRoots /\ RewatchRoots' = RewatchRoots
           /\ WrittenSoFar' /\ writer.by = Nobody /\ writer'.by = t
<1>1. /\ writer.by = Nobody /\ writer'.by = t /\ file' = <<>>
      /\ writer'.order \in Orders(DumpedRoots)
  BY TruncateTypes DEF Truncate
<1>2. DumpedRoots = RewatchRoots /\ RewatchRoots' = RewatchRoots
  BY DEF DumpedRoots, RewatchRoots
<1> PICK s \in Orders(RewatchRoots) : s = writer'.order
  BY <1>1, <1>2
<1>3. /\ s \in Seq(Root) /\ Len(s) = Cardinality(RewatchRoots)
      /\ \A i, j \in 1 .. Len(s) : s[i] = s[j] => i = j
      /\ {s[i] : i \in DOMAIN s} = RewatchRoots
  BY RootsFinite, OrdersAre, OrderNamesAll
<1>4. DOMAIN s = 1 .. Len(s)
  BY <1>3
<1>5. OrderSet' = RewatchRoots
  BY <1>3 DEF OrderSet
<1>6. RootsOf(file)' = {} /\ DOMAIN file' = {}
  BY <1>1, RootsOfEmpty DEF RootsOf
<1>7. WrittenSoFar'
  BY <1>2, <1>3, <1>4, <1>5, <1>6 DEF WrittenSoFar
<1> QED
  BY <1>1, <1>2, <1>5, <1>6, <1>7, RootsOfEmpty

(* It goes on: what is in the file is a part of the roots, and all of them *)
(* at the end.                                                             *)
LEMMA WriteOutKeeps ==
    ASSUME DumpTypeOK, WrittenSoFar, NEW t \in Thread \union {"main"}, WriteOut(t),
           UNCHANGED inotify_roots
    PROVE  /\ OrderSet = RewatchRoots /\ RewatchRoots' = RewatchRoots
           /\ RootsOf(file) \subseteq RewatchRoots
           /\ RootsOf(file)' \subseteq RewatchRoots
           /\ Len(file') <= Cardinality(RewatchRoots)
           /\ writer.by = t /\ t # Nobody
           /\ \/ writer' = Idle /\ writer'.by = Nobody /\ RootsOf(file)' = RewatchRoots
              \/ writer'.by = t /\ OrderSet' = OrderSet
           /\ WrittenSoFar'
<1>0. writer.by = t /\ t # Nobody
  BY DumpAssumptions DEF WriteOut, Nobody
<1>1. /\ \A i, j \in DOMAIN writer.order : writer.order[i] = writer.order[j] => i = j
      /\ Len(writer.order) = Cardinality(RewatchRoots)
      /\ OrderSet = RewatchRoots
      /\ RootsOf(file) \subseteq OrderSet
  BY <1>0 DEF WrittenSoFar
<1>2. RewatchRoots' = RewatchRoots
  BY DEF RewatchRoots
<1>3. PICK n \in Nat :
        /\ n <= Len(writer.order)
        /\ file' \in Seq(Entry)
        /\ \A i \in DOMAIN file' : i \in DOMAIN writer.order
                                   /\ file'[i].root = writer.order[i]
                                   /\ (file'[i].cut => i > BufLines)
        /\ n = Len(writer.order) => file' = Written(writer.order, n) /\ writer' = Idle
        /\ n # Len(writer.order) => writer' = [writer EXCEPT !.n = n]
  BY WriteOutIs
<1> PICK s \in Seq(Root) : s = writer.order
  BY DEF DumpTypeOK
<1>4. RootsOf(file)' \subseteq RewatchRoots
  BY <1>1, <1>3 DEF RootsOf, OrderSet
<1>5. Len(file') <= Cardinality(RewatchRoots)
  <2> PICK f \in Seq(Entry) : f = file'
    BY <1>3
  <2> PICK k \in Nat : k = Len(f)
    OBVIOUS
  <2> PICK m \in Nat : m = Len(s)
    OBVIOUS
  <2>1. \A i \in 1 .. k : i \in 1 .. m
    BY <1>3
  <2>2. k <= m
    BY <2>1
  <2> QED
    BY <1>1, <2>2
<1>6. /\ \A i, j \in DOMAIN file' : file'[i].root = file'[j].root => i = j
      /\ \A i \in DOMAIN file' : file'[i].cut => i > BufLines
  BY <1>1, <1>3
<1>7. CASE n = Len(s)
  <2>1. file' = Written(s, n) /\ writer' = Idle
    BY <1>3, <1>7
  <2>2. /\ DOMAIN file' = 1 .. n /\ DOMAIN s = 1 .. n
        /\ \A i \in 1 .. n : file'[i] = Whole(s[i])
    BY <1>3, <1>7, <2>1, WrittenIs
  <2>3. RootsOf(file)' = OrderSet
    BY <2>2 DEF RootsOf, OrderSet, Whole
  <2>4. writer'.by = Nobody
    BY <2>1 DEF Idle
  <2> QED
    BY <1>0, <1>1, <1>2, <1>4, <1>5, <1>6, <2>1, <2>3, <2>4 DEF WrittenSoFar
<1>8. CASE n # Len(s)
  <2>1. writer' = [writer EXCEPT !.n = n]
    BY <1>3, <1>8
  <2>2. writer'.by = writer.by /\ writer'.order = writer.order
    BY <2>1 DEF DumpTypeOK
  <2>3. OrderSet' = OrderSet
    BY <2>2 DEF OrderSet
  <2> QED
    BY <1>0, <1>1, <1>2, <1>4, <1>5, <1>6, <2>2, <2>3 DEF WrittenSoFar
<1> QED
  BY <1>7, <1>8

(* The phases of the process, by where main() is.                          *)
LEMMA Phases ==
    ASSUME DumpTypeOK
    PROVE  /\ Phase \in {"down", "starting", "up"}
           /\ Phase = "down" <=> main.pc = "down"
           /\ Phase = "starting" <=>
                main.pc # "down" /\ (main.pc \in {"read", "begin"} \/ main.then \in {"read", "begin"})
           /\ Phase = "up" <=>
                main.pc \notin {"down", "read", "begin"} /\ main.then \notin {"read", "begin"}
<1> PICK a : a = main.pc
  OBVIOUS
<1> PICK b : b = main.then
  OBVIOUS
<1>1. {a, b} \intersect {"read", "begin"} # {} <=> a \in {"read", "begin"} \/ b \in {"read", "begin"}
  OBVIOUS
<1> QED
  BY <1>1 DEF Phase

(* While the daemon is not up only main() writes the file.                 *)
LEMMA OnlyMainWrites ==
    ASSUME DumpTypeOK, Places, Phase # "up", main.pc # "write"
    PROVE  writer.by = Nobody
  BY DEF Places, DumpTypeOK

(* A step that leaves main() and the roots alone, or only moves main().    *)
LEMMA PlacesKept ==
    ASSUME DumpTypeOK, Places, [DumpNext]_dumpVars
    PROVE  Places'
<1>0. DumpTypeOK'
  BY StepTypes
<1>1. /\ main \in MainType /\ main' \in MainType /\ destroyer \in [Thread -> WorkType]
      /\ destroyer' \in [Thread -> WorkType]
      /\ inotify_roots \in [Path -> {"none", "plain", "rewatch", "zero"}]
  BY <1>0 DEF DumpTypeOK, Kinds, MainType, WorkType
<1> DEFINE P(m, r, x, d) ==
             /\ m.pc \in {"begin", "serve", "answer", "exit"} => m.then = m.pc
             /\ m.pc = "read" => m.then \in {"serve", "read"}
             /\ m.pc = "down" => m.then = "serve" /\ r = NoReader
             /\ m.pc = "down" \/ {m.pc, m.then} \intersect {"read", "begin"} # {}
                   => \A t \in Thread : x[t].pc = "idle"
             /\ Lasting \subseteq d
<1>2. P(main, reader, destroyer, dirs)
  BY DEF Places, Phase
<1>3. ASSUME P(main', reader', destroyer', dirs'),
             main'.pc = "down" => \A p \in Path : inotify_roots'[p] = "none"
      PROVE  Places'
  BY <1>1, <1>3 DEF Places, Phase
<1>4. CASE Exit /\ UNCHANGED dirs
  <2>1. P(main', reader', destroyer', dirs')
    BY <1>2, <1>4 DEF Exit, At, NoThreads
  <2>2. \A p \in Path : inotify_roots'[p] = "none"
    BY <1>4 DEF Exit
  <2> QED
    BY <1>3, <2>1, <2>2
<1>5. CASE Start
  BY <1>1, <1>2, <1>3, <1>5 DEF Start, At
<1>6. CASE FillBuffer
  BY <1>1, <1>2, <1>3, <1>6 DEF FillBuffer
<1>7. ASSUME NEW p, Rewatch(p), main.pc = "read", UNCHANGED <<dirs, destroyer>>
      PROVE  Places'
  <2>1. main' = main \/ main' = [pc |-> "dump", path |-> p, then |-> "read"]
    BY <1>7 DEF Rewatch
  <2>2. P(main', reader', destroyer', dirs') /\ main'.pc # "down"
    BY <1>1, <1>2, <1>7, <2>1
  <2> QED
    BY <1>3, <2>2
<1>7a. ASSUME SkipEntry, main.pc = "read", UNCHANGED <<dirs, destroyer>>
       PROVE  Places'
  BY <1>1, <1>2, <1>3, <1>7a DEF SkipEntry
<1>8. CASE ReadEntry \/ ReadCutEntry
  BY <1>4, <1>7, <1>8, <1>7a DEF ReadEntry, ReadCutEntry, Die
<1>9. CASE SetupDone
  <2>1. main'.pc = "dump" /\ main'.then = "begin"
    BY <1>9 DEF SetupDone, At
  <2> QED
    BY <1>1, <1>2, <1>3, <1>9, <2>1 DEF SetupDone
<1>10. CASE EnterLoop \/ Answer \/ Alarm
  BY <1>1, <1>2, <1>3, <1>10 DEF EnterLoop, Answer, Alarm, Call, At
<1>11. CASE MainTruncate
  BY <1>1, <1>2, <1>3, <1>11 DEF MainTruncate, MainType
<1>12. CASE MainWriteOut
  <2>1. main' = main \/ main' = [main EXCEPT !.pc = main.then]
    BY <1>12 DEF MainWriteOut
  <2>2. P(main', reader', destroyer', dirs') /\ main'.pc # "down"
    BY <1>1, <1>2, <1>12, <2>1 DEF MainWriteOut, MainType
  <2> QED
    BY <1>3, <2>2
<1>13. ASSUME NEW p \in Path, NEW kind, WatchTree(p, kind) PROVE Places'
  BY <1>1, <1>2, <1>3, <1>13 DEF WatchTree, Call
<1>14. ASSUME NEW p \in Path, UnwatchTree(p) PROVE Places'
  BY <1>1, <1>2, <1>3, <1>14 DEF UnwatchTree, Call
<1>15. ASSUME NEW t \in Thread, DestroyRoot(t) \/ DestroyTruncate(t) \/ DestroyWriteOut(t)
       PROVE  Places'
  <2>1. destroyer[t].pc # "idle" /\ UNCHANGED <<main, reader, dirs>>
    BY <1>15 DEF DestroyRoot, DestroyTruncate, DestroyWriteOut
  <2> QED
    BY <1>1, <1>2, <1>3, <2>1
<1>16. CASE Stop
  <2>1. main'.pc = "dump" /\ main'.then = "exit" /\ main.pc = "serve"
    BY <1>16 DEF Stop, At
  <2> QED
    BY <1>1, <1>2, <1>3, <1>16, <2>1 DEF Stop
<1>17. CASE StopExit \/ Crash
  BY <1>4, <1>17 DEF StopExit, Crash, Die
<1>18. CASE ChangeDirs
  <2>1. Lasting \subseteq dirs' /\ UNCHANGED <<main, reader, destroyer, inotify_roots>>
    BY <1>2, <1>18 DEF ChangeDirs
  <2>2. main.pc = "down" => \A p \in Path : inotify_roots[p] = "none"
    BY DEF Places
  <2> QED
    BY <1>2, <1>3, <2>1, <2>2
<1>19. CASE UNCHANGED dumpVars
  BY <1>19 DEF dumpVars, Places, Phase
<1> QED
  BY <1>5, <1>6, <1>8, <1>9, <1>10, <1>11, <1>12, <1>13, <1>14, <1>15, <1>16, <1>17,
     <1>18, <1>19 DEF DumpNext, Kinds

(* The threads that destroy roots keep out of each other's way.            *)
LEMMA WorkersKept ==
    ASSUME DumpTypeOK, Places, Workers, [DumpNext]_dumpVars
    PROVE  Workers'
<1>1. /\ main \in MainType /\ destroyer \in [Thread -> WorkType]
      /\ inotify_roots \in [Path -> {"none", "plain", "rewatch", "zero"}]
  BY DEF DumpTypeOK, Kinds, MainType, WorkType
<1>2. ASSUME \A t \in Thread : destroyer'[t].pc # "work" PROVE Workers'
  BY <1>2 DEF Workers
<1>3. CASE Exit
  BY <1>2, <1>3 DEF Exit, NoThreads
<1>4. ASSUME Phase # "up", UNCHANGED destroyer PROVE Workers'
  BY <1>2, <1>4 DEF Places
<1>5. CASE Start \/ FillBuffer \/ SetupDone \/ EnterLoop
  <2>1. Phase # "up" /\ UNCHANGED destroyer
    BY <1>5, Phases DEF Start, FillBuffer, SetupDone, EnterLoop
  <2> QED
    BY <1>4, <2>1
<1>6. CASE ReadEntry \/ ReadCutEntry
  <2>1. Phase # "up"
    BY <1>6, Phases DEF ReadEntry, ReadCutEntry
  <2> QED
    BY <1>3, <1>4, <1>6, <2>1 DEF ReadEntry, ReadCutEntry, Die
<1>7. ASSUME UNCHANGED <<destroyer, inotify_roots>>,
             main'.then = "answer" => main.then = "answer" /\ main'.path = main.path
      PROVE  Workers'
  BY <1>7 DEF Workers
<1>8. CASE MainTruncate \/ MainWriteOut
  <2>1. UNCHANGED <<destroyer, inotify_roots>> /\ main'.then = main.then /\ main'.path = main.path
    BY <1>1, <1>8 DEF MainTruncate, MainWriteOut, MainType
  <2> QED
    BY <1>7, <2>1
<1>9. CASE Answer \/ Alarm \/ Stop
  <2>1. UNCHANGED <<destroyer, inotify_roots>> /\ main'.then # "answer"
    BY <1>9 DEF Answer, Alarm, Stop, At
  <2> QED
    BY <1>7, <2>1
<1>10. ASSUME NEW p \in Path, NEW kind \in {"plain", "rewatch", "zero"}, WatchTree(p, kind)
       PROVE  Workers'
  <2>1. /\ inotify_roots[p] = "none" /\ inotify_roots' = [inotify_roots EXCEPT ![p] = kind]
        /\ destroyer' = destroyer /\ main'.path = p
    BY <1>10 DEF WatchTree
  <2> QED
    BY <1>1, <2>1 DEF Workers
<1>11. ASSUME NEW p \in Path, UnwatchTree(p) PROVE Workers'
  <2>1. PICK t \in Thread : /\ destroyer[t].pc = "idle"
                            /\ destroyer' = [destroyer EXCEPT ![t] = [pc |-> "work", path |-> p]]
    BY <1>11 DEF UnwatchTree
  <2>2. /\ inotify_roots[p] # "none" /\ UNCHANGED <<main, inotify_roots>> /\ main.then = "serve"
        /\ \A u \in Thread : ~(destroyer[u].pc = "work" /\ destroyer[u].path = p)
    BY <1>11 DEF UnwatchTree, Call, Places, BeingDestroyed
  <2>3. \A u \in Thread : /\ u = t => destroyer'[u].pc = "work" /\ destroyer'[u].path = p
                          /\ u # t => destroyer'[u] = destroyer[u]
    BY <1>1, <2>1
  <2> QED
    BY <2>2, <2>3 DEF Workers
<1>12. ASSUME NEW t \in Thread, DestroyRoot(t) PROVE Workers'
  <2>1. /\ destroyer[t].pc = "work" /\ main' = main
        /\ inotify_roots' = [inotify_roots EXCEPT ![destroyer[t].path] = "none"]
        /\ destroyer' = [destroyer EXCEPT ![t].pc = "dump"]
    BY <1>12 DEF DestroyRoot
  <2>2. /\ destroyer'[t].pc = "dump"
        /\ \A u \in Thread : u # t => destroyer'[u] = destroyer[u]
    BY <1>1, <2>1 DEF WorkType
  <2>3. \A u \in Thread : destroyer'[u].pc = "work" =>
            u # t /\ destroyer[u].pc = "work" /\ destroyer[u].path # destroyer[t].path
    BY <2>1, <2>2 DEF Workers
  <2> QED
    BY <1>1, <2>1, <2>2, <2>3 DEF Workers
<1>13. ASSUME NEW t \in Thread, DestroyTruncate(t) \/ DestroyWriteOut(t) PROVE Workers'
  <2>1. UNCHANGED <<main, inotify_roots>>
    BY <1>13 DEF DestroyTruncate, DestroyWriteOut
  <2>2. \A u \in Thread : destroyer'[u].pc = "work" => destroyer'[u] = destroyer[u]
    BY <1>1, <1>13 DEF DestroyTruncate, DestroyWriteOut, NoThreads, WorkType
  <2> QED
    BY <2>1, <2>2 DEF Workers
<1>14. CASE StopExit \/ Crash
  BY <1>3, <1>14 DEF StopExit, Crash, Die
<1>15. CASE ChangeDirs \/ UNCHANGED dumpVars
  BY <1>7, <1>15 DEF ChangeDirs, dumpVars
<1> QED
  BY <1>5, <1>6, <1>8, <1>9, <1>10, <1>11, <1>12, <1>13, <1>14, <1>15 DEF DumpNext, Kinds

(* The file and the roots do not change under a writer.                    *)
LEMMA WrittenKept ==
    ASSUME DumpTypeOK, Places, WrittenSoFar, [DumpNext]_dumpVars
    PROVE  WrittenSoFar'
<1>1. ASSUME UNCHANGED <<file, writer, inotify_roots>> PROVE WrittenSoFar'
  <2>1. OrderSet' = OrderSet /\ RewatchRoots' = RewatchRoots /\ RootsOf(file)' = RootsOf(file)
    BY <1>1 DEF OrderSet, RootsOf, RewatchRoots
  <2> QED
    BY <1>1, <2>1 DEF WrittenSoFar
<1>2. ASSUME UNCHANGED file, writer'.by = Nobody PROVE WrittenSoFar'
  BY <1>2 DEF WrittenSoFar
<1>3. CASE Exit /\ UNCHANGED file
  BY <1>2, <1>3 DEF Exit, Idle
<1>4. CASE Start \/ FillBuffer \/ SetupDone \/ EnterLoop \/ Answer \/ Alarm \/ Stop \/ ChangeDirs
           \/ UNCHANGED dumpVars
  BY <1>1, <1>4 DEF Start, FillBuffer, SetupDone, EnterLoop, Answer, Alarm, Stop,
     ChangeDirs, dumpVars
<1>5. CASE ReadEntry \/ ReadCutEntry
  <2>1. main.pc = "read"
    BY <1>5 DEF ReadEntry, ReadCutEntry
  <2>2. Phase # "up"
    BY <2>1, Phases
  <2>3. writer.by = Nobody
    BY <2>1, <2>2, OnlyMainWrites
  <2> QED
    BY <1>2, <1>3, <1>5, <2>3 DEF ReadEntry, ReadCutEntry, Die
<1>6. CASE MainTruncate
  BY <1>6, TruncateKeeps DEF MainTruncate
<1>7. CASE MainWriteOut
  BY <1>7, WriteOutKeeps DEF MainWriteOut
<1>8. ASSUME NEW p \in Path, NEW kind, WatchTree(p, kind) PROVE WrittenSoFar'
  BY <1>2, <1>8 DEF WatchTree
<1>9. ASSUME NEW p \in Path, UnwatchTree(p) PROVE WrittenSoFar'
  BY <1>1, <1>9 DEF UnwatchTree
<1>10. ASSUME NEW t \in Thread, DestroyRoot(t) PROVE WrittenSoFar'
  BY <1>2, <1>10 DEF DestroyRoot
<1>11. ASSUME NEW t \in Thread, DestroyTruncate(t) PROVE WrittenSoFar'
  BY <1>11, TruncateKeeps DEF DestroyTruncate
<1>12. ASSUME NEW t \in Thread, DestroyWriteOut(t) PROVE WrittenSoFar'
  BY <1>12, WriteOutKeeps DEF DestroyWriteOut
<1>13. CASE StopExit \/ Crash
  BY <1>3, <1>13 DEF StopExit, Crash, Die
<1> QED
  BY <1>4, <1>5, <1>6, <1>7, <1>8, <1>9, <1>10, <1>11, <1>12, <1>13 DEF DumpNext, Kinds

(* A root is in the file when its watch is answered.                       *)
LEMMA AnsweredKept ==
    ASSUME DumpTypeOK, Places, WrittenSoFar, Answered, [DumpNext]_dumpVars
    PROVE  Answered'
<1>1. main \in MainType
  BY DEF DumpTypeOK, Kinds, MainType
<1>2. ASSUME main'.pc # "answer" PROVE Answered'
  BY <1>2 DEF Answered
<1>3. ASSUME UNCHANGED <<file, writer, main>>,
             Asked' \in RewatchRoots' => Asked' = Asked /\ Asked \in RewatchRoots
      PROVE  Answered'
  BY <1>3 DEF Answered, RootsOf
<1>4. CASE Exit
  BY <1>2, <1>4 DEF Exit, At
<1>5. CASE Start \/ SetupDone \/ EnterLoop \/ Answer \/ Alarm \/ Stop
  BY <1>2, <1>5 DEF Start, SetupDone, EnterLoop, Answer, Alarm, Stop, At
<1>6. CASE FillBuffer
  BY <1>2, <1>6 DEF FillBuffer
<1>7. ASSUME NEW p, Rewatch(p), main.pc = "read" PROVE Answered'
  BY <1>2, <1>7 DEF Rewatch
<1>8. CASE ReadEntry \/ ReadCutEntry
  BY <1>2, <1>4, <1>7, <1>8 DEF ReadEntry, ReadCutEntry, SkipEntry, Die
<1>9. CASE MainTruncate
  BY <1>1, <1>2, <1>9 DEF MainTruncate, MainType
<1>10. ASSUME NEW t \in Thread \union {"main"}, WriteOut(t), UNCHANGED inotify_roots
       PROVE  Answered'
  <2>1. \/ RootsOf(file)' = RewatchRoots' \/ writer'.by # Nobody
    BY <1>10, WriteOutKeeps
  <2> QED
    BY <2>1 DEF Answered
<1>11. CASE MainWriteOut
  BY <1>10, <1>11 DEF MainWriteOut
<1>12. ASSUME NEW p \in Path, NEW kind, WatchTree(p, kind) PROVE Answered'
  BY <1>2, <1>12 DEF WatchTree
<1>13. ASSUME NEW p \in Path, UnwatchTree(p) PROVE Answered'
  BY <1>3, <1>13 DEF UnwatchTree, RewatchRoots, Asked
<1>14. ASSUME NEW t \in Thread, DestroyRoot(t) PROVE Answered'
  <2>0. /\ inotify_roots' = [inotify_roots EXCEPT ![destroyer[t].path] = "none"]
        /\ main' = main /\ inotify_roots \in [Path -> {"none", "plain", "rewatch", "zero"}]
    BY <1>14 DEF DestroyRoot, DumpTypeOK, Kinds
  <2>1. ASSUME Asked' \in RewatchRoots' PROVE Asked' = Asked /\ Asked \in RewatchRoots
    <3>1. Asked' \in Root /\ Asked'.kind # "none" /\ Asked'.path = main.path
          /\ Asked'.kind = inotify_roots'[main.path]
      BY <2>0, <2>1 DEF RewatchRoots, Root, Asked
    <3>2. main.path \in Path
      BY <3>1 DEF Root
    <3>3. inotify_roots'[main.path] = inotify_roots[main.path]
      BY <2>0, <3>1, <3>2
    <3>4. Asked' = Asked
      BY <2>0, <3>3 DEF Asked
    <3> QED
      BY <2>0, <3>1, <3>3, <3>4 DEF RewatchRoots
  <2> QED
    BY <1>3, <1>14, <2>1 DEF DestroyRoot
<1>15. ASSUME NEW t \in Thread, DestroyTruncate(t) PROVE Answered'
  <2>1. writer'.by = t /\ t # Nobody
    BY <1>15, TruncateTypes, DumpAssumptions DEF DestroyTruncate, Nobody
  <2> QED
    BY <2>1 DEF Answered
<1>16. ASSUME NEW t \in Thread, DestroyWriteOut(t) PROVE Answered'
  BY <1>10, <1>16 DEF DestroyWriteOut
<1>17. CASE StopExit \/ Crash
  BY <1>4, <1>17 DEF StopExit, Crash, Die
<1>18. CASE ChangeDirs \/ UNCHANGED dumpVars
  BY <1>3, <1>18 DEF ChangeDirs, dumpVars, RewatchRoots, Asked
<1> QED
  BY <1>5, <1>6, <1>8, <1>9, <1>11, <1>12, <1>13, <1>14, <1>15, <1>16, <1>17, <1>18
  DEF DumpNext, Kinds

(* A start that fits in the buffer loses nothing that stays.               *)
LEMMA StartsKept ==
    ASSUME DumpTypeOK, Places, WrittenSoFar, Starts, [DumpNext]_dumpVars
    PROVE  Starts'
<1>0. DumpTypeOK' /\ Places'
  BY StepTypes, PlacesKept
<1>1. /\ main \in MainType /\ reader \in ReaderType /\ file \in Seq(Entry)
      /\ reader' \in ReaderType /\ file' \in Seq(Entry)
      /\ inotify_roots \in [Path -> {"none", "plain", "rewatch", "zero"}]
  BY <1>0 DEF DumpTypeOK, Kinds, MainType, ReaderType
<1>2. ASSUME Phase' # "starting" PROVE Starts'
  BY <1>2 DEF Starts
<1>3. Phase' = "starting" =>
        main'.pc # "down" /\ (main'.pc \in {"read", "begin"} \/ main'.then \in {"read", "begin"})
  BY <1>0, Phases DEF Phase, DumpTypeOK
<1>4. CASE Exit
  BY <1>2, <1>3, <1>4 DEF Exit, At
<1>5. CASE EnterLoop \/ Answer \/ Alarm \/ Stop
  BY <1>2, <1>3, <1>5 DEF EnterLoop, Answer, Alarm, Stop, At
<1>6. ASSUME NEW p \in Path, NEW kind, WatchTree(p, kind) PROVE Starts'
  BY <1>2, <1>3, <1>6 DEF WatchTree
<1>7. ASSUME NEW p \in Path, UnwatchTree(p) PROVE Starts'
  BY <1>2, <1>3, <1>7 DEF UnwatchTree, Call, Places
<1>8. ASSUME NEW t \in Thread, DestroyRoot(t) \/ DestroyTruncate(t) \/ DestroyWriteOut(t)
      PROVE  Starts'
  <2>1. destroyer[t].pc # "idle" /\ main' = main
    BY <1>8 DEF DestroyRoot, DestroyTruncate, DestroyWriteOut
  <2>2. Phase = "up" /\ Phase' = Phase
    BY <2>1 DEF Places, Phase
  <2> QED
    BY <1>2, <2>2
<1>9. CASE StopExit \/ Crash
  BY <1>4, <1>9 DEF StopExit, Crash, Die
<1>10. CASE ChangeDirs \/ UNCHANGED dumpVars
  <2>1. UNCHANGED <<file, inotify_roots, main, reader>>
    BY <1>10 DEF ChangeDirs, dumpVars
  <2>2. /\ Phase' = Phase /\ RewatchRoots' = RewatchRoots /\ RootsOf(file)' = RootsOf(file)
        /\ RootsOf(reader.buf)' = RootsOf(reader.buf)
    BY <2>1 DEF Phase, RewatchRoots, RootsOf
  <2> QED
    BY <2>1, <2>2 DEF Starts
<1>11. CASE Start
  <2>1. /\ main' = At("read") /\ reader' = [NoReader EXCEPT !.all = (Len(file) <= BufLines)]
        /\ UNCHANGED <<file, inotify_roots>> /\ main.pc = "down"
    BY <1>11 DEF Start
  <2>2. main'.pc = "read" /\ main'.then = "serve"
    BY <2>1 DEF At
  <2>3. reader'.buf = <<>> /\ reader'.pos = 0 /\ (reader'.all => Len(file) <= BufLines)
    BY <2>1 DEF NoReader
  <2>4. \A p \in Path : inotify_roots'[p] = "none"
    BY <2>1 DEF Places
  <2>5. RewatchRoots' = {}
    BY <2>4 DEF RewatchRoots, Root
  <2> QED
    BY <2>1, <2>2, <2>3, <2>4, <2>5, RootsOfEmpty DEF Starts
<1>12. CASE SetupDone
  <2>1. /\ main'.pc = "dump" /\ main'.then = "begin" /\ main.pc = "read"
        /\ UNCHANGED <<file, inotify_roots, reader>> /\ reader.buf = <<>> /\ Unread = <<>>
    BY <1>12 DEF SetupDone, At
  <2>2. Phase = "starting"
    BY <2>1, Phases
  <2>3. RewatchRoots' = RewatchRoots /\ RootsOf(file)' = RootsOf(file)
        /\ RootsOf(reader.buf)' = RootsOf(reader.buf)
    BY <2>1 DEF RewatchRoots, RootsOf
  <2>4. ASSUME reader.pos = 0 PROVE file = <<>>
    <3> PICK s \in Seq(Entry) : s = file
      BY <1>1
    <3>1. SubSeq(s, 1, Len(s)) = <<>>
      BY <2>1, <2>4 DEF Unread
    <3>2. \A i \in 1 .. Len(s) : s[i] \in Entry
      BY ElementOfSeq
    <3>3. Len(SubSeq(s, 1, Len(s))) = IF 1 <= Len(s) THEN Len(s) - 1 + 1 ELSE 0
      BY <3>2, SubSeqProperties
    <3>4. Len(s) = 0
      BY <3>1, <3>3
    <3> QED
      BY <3>4, EmptySeq
  <2> QED
    BY <2>1, <2>2, <2>3, <2>4 DEF Starts
<1>13. CASE MainTruncate
  <2>1. /\ main'.pc = "write" /\ main'.then = main.then /\ main.pc = "dump"
        /\ UNCHANGED <<reader, inotify_roots>>
    BY <1>1, <1>13 DEF MainTruncate, MainType
  <2>2. /\ file' = <<>> /\ RootsOf(file)' = {} /\ Len(file') = 0
        /\ RewatchRoots' = RewatchRoots
    BY <1>13, TruncateKeeps DEF MainTruncate
  <2>3. RootsOf(reader.buf)' = RootsOf(reader.buf)
    BY <2>1 DEF RootsOf
  <2>4. Phase' = "starting" => Phase = "starting"
    BY <1>3, <2>1, Phases
  <2>5. BufLines \in Nat /\ reader.pos \in Nat
    BY <1>1, DumpAssumptions DEF ReaderType
  <2> QED
    BY <2>1, <2>2, <2>3, <2>4, <2>5 DEF Starts
<1>14. CASE MainWriteOut
  <2>1. /\ main.pc = "write" /\ main'.then = main.then /\ UNCHANGED <<reader, inotify_roots>>
    BY <1>1, <1>14 DEF MainWriteOut, MainType
  <2>2. /\ RewatchRoots' = RewatchRoots /\ RootsOf(file)' \subseteq RewatchRoots
        /\ RootsOf(file)' = RewatchRoots \/ writer'.by = "main"
        /\ Len(file') <= Cardinality(RewatchRoots)
    BY <1>14, WriteOutKeeps DEF MainWriteOut
  <2>3. RootsOf(reader.buf)' = RootsOf(reader.buf)
    BY <2>1 DEF RootsOf
  <2>4. Phase' = "starting" => Phase = "starting"
    BY <1>3, <1>14, <2>1, Phases DEF MainWriteOut, MainType
  <2>5. main'.pc = "begin" => RootsOf(file)' = RewatchRoots
    <3>1. writer'.by = "main" => main' = main
      BY <1>14 DEF MainWriteOut, WriteDone, Nobody
    <3> QED
      BY <2>1, <2>2, <3>1
  <2>6. ASSUME RewatchRoots = {} PROVE file' = <<>> /\ Len(file') = 0
    <3>1. Len(file') = 0
      BY <1>1, <2>2, <2>6, FS_EmptySet, LenProperties
    <3> QED
      BY <1>1, <3>1, EmptySeq
  <2>7. BufLines \in Nat /\ reader.pos \in Nat /\ Cardinality(RewatchRoots) \in Nat
        /\ Len(reader.buf) \in Nat /\ Len(file') \in Nat
    BY <1>1, DumpAssumptions, RootsFinite DEF ReaderType
  <2>8. \A l, r, b, n \in Nat : l <= r /\ r + b <= n => l <= n
    OBVIOUS
  <2>9. Cardinality(RewatchRoots) + Len(reader.buf) <= reader.pos => Len(file') <= reader.pos
    BY <2>2, <2>7, <2>8
  <2> QED
    BY <2>1, <2>2, <2>3, <2>4, <2>5, <2>6, <2>7, <2>9 DEF Starts
<1>15. CASE FillBuffer
  <2>1. PICK b \in Buffered(Unread) : reader' = [reader EXCEPT !.buf = b,
            !.pos = @ + IF Len(Unread) < BufLines THEN Len(Unread) ELSE BufLines]
    BY <1>15 DEF FillBuffer
  <2>2. /\ UNCHANGED <<file, inotify_roots, main>> /\ main.pc = "read" /\ Unread # <<>>
        /\ main.then # "begin"
    BY <1>15 DEF FillBuffer, Places
  <2>3. Phase = "starting" /\ RewatchRoots' = RewatchRoots /\ RootsOf(file)' = RootsOf(file)
    BY <2>2, Phases DEF RewatchRoots, RootsOf
  <2> PICK s \in Seq(Entry) : s = file
    BY <1>1
  <2> PICK n \in Nat : n = Len(s)
    OBVIOUS
  <2> PICK k \in Nat : k = reader.pos
    BY <1>1 DEF ReaderType
  <2> PICK u : u = SubSeq(s, k + 1, n)
    OBVIOUS
  <2>4. u = Unread
    BY DEF Unread
  <2>5. /\ u \in Seq(Entry) /\ Len(u) = (IF k + 1 <= n THEN n - k ELSE 0)
        /\ k = 0 => u = s
    <3> PICK m \in Int : m = k + 1
      OBVIOUS
    <3>1. \A i \in m .. n : s[i] \in Entry
      BY ElementOfSeq
    <3>2. u \in Seq(Entry) /\ Len(u) = IF m <= n THEN n - m + 1 ELSE 0
      BY <3>1, SubSeqProperties
    <3>3. SubSeq(s, 1, Len(s)) = s
      BY SubSeqFull
    <3> QED
      BY <3>2, <3>3
  <2>6. k + 1 <= n
    <3>1. Len(u) # 0
      BY <2>2, <2>4, <2>5, EmptySeq
    <3> QED
      BY <2>5, <3>1
  <2>7. reader'.all = reader.all /\ reader'.buf = b
        /\ reader'.pos = k + (IF Len(u) < BufLines THEN Len(u) ELSE BufLines)
    BY <1>1, <2>1, <2>4 DEF ReaderType
  <2>8. reader'.pos # 0
    BY <2>5, <2>6, <2>7, DumpAssumptions
  <2>9. ASSUME reader.all
        PROVE  /\ Len(file') <= reader'.pos
               /\ Cardinality(RewatchRoots) + Len(b) <= reader'.pos
               /\ LastingRoots \intersect RootsOf(file) \subseteq RewatchRoots \union RootsOf(b)
               /\ \A i \in DOMAIN b : ~b[i].cut
    <3>1. k = 0 /\ RewatchRoots = {} /\ n <= BufLines
      BY <2>3, <2>6, <2>9 DEF Starts
    <3>2. Len(u) = n /\ u = s
      BY <2>5, <3>1
    <3>3. b = u
      BY <2>4, <2>5, <3>1, <3>2, BufferedIs
    <3>4. RootsOf(b) = RootsOf(s)
      BY <3>2, <3>3 DEF RootsOf
    <3>5. reader'.pos = n
      BY <2>7, <3>1, <3>2, DumpAssumptions
    <3>6. Cardinality(RewatchRoots) = 0
      BY <3>1, FS_EmptySet
    <3>7. \A i \in DOMAIN s : ~s[i].cut
      <4>1. \A i \in 1 .. n : ~(i > BufLines)
        BY <3>1, DumpAssumptions
      <4> QED
        BY <4>1 DEF WrittenSoFar
    <3> QED
      BY <2>2, <3>2, <3>3, <3>4, <3>5, <3>6, <3>7
  <2>10. RootsOf(reader.buf)' = RootsOf(b)
    BY <2>7 DEF RootsOf
  <2> QED
    BY <2>2, <2>3, <2>7, <2>8, <2>9, <2>10 DEF Starts
<1>16. ASSUME main.pc = "read", reader.buf # <<>>, reader'.buf = Tail(reader.buf),
              reader'.pos = reader.pos, reader'.all = reader.all, UNCHANGED file,
              main' = main \/ (main'.pc = "dump" /\ main'.then = "read"),
              \A q \in Path : inotify_roots'[q] \in {"none", "rewatch"},
              \/ UNCHANGED RewatchRoots
              \/ RewatchRoots' = RewatchRoots \union {Head(reader.buf).root},
              reader.all => Head(reader.buf).root \in RewatchRoots' \/
                            Head(reader.buf).root \notin LastingRoots
       PROVE  Starts'
  <2>1. Phase = "starting" /\ main.then # "begin"
    BY <1>16, Phases DEF Places
  <2> PICK s \in Seq(Entry) : s = reader.buf
    BY <1>1 DEF ReaderType
  <2> PICK x : x = Head(s).root
    OBVIOUS
  <2>2. /\ RootsOf(s) = {x} \union RootsOf(Tail(s)) /\ Len(Tail(s)) = Len(s) - 1 /\ x \in Root
        /\ \A i \in DOMAIN Tail(s) : i + 1 \in DOMAIN s /\ Tail(s)[i] = s[i + 1]
    BY <1>16, RootsOfTail
  <2>3. RootsOf(reader.buf)' = RootsOf(Tail(s)) /\ RootsOf(file)' = RootsOf(file)
    BY <1>16 DEF RootsOf
  <2>4. reader.all => \A i \in DOMAIN Tail(s) : ~Tail(s)[i].cut
    BY <2>1, <2>2 DEF Starts
  <2>5. /\ Len(s) \in Nat /\ reader.pos \in Nat /\ Cardinality(RewatchRoots) \in Nat
        /\ Len(Tail(s)) \in Nat
    BY <1>1, <1>16, RootsFinite, HeadTailProperties, LenProperties DEF ReaderType
  <2>6. Cardinality(RewatchRoots') \in Nat
        /\ Cardinality(RewatchRoots') <= Cardinality(RewatchRoots) + 1
    <3>1. CASE RewatchRoots' = RewatchRoots
      BY <2>5, <3>1
    <3>2. CASE RewatchRoots' = RewatchRoots \union {x}
      <4>1. CASE x \in RewatchRoots
        <5>1. RewatchRoots' = RewatchRoots
          BY <3>2, <4>1
        <5> QED
          BY <2>5, <5>1
      <4>2. CASE x \notin RewatchRoots
        <5>1. Cardinality(RewatchRoots \union {x}) = Cardinality(RewatchRoots) + 1
          BY <4>2, RootsFinite, FS_AddElement
        <5> QED
          BY <2>5, <3>2, <5>1
      <4> QED
        BY <4>1, <4>2
    <3> QED
      BY <1>16, <3>1, <3>2
  <2>7. \A r, q, b, n \in Nat : q <= r + 1 /\ r + b <= n => q + (b - 1) <= n
    OBVIOUS
  <2>8. Cardinality(RewatchRoots) + Len(s) <= reader.pos
        => Cardinality(RewatchRoots') + Len(Tail(s)) <= reader.pos
    BY <2>2, <2>5, <2>6, <2>7
  <2>9. reader.all => reader.pos # 0
    BY <1>16, <2>1 DEF Starts
  <2>10. RewatchRoots \subseteq RewatchRoots'
    BY <1>16
  <2>11. ASSUME reader.all
         PROVE  LastingRoots \intersect RootsOf(file) \subseteq
                    RewatchRoots' \union RootsOf(Tail(s))
    <3>1. LastingRoots \intersect RootsOf(file) \subseteq RewatchRoots \union RootsOf(s)
      BY <2>1, <2>9, <2>11 DEF Starts
    <3> QED
      BY <1>16, <2>2, <2>10, <2>11, <3>1
  <2>12. reader.all => Len(file) <= reader.pos
                       /\ Cardinality(RewatchRoots) + Len(s) <= reader.pos
    BY <2>1, <2>9 DEF Starts
  <2>13. main'.then # "begin" /\ main'.pc # "begin"
    BY <1>16, <2>1
  <2> QED
    BY <1>16, <2>3, <2>4, <2>8, <2>9, <2>11, <2>12, <2>13 DEF Starts
<1>17. ASSUME NEW x, x = Head(reader.buf).root, x.kind = "rewatch", Rewatch(x.path),
              main.pc = "read", reader.buf # <<>>, UNCHANGED <<file, dirs>>
       PROVE  Starts'
  <2>1. Phase = "starting"
    BY <1>17, Phases
  <2>2. x \in Root /\ x.path \in Path
    BY <1>1, <1>17, RootsOfTail DEF ReaderType, Root
  <2>3. /\ reader'.buf = Tail(reader.buf) /\ reader'.pos = reader.pos
        /\ reader'.all = reader.all
    BY <1>1, <1>17 DEF Rewatch, ReaderType
  <2>4. CASE x.path \in dirs /\ inotify_roots[x.path] = "none"
    <3>1. /\ inotify_roots' = [inotify_roots EXCEPT ![x.path] = "rewatch"]
          /\ main' = [pc |-> "dump", path |-> x.path, then |-> "read"]
      BY <1>17, <2>4 DEF Rewatch
    <3>2. RewatchRoots' = RewatchRoots \union {x}
      BY <1>1, <1>17, <2>2, <2>4, <3>1, RootAdded
    <3>3. \A q \in Path : inotify_roots'[q] \in {"none", "rewatch"}
      BY <1>1, <2>1, <3>1 DEF Starts
    <3> QED
      BY <1>16, <1>17, <2>3, <3>1, <3>2, <3>3
  <2>5. CASE ~(x.path \in dirs /\ inotify_roots[x.path] = "none")
    <3>1. UNCHANGED <<inotify_roots, main>>
      BY <1>17, <2>5 DEF Rewatch
    <3>2. RewatchRoots' = RewatchRoots
      BY <3>1 DEF RewatchRoots
    <3>3. x \in RewatchRoots \/ x \notin LastingRoots
      BY <1>17, <2>1, <2>2, <2>5 DEF Starts, RewatchRoots, LastingRoots, Places
    <3>4. \A q \in Path : inotify_roots'[q] \in {"none", "rewatch"}
      BY <2>1, <3>1 DEF Starts
    <3> QED
      BY <1>16, <1>17, <2>3, <3>1, <3>2, <3>3, <3>4
  <2> QED
    BY <2>4, <2>5
<1>18. ASSUME SkipEntry, main.pc = "read", reader.buf # <<>>, UNCHANGED <<file, dirs>>,
              Head(reader.buf).root.kind = "zero" \/ Head(reader.buf).cut
       PROVE  Starts'
  <2>1. Phase = "starting"
    BY <1>18, Phases
  <2>2. reader.all => Head(reader.buf).root.kind = "zero"
    BY <1>18, <2>1, HeadUncut
  <2>3. /\ reader'.buf = Tail(reader.buf) /\ reader'.pos = reader.pos
        /\ reader'.all = reader.all /\ UNCHANGED <<main, inotify_roots>>
    BY <1>1, <1>18 DEF SkipEntry, ReaderType
  <2>4. RewatchRoots' = RewatchRoots
    BY <2>3 DEF RewatchRoots
  <2>5. \A q \in Path : inotify_roots'[q] \in {"none", "rewatch"}
    BY <2>1, <2>3 DEF Starts
  <2>6. reader.all => Head(reader.buf).root \notin LastingRoots
    BY <2>2 DEF LastingRoots
  <2> QED
    BY <1>16, <1>18, <2>3, <2>4, <2>5, <2>6
<1>19. CASE ReadEntry \/ ReadCutEntry
  BY <1>4, <1>17, <1>18, <1>19 DEF ReadEntry, ReadCutEntry, WholeEntryRead, Die
<1> QED
  BY <1>5, <1>6, <1>7, <1>8, <1>9, <1>10, <1>11, <1>12, <1>13, <1>14, <1>15, <1>19
  DEF DumpNext, Kinds

-----------------------------------------------------------------------------
(* Every step is a step of RewatchSet or leaves its state as it is.        *)

Served  == IF Phase = "up" THEN RewatchRoots ELSE {}
Spilled == Phase = "starting" /\ ~reader.all
AskedOf == IF main.then = "answer" /\ Asked \in RewatchRoots THEN Asked ELSE NoPath
Leaving == {x \in RewatchRoots : BeingDestroyed(x.path)}

Abstract == [Promise!Next]_(Promise!svars)

(* A daemon that is not up serves and promises nothing new.                *)
LEMMA NotUp ==
    DumpTypeOK /\ Places /\ Phase # "up" =>
        Served = {} /\ Leaving = {} /\ AskedOf = NoPath /\ ~Writing
<1> SUFFICES ASSUME DumpTypeOK, Places, Phase # "up"
             PROVE  Served = {} /\ Leaving = {} /\ AskedOf = NoPath /\ ~Writing
  OBVIOUS
<1>1. Served = {} /\ ~Writing
  BY DEF Served, Writing
<1>2. Leaving = {}
  BY DEF Leaving, Places, BeingDestroyed
<1>3. main.then # "answer"
  BY Phases DEF Places
<1> QED
  BY <1>1, <1>2, <1>3 DEF AskedOf

(* A step that leaves the abstract state alone.                            *)
LEMMA Stutters ==
    ASSUME Kept' = Kept, Served' = Served, Phase' = Phase, Writing' <=> Writing,
           Spilled' <=> Spilled, AskedOf' = AskedOf, Leaving' = Leaving
    PROVE  Abstract
<1>1. Writing' = Writing /\ Spilled' = Spilled
  BY Zenon DEF Writing, Spilled
<1> QED
  BY <1>1, Zenon DEF Abstract, Promise!svars, Served, Spilled, AskedOf, Leaving

(* A step within a start, which may forget roots.                          *)
LEMMA Forgets ==
    ASSUME DumpTypeOK, DumpTypeOK', Places, Places', Phase = "starting", Phase' = "starting",
           reader'.all = reader.all, Kept' \subseteq Kept,
           ~reader.all \/ Kept \ Kept' \subseteq Root \ LastingRoots
    PROVE  Abstract
<1>1. Served = {} /\ Leaving = {} /\ AskedOf = NoPath /\ ~Writing
  BY NotUp
<1>2. (DumpTypeOK /\ Places /\ Phase # "up" =>
        Served = {} /\ Leaving = {} /\ AskedOf = NoPath /\ ~Writing)'
  BY NotUp, PTL
<1>3. Served' = {} /\ Leaving' = {} /\ AskedOf' = NoPath /\ ~Writing'
  BY <1>2
<1>4. /\ Phase = "starting"
      /\ Kept' \in SUBSET Kept
      /\ Spilled \/ Kept \ Kept' \subseteq Root \ LastingRoots
      /\ Served' = Served /\ Phase' = Phase /\ Writing' = Writing /\ Spilled' = Spilled
      /\ AskedOf' = AskedOf /\ Leaving' = Leaving
  <2>1. Spilled' = Spilled /\ (Spilled <=> ~reader.all)
    BY Zenon DEF Spilled
  <2>2. Writing' = Writing
    BY <1>1, <1>3, Zenon DEF Writing
  <2> QED
    BY <1>1, <1>3, <2>1, <2>2, Zenon
<1>5. Promise!Forget
  BY <1>4, Zenon DEF Promise!Forget, LastingRoots, Served, Spilled, AskedOf, Leaving
<1> QED
  BY <1>5 DEF Abstract, Promise!Next

(* The end of the process: what stays is what is in the file.              *)
LEMMA GoesDown ==
    ASSUME DumpTypeOK, DumpTypeOK', KeepInv, Places', Exit, UNCHANGED file, main.pc # "down"
    PROVE  Abstract
<1>0. Phase # "down" /\ Phase' = "down"
  BY Phases DEF Exit, At, Phase
<1>1. (DumpTypeOK /\ Places /\ Phase # "up" =>
        Served = {} /\ Leaving = {} /\ AskedOf = NoPath /\ ~Writing)'
  BY NotUp, PTL
<1>2. Served' = {} /\ Leaving' = {} /\ AskedOf' = NoPath /\ ~Writing' /\ ~Spilled'
  BY <1>0, <1>1 DEF Spilled
<1>3. Kept' = RootsOf(file)
  BY <1>0 DEF Kept, Writing, RootsOf
<1>4. IF Writing \/ Phase = "starting" THEN Kept' \in SUBSET Kept ELSE Kept' = Kept
  <2>1. CASE Phase = "starting"
    BY <1>3, <2>1 DEF Kept
  <2>2. CASE Phase # "starting" /\ Writing
    <3>1. RootsOf(file) \subseteq OrderSet
      BY <2>2 DEF KeepInv, WrittenSoFar, Writing
    <3>2. Kept = OrderSet
      BY <2>2 DEF Kept, OrderSet
    <3> QED
      BY <1>3, <2>2, <3>1, <3>2
  <2>3. CASE Phase # "starting" /\ ~Writing
    BY <1>3, <2>3 DEF Kept
  <2> QED
    BY <2>1, <2>2, <2>3
<1>5. Writing' = FALSE /\ Spilled' = FALSE
  BY <1>2, Zenon DEF Writing, Spilled
<1>6. Promise!GoDown
  BY <1>0, <1>2, <1>4, <1>5, Zenon DEF Promise!GoDown, Served, Spilled, AskedOf, Leaving
<1> QED
  BY <1>6 DEF Abstract, Promise!Next

(* The start of the process: it has spilled if the file has more entries   *)
(* than the buffer.                                                        *)
LEMMA StartsUp ==
    ASSUME DumpTypeOK, DumpTypeOK', KeepInv, Places', Start
    PROVE  Abstract
<1>0. Phase = "down" /\ Phase' = "starting" /\ UNCHANGED <<file, inotify_roots>>
  BY DEF Start, At, Phase
<1>1. (DumpTypeOK /\ Places /\ Phase # "up" =>
        Served = {} /\ Leaving = {} /\ AskedOf = NoPath /\ ~Writing)'
  BY NotUp, PTL
<1>2. Served' = {} /\ Leaving' = {} /\ AskedOf' = NoPath /\ ~Writing'
  BY <1>0, <1>1
<1>3. Served = {} /\ Leaving = {} /\ AskedOf = NoPath /\ ~Writing
  BY <1>0, NotUp DEF KeepInv
<1>4. Kept = RootsOf(file)
  BY <1>0, <1>3 DEF Kept
<1>5. Kept' = Kept
  <2>1. reader'.buf = <<>>
    BY DEF Start, NoReader
  <2>2. \A p \in Path : inotify_roots[p] = "none"
    BY DEF Start, KeepInv, Places
  <2>3. RewatchRoots' = {} /\ RootsOf(reader.buf)' = {} /\ RootsOf(file)' = RootsOf(file)
    BY <1>0, <2>1, <2>2, RootsOfEmpty DEF RewatchRoots, RootsOf, Root
  <2> QED
    BY <1>0, <1>4, <2>3 DEF Kept
<1>6. Spilled' = (Cardinality(Kept) > BufLines)
  <2>1. Cardinality(Kept) = Len(file) /\ Len(file) \in Nat /\ BufLines \in Nat
    BY <1>4, EntriesAreRoots, DumpAssumptions DEF DumpTypeOK, KeepInv, WrittenSoFar
  <2>2. reader'.all <=> Len(file) <= BufLines
    BY DEF Start, NoReader
  <2>3. Spilled' <=> Cardinality(Kept) > BufLines
    BY <1>0, <2>1, <2>2 DEF Spilled
  <2> QED
    BY <2>3, SMT DEF Spilled
<1>7. Writing' = Writing
  BY <1>2, <1>3, Zenon DEF Writing
<1>8. Promise!Cardinality(Kept) = Cardinality(Kept)
  BY Zenon DEF Promise!Cardinality, Cardinality
<1>9. Promise!Start
  BY <1>0, <1>2, <1>3, <1>5, <1>6, <1>7, <1>8, Zenon
  DEF Promise!Start, Served, Spilled, AskedOf, Leaving
<1> QED
  BY <1>9 DEF Abstract, Promise!Next

(* The loop is entered: what is kept is served.                            *)
LEMMA ComesBack ==
    ASSUME DumpTypeOK, DumpTypeOK', KeepInv, Places', EnterLoop
    PROVE  Abstract
<1>0. /\ Phase = "starting" /\ Phase' = "up" /\ main.pc = "begin" /\ main'.then = "serve"
      /\ UNCHANGED <<file, inotify_roots, destroyer, writer>>
  BY DEF EnterLoop, At, Phase
<1>1. Served = {} /\ Leaving = {} /\ AskedOf = NoPath /\ ~Writing
  BY <1>0, NotUp DEF KeepInv
<1>2. writer.by = Nobody
  BY <1>0, OnlyMainWrites DEF KeepInv
<1>3. RewatchRoots' = RewatchRoots /\ RootsOf(file)' = RootsOf(file)
  BY <1>0 DEF RewatchRoots, RootsOf
<1>4. ~Writing' /\ AskedOf' = NoPath /\ ~Spilled' /\ Served' = RewatchRoots
  BY <1>0, <1>2, <1>3 DEF Writing, AskedOf, Spilled, Served
<1>5. Leaving' = Leaving
  BY <1>0, <1>3 DEF Leaving, BeingDestroyed
<1>6. Kept = RewatchRoots /\ RootsOf(file) = RewatchRoots
  <2>1. RootsOf(file) = RewatchRoots /\ reader.buf = <<>>
    BY <1>0 DEF KeepInv, Starts, Places
  <2> QED
    BY <1>0, <2>1, RootsOfEmpty DEF Kept
<1>7. Kept' = RewatchRoots
  BY <1>0, <1>3, <1>4, <1>6 DEF Kept
<1>8. Writing' = Writing /\ Spilled' = FALSE
  BY <1>1, <1>4, Zenon DEF Writing, Spilled
<1>9. Promise!ComeBack
  BY <1>0, <1>1, <1>4, <1>5, <1>6, <1>7, <1>8, Zenon
  DEF Promise!ComeBack, Served, Spilled, AskedOf, Leaving
<1> QED
  BY <1>9 DEF Abstract, Promise!Next

(* inotify_dump_roots() begins in a daemon that is up.                     *)
LEMMA BeginsWrite ==
    ASSUME DumpTypeOK, NEW t \in Thread \union {"main"}, Truncate(t), UNCHANGED inotify_roots,
           Phase = "up", Phase' = "up", AskedOf' = AskedOf, Leaving' = Leaving
    PROVE  Abstract
<1>1. /\ OrderSet' = RewatchRoots /\ RewatchRoots' = RewatchRoots
      /\ writer.by = Nobody /\ writer'.by = t
  BY TruncateKeeps
<1>2. t # Nobody
  BY DumpAssumptions DEF Nobody
<1>3. ~Writing /\ Writing' /\ Served' = Served /\ Served = RewatchRoots /\ ~Spilled /\ ~Spilled'
  BY <1>1, <1>2 DEF Writing, Served, Spilled
<1>4. Kept' = RewatchRoots
  BY <1>1, <1>3 DEF Kept, OrderSet
<1>5. Writing' = TRUE /\ Spilled' = Spilled
  BY <1>3, Zenon DEF Writing, Spilled
<1>6. Promise!BeginWrite
  BY <1>3, <1>4, <1>5, Zenon DEF Promise!BeginWrite, Served, Spilled, AskedOf, Leaving
<1> QED
  BY <1>6 DEF Abstract, Promise!Next

(* It goes on or ends there.                                               *)
LEMMA EndsWrite ==
    ASSUME DumpTypeOK, KeepInv, NEW t \in Thread \union {"main"}, WriteOut(t),
           UNCHANGED inotify_roots,
           Phase = "up", Phase' = "up", AskedOf' = AskedOf, Leaving' = Leaving
    PROVE  Abstract
<1>1. /\ OrderSet = RewatchRoots /\ RewatchRoots' = RewatchRoots
      /\ writer.by = t /\ t # Nobody
      /\ \/ writer'.by = Nobody /\ RootsOf(file)' = RewatchRoots
         \/ writer'.by = t /\ OrderSet' = OrderSet
  BY WriteOutKeeps DEF KeepInv
<1>2. Writing /\ Served' = Served /\ ~Spilled /\ ~Spilled'
  BY <1>1 DEF Writing, Served, Spilled
<1>3. Kept = RewatchRoots
  BY <1>1, <1>2 DEF Kept, OrderSet
<1>4. CASE writer'.by = t /\ OrderSet' = OrderSet
  <2>1. Writing' /\ Kept' = Kept
    BY <1>1, <1>3, <1>4 DEF Writing, Kept, OrderSet
  <2> QED
    BY <1>2, <2>1, Stutters
<1>5. CASE writer'.by = Nobody /\ RootsOf(file)' = RewatchRoots
  <2>1. ~Writing' /\ Kept' = Kept
    BY <1>3, <1>5 DEF Writing, Kept, Nobody
  <2>2. Writing' = FALSE /\ Spilled' = Spilled
    BY <1>2, <2>1, Zenon DEF Writing, Spilled
  <2>3. Promise!EndWrite
    BY <1>2, <2>1, <2>2, Zenon DEF Promise!EndWrite, Served, Spilled, AskedOf, Leaving
  <2> QED
    BY <2>3 DEF Abstract, Promise!Next
<1> QED
  BY <1>1, <1>4, <1>5

(* A step of a daemon that is up which leaves the file and its writer.     *)
LEMMA UpFrame ==
    ASSUME UNCHANGED <<file, writer, reader>>, Phase = "up", Phase' = "up"
    PROVE  /\ Kept' = Kept /\ Writing' = Writing /\ Spilled' = Spilled
           /\ Served = RewatchRoots /\ Served' = RewatchRoots'
<1>1. RootsOf(file)' = RootsOf(file) /\ OrderSet' = OrderSet
  BY DEF RootsOf, OrderSet
<1>2. (Writing' <=> Writing) /\ ~Spilled /\ ~Spilled'
  BY DEF Writing, Spilled
<1>3. Writing' = Writing /\ Spilled' = Spilled
  BY <1>2, Zenon DEF Writing, Spilled
<1>4. Kept' = Kept
  BY <1>1, <1>2 DEF Kept, OrderSet
<1> QED
  BY <1>3, <1>4 DEF Served

(* A client's call to watch.                                               *)
LEMMA Watches ==
    ASSUME DumpTypeOK, KeepInv, NEW p \in Path, NEW kind \in {"plain", "rewatch", "zero"},
           WatchTree(p, kind)
    PROVE  Abstract
<1>1. /\ main.pc = "serve" /\ main.then = "serve" /\ inotify_roots[p] = "none"
      /\ main'.pc = "dump" /\ main'.then = "answer" /\ main'.path = p
      /\ inotify_roots' = [inotify_roots EXCEPT ![p] = kind] /\ writer.by = Nobody
      /\ UNCHANGED <<file, writer, reader, destroyer>>
  BY DEF WatchTree, Call, KeepInv, Places
<1>2. Phase = "up" /\ Phase' = "up"
  BY <1>1 DEF Phase
<1>3. /\ Kept' = Kept /\ Writing' = Writing /\ Spilled' = Spilled
      /\ Served = RewatchRoots /\ Served' = RewatchRoots'
  BY <1>1, <1>2, UpFrame
<1>4. inotify_roots \in [Path -> {"none", "plain", "rewatch", "zero"}]
  BY DEF DumpTypeOK, Kinds
<1>5. AskedOf = NoPath
  BY <1>1 DEF AskedOf
<1>6. ~BeingDestroyed(p)
  BY <1>1 DEF KeepInv, Workers, BeingDestroyed
<1>7. \A q \in Path : BeingDestroyed(q)' = BeingDestroyed(q)
  BY <1>1, Zenon DEF BeingDestroyed
<1>7a. \A y \in Root : y.path \in Path /\ y.kind # "none" /\ y.kind # "plain"
  BY DEF Root
<1>8. CASE kind \in {"rewatch", "zero"}
  <2> PICK x : x = [path |-> p, kind |-> kind]
    OBVIOUS
  <2>0. x \in Root /\ x.path = p /\ x.kind = kind
    BY <1>8 DEF Root
  <2>1. RewatchRoots' = RewatchRoots \union {x} /\ x \notin RewatchRoots
    BY <1>1, <1>4, <2>0, RootAdded
  <2>2. AskedOf' = x
    <3>1. Asked' = x
      BY <1>1, <1>4 DEF Asked
    <3> QED
      BY <1>1, <2>1, <3>1 DEF AskedOf
  <2>3. Leaving' = Leaving
    <3>1. \A y \in RewatchRoots \union {x} : y \in Root
      BY <2>0 DEF RewatchRoots
    <3>2. \A y \in RewatchRoots \union {x} : BeingDestroyed(y.path)' = BeingDestroyed(y.path)
      BY <1>7a, <1>7, <3>1
    <3> QED
      BY <1>6, <2>0, <2>1, <3>2 DEF Leaving
  <2>4. Promise!Watch(x)
    BY <1>2, <1>3, <1>5, <2>1, <2>2, <2>3, Zenon
    DEF Promise!Watch, Served, Spilled, AskedOf, Leaving
  <2> QED
    BY <2>0, <2>4 DEF Abstract, Promise!Next
<1>9. CASE kind = "plain"
  <2>0. \A y \in Root : y \in RewatchRoots' <=> y \in RewatchRoots
    <3> TAKE y \in Root
    <3>1. CASE y.path = p
      <4>1. inotify_roots'[y.path] = "plain" /\ inotify_roots[y.path] = "none"
        BY <1>1, <1>4, <1>9, <3>1
      <4> QED
        BY <1>7a, <4>1 DEF RewatchRoots
    <3>2. CASE y.path # p
      <4>1. inotify_roots'[y.path] = inotify_roots[y.path]
        BY <1>7a, <1>1, <1>4, <3>2
      <4> QED
        BY <4>1 DEF RewatchRoots
    <3> QED
      BY <3>1, <3>2
  <2>1. RewatchRoots' = RewatchRoots
    BY <2>0 DEF RewatchRoots
  <2>2. AskedOf' = NoPath
    <3>1. Asked'.kind = "plain"
      BY <1>1, <1>4, <1>9 DEF Asked
    <3>2. Asked' \notin RewatchRoots'
      BY <3>1 DEF RewatchRoots, Root
    <3> QED
      BY <3>2 DEF AskedOf
  <2>3. Leaving' = Leaving
    <3>1. \A y \in RewatchRoots : BeingDestroyed(y.path)' = BeingDestroyed(y.path)
      BY <1>7a, <1>7 DEF RewatchRoots
    <3> QED
      BY <2>1, <3>1 DEF Leaving
  <2> QED
    BY <1>2, <1>3, <1>5, <2>1, <2>2, <2>3, Stutters
<1> QED
  BY <1>8, <1>9

(* The answer to it: the root is kept by then.                             *)
LEMMA Answers ==
    ASSUME DumpTypeOK, KeepInv, Answer
    PROVE  Abstract
<1>1. /\ main.pc = "answer" /\ main.then = "answer" /\ main'.pc = "serve" /\ main'.then = "serve"
      /\ UNCHANGED <<file, writer, reader, destroyer, inotify_roots>>
  BY DEF Answer, At, KeepInv, Places
<1>2. Phase = "up" /\ Phase' = "up" /\ RewatchRoots' = RewatchRoots
  BY <1>1 DEF Phase, RewatchRoots
<1>3. /\ Kept' = Kept /\ Writing' = Writing /\ Spilled' = Spilled
      /\ Served = RewatchRoots /\ Served' = RewatchRoots'
  BY <1>1, <1>2, UpFrame
<1>4. Leaving' = Leaving /\ AskedOf' = NoPath
  BY <1>1, <1>2 DEF Leaving, BeingDestroyed, AskedOf, Asked
<1>5. CASE Asked \in RewatchRoots
  <2>1. AskedOf = Asked
    BY <1>1, <1>5 DEF AskedOf
  <2>2. Asked \in Kept
    <3>1. CASE writer.by = Nobody
      BY <1>1, <1>2, <1>5, <3>1 DEF KeepInv, Answered, Kept, Writing
    <3>2. CASE writer.by # Nobody
      BY <1>2, <1>5, <3>2 DEF KeepInv, WrittenSoFar, Kept, Writing, OrderSet
    <3> QED
      BY <3>1, <3>2
  <2>3. Promise!AnswerWatch
    BY <1>2, <1>3, <1>4, <2>1, <2>2, Zenon
    DEF Promise!AnswerWatch, Served, Spilled, AskedOf, Leaving
  <2> QED
    BY <2>3 DEF Abstract, Promise!Next
<1>6. CASE Asked \notin RewatchRoots
  <2>1. AskedOf = NoPath
    BY <1>6 DEF AskedOf
  <2> QED
    BY <1>2, <1>3, <1>4, <2>1, Stutters
<1> QED
  BY <1>5, <1>6

(* A client's call to unwatch, answered as soon as it is made.             *)
LEMMA Unwatches ==
    ASSUME DumpTypeOK, KeepInv, NEW p \in Path, UnwatchTree(p)
    PROVE  Abstract
<1>1. /\ main.pc = "serve" /\ main.then = "serve" /\ inotify_roots[p] # "none"
      /\ UNCHANGED <<file, writer, reader, main, inotify_roots>>
  BY DEF UnwatchTree, Call, KeepInv, Places
<1>2. Phase = "up" /\ Phase' = "up" /\ RewatchRoots' = RewatchRoots
  BY <1>1 DEF Phase, RewatchRoots
<1>3. /\ Kept' = Kept /\ Writing' = Writing /\ Spilled' = Spilled
      /\ Served = RewatchRoots /\ Served' = RewatchRoots'
  BY <1>1, <1>2, UpFrame
<1>4. AskedOf' = AskedOf
  BY <1>1, <1>2 DEF AskedOf, Asked
<1>5. PICK t \in Thread : /\ destroyer[t].pc = "idle"
                          /\ destroyer' = [destroyer EXCEPT ![t] = [pc |-> "work", path |-> p]]
  BY DEF UnwatchTree
<1>6. \A q : BeingDestroyed(q)' <=> BeingDestroyed(q) \/ q = p
  <2>1. \A u \in Thread : /\ u = t => destroyer'[u].pc = "work" /\ destroyer'[u].path = p
                          /\ u # t => destroyer'[u] = destroyer[u]
    BY <1>5 DEF DumpTypeOK
  <2> QED
    BY <1>5, <2>1 DEF BeingDestroyed
<1> PICK x : x = [path |-> p, kind |-> inotify_roots[p]]
  OBVIOUS
<1>7. \A y \in RewatchRoots : y.path = p <=> y = x
  BY DEF RewatchRoots, Root
<1>8. CASE x \in RewatchRoots
  <2>1. Leaving' = Leaving \union {x}
    BY <1>2, <1>6, <1>7, <1>8 DEF Leaving
  <2>2. x \in Root
    BY <1>8 DEF RewatchRoots
  <2>3. Promise!AnswerUnwatch(x)
    BY <1>2, <1>3, <1>4, <1>8, <2>1, Zenon
    DEF Promise!AnswerUnwatch, Served, Spilled, AskedOf, Leaving
  <2> QED
    BY <2>2, <2>3 DEF Abstract, Promise!Next
<1>9. CASE x \notin RewatchRoots
  <2>1. Leaving' = Leaving
    BY <1>2, <1>6, <1>7, <1>9 DEF Leaving
  <2> QED
    BY <1>2, <1>3, <1>4, <2>1, Stutters
<1> QED
  BY <1>8, <1>9

(* The root leaves the registry.                                           *)
LEMMA Leaves ==
    ASSUME DumpTypeOK, KeepInv, NEW t \in Thread, DestroyRoot(t)
    PROVE  Abstract
<1>1. /\ destroyer[t].pc = "work" /\ writer.by = Nobody
      /\ inotify_roots' = [inotify_roots EXCEPT ![destroyer[t].path] = "none"]
      /\ destroyer' = [destroyer EXCEPT ![t].pc = "dump"]
      /\ UNCHANGED <<file, writer, reader, main>>
  BY DEF DestroyRoot
<1>2. Phase = "up" /\ Phase' = "up"
  BY <1>1 DEF Phase, KeepInv, Places
<1>3. /\ Kept' = Kept /\ Writing' = Writing /\ Spilled' = Spilled
      /\ Served = RewatchRoots /\ Served' = RewatchRoots'
  BY <1>1, <1>2, UpFrame
<1> PICK p \in Path : p = destroyer[t].path
  BY <1>1 DEF KeepInv, Workers
<1>3a. inotify_roots \in [Path -> {"none", "plain", "rewatch", "zero"}]
  BY DEF DumpTypeOK, Kinds
<1> PICK x : x = [path |-> p, kind |-> inotify_roots[p]]
  OBVIOUS
<1>3b. \A y \in RewatchRoots : y.path = p <=> y = x
  BY DEF RewatchRoots, Root
<1>4. RewatchRoots' = RewatchRoots \ {x}
  <2>1. RewatchRoots' = {y \in RewatchRoots : y.path # p}
    BY <1>3a, <1>1, RootRemoved
  <2> QED
    BY <1>3b, <2>1
<1>5. \A q : BeingDestroyed(q)' <=> BeingDestroyed(q) /\ q # p
  <2>1. /\ destroyer'[t].pc = "dump"
        /\ \A u \in Thread : u # t => destroyer'[u] = destroyer[u]
    BY <1>1 DEF DumpTypeOK
  <2>2. \A u \in Thread : destroyer[u].pc = "work" /\ destroyer[u].path = p => u = t
    BY <1>1 DEF KeepInv, Workers
  <2> QED
    BY <1>1, <2>1, <2>2 DEF BeingDestroyed
<1>6. AskedOf' = AskedOf
  <2>1. main.then = "answer" => main.path # p
    BY <1>1 DEF KeepInv, Workers
  <2> QED
    <3>1. CASE main.then # "answer"
      BY <1>1, <3>1 DEF AskedOf
    <3>2. CASE main.then = "answer" /\ main.path \in Path
      <4>1. Asked' = Asked /\ Asked.path # p /\ x.path = p
        BY <1>3a, <1>1, <2>1, <3>2 DEF Asked
      <4> QED
        BY <1>1, <1>4, <4>1 DEF AskedOf
    <3>3. CASE main.then = "answer" /\ main.path \notin Path
      <4>1. Asked \notin RewatchRoots /\ Asked' \notin RewatchRoots'
        BY <1>1, <3>3 DEF Asked, RewatchRoots, Root
      <4> QED
        BY <4>1 DEF AskedOf
    <3> QED
      BY <3>1, <3>2, <3>3
<1>7. Leaving' = Leaving \ {x}
  BY <1>4, <1>5, <1>3b DEF Leaving
<1>8. CASE x \in RewatchRoots
  <2>1. x \in Leaving /\ x \in Root
    <3>1. x.path = p /\ BeingDestroyed(p)
      BY <1>1 DEF BeingDestroyed
    <3> QED
      BY <1>8, <3>1 DEF Leaving, RewatchRoots
  <2>2. Promise!Leave(x)
    BY <1>2, <1>3, <1>4, <1>6, <1>7, <2>1, Zenon
    DEF Promise!Leave, Served, Spilled, AskedOf, Leaving
  <2> QED
    BY <2>1, <2>2 DEF Abstract, Promise!Next
<1>9. CASE x \notin RewatchRoots
  <2>1. Leaving' = Leaving /\ RewatchRoots' = RewatchRoots
    BY <1>4, <1>7, <1>9 DEF Leaving
  <2> QED
    BY <1>2, <1>3, <1>6, <2>1, Stutters
<1> QED
  BY <1>8, <1>9

(* What follows the first k entries of a file.                             *)
LEMMA RestIs ==
    ASSUME NEW s \in Seq(Entry), NEW k \in Nat
    PROVE  /\ Len(SubSeq(s, k + 1, Len(s))) = (IF k + 1 <= Len(s) THEN Len(s) - k ELSE 0)
           /\ RootsOf(SubSeq(s, k + 1, Len(s))) \subseteq RootsOf(s)
<1> PICK n \in Nat : n = Len(s)
  OBVIOUS
<1> PICK m \in Int : m = k + 1
  OBVIOUS
<1>1. \A i \in m .. n : s[i] \in Entry
  BY ElementOfSeq
<1>2. /\ SubSeq(s, m, n) \in Seq(Entry)
      /\ Len(SubSeq(s, m, n)) = IF m <= n THEN n - m + 1 ELSE 0
      /\ \A i \in 1 .. n - m + 1 : SubSeq(s, m, n)[i] = s[m + i - 1]
  BY <1>1, SubSeqProperties
<1> PICK u : u = SubSeq(s, m, n)
  OBVIOUS
<1>3. DOMAIN u = 1 .. Len(u) /\ DOMAIN s = 1 .. n
  BY <1>2
<1>4. \A i \in 1 .. Len(u) : i \in 1 .. n - m + 1 /\ m + i - 1 \in 1 .. n
  BY <1>2
<1>5. \A i \in DOMAIN u : \E j \in DOMAIN s : u[i] = s[j]
  BY <1>2, <1>3, <1>4
<1> QED
  BY <1>2, <1>5 DEF RootsOf

(* A buffer is filled.                                                     *)
LEMMA Fills ==
    ASSUME DumpTypeOK, DumpTypeOK', KeepInv, Places', FillBuffer
    PROVE  Abstract
<1>1. PICK b \in Buffered(Unread) : reader' = [reader EXCEPT !.buf = b,
          !.pos = @ + IF Len(Unread) < BufLines THEN Len(Unread) ELSE BufLines]
  BY DEF FillBuffer
<1>2. /\ UNCHANGED <<file, inotify_roots, main>> /\ main.pc = "read" /\ Unread # <<>>
      /\ Phase = "starting" /\ Phase' = "starting"
  BY DEF FillBuffer, Phase
<1>3. reader'.buf = b /\ reader'.all = reader.all
  BY <1>1 DEF DumpTypeOK
<1>4. RewatchRoots' = RewatchRoots /\ RootsOf(file)' = RootsOf(file) /\ RootsOf(reader.buf)' = RootsOf(b)
  BY <1>2, <1>3 DEF RewatchRoots, RootsOf
<1> PICK s \in Seq(Entry) : s = file
  BY DEF DumpTypeOK
<1> PICK n \in Nat : n = Len(s)
  OBVIOUS
<1> PICK k \in Nat : k = reader.pos
  BY DEF DumpTypeOK
<1> PICK u : u = SubSeq(s, k + 1, n)
  OBVIOUS
<1>5. u = Unread /\ u \in Seq(Entry)
  BY UnreadIs DEF Unread
<1>6. RootsOf(b) \subseteq RootsOf(u)
  <2>0. b \in Buffered(u)
    BY <1>5
  <2>1. \A i \in DOMAIN b : i \in DOMAIN u /\ b[i].root = u[i].root
    BY <1>5, <2>0, BufferedIs
  <2>2. \A i \in DOMAIN b : b[i].root \in RootsOf(u)
    BY <2>1 DEF RootsOf
  <2> QED
    BY <2>2 DEF RootsOf
<1>7. Len(u) = (IF k + 1 <= n THEN n - k ELSE 0) /\ RootsOf(u) \subseteq RootsOf(s)
  BY RestIs
<1>8. k + 1 <= n
  <2>1. Len(u) # 0
    BY <1>2, <1>5, EmptySeq
  <2> QED
    BY <1>7, <2>1
<1>10. /\ Kept = RewatchRoots \union RootsOf(reader.buf) \union RootsOf(file)
       /\ Kept' = RewatchRoots \union RootsOf(file)
  BY <1>2, <1>4, <1>6, <1>7 DEF Kept
<1>11. ASSUME reader.all PROVE RootsOf(reader.buf) = {}
  <2>1. k = 0
    BY <1>2, <1>8, <1>11 DEF KeepInv, Starts
  <2>2. reader.buf = <<>>
    BY <1>2, <1>11, <2>1 DEF KeepInv, Starts
  <2> QED
    BY <2>2, RootsOfEmpty
<1> QED
  BY <1>2, <1>3, <1>10, <1>11, Forgets DEF KeepInv

(* An entry is taken from the buffer.  If nothing is cut, its root stays   *)
(* or is not one that lasts.                                               *)
LEMMA EntryRead ==
    ASSUME DumpTypeOK, DumpTypeOK', KeepInv, Places', NEW x, x = Head(reader.buf).root,
           main.pc = "read", reader.buf # <<>>, UNCHANGED <<file, dirs>>,
           reader'.buf = Tail(reader.buf), reader'.all = reader.all,
           main' = main \/ (main'.pc = "dump" /\ main'.then = "read"),
           \/ RewatchRoots' = RewatchRoots \union {x}
           \/ RewatchRoots' = RewatchRoots
              /\ (reader.all => x \in RewatchRoots \/ x \notin LastingRoots)
    PROVE  Abstract
<1>1. Phase = "starting" /\ Phase' = "starting"
  <2>1. main'.pc = "read" \/ (main'.pc = "dump" /\ main'.then = "read")
    OBVIOUS
  <2> QED
    BY <2>1 DEF Phase
<1> PICK s \in Seq(Entry) : s = reader.buf
  BY DEF DumpTypeOK
<1>2. RootsOf(s) = {x} \union RootsOf(Tail(s)) /\ x \in Root
  BY RootsOfTail
<1>3. RootsOf(reader.buf)' = RootsOf(Tail(s)) /\ RootsOf(file)' = RootsOf(file)
  BY DEF RootsOf
<1>4. /\ Kept = RewatchRoots \union RootsOf(s) \union RootsOf(file)
      /\ Kept' = RewatchRoots' \union RootsOf(Tail(s)) \union RootsOf(file)
  BY <1>1, <1>3 DEF Kept
<1>5. /\ Kept' \subseteq Kept
      /\ ~reader.all \/ Kept \ Kept' \subseteq Root \ LastingRoots
  BY <1>2, <1>4
<1> QED
  BY <1>1, <1>5, Forgets DEF KeepInv

(* A valid entry is watched or passed over by inotify_watch_tree().        *)
LEMMA Rewatches ==
    ASSUME DumpTypeOK, DumpTypeOK', KeepInv, Places', NEW x, x = Head(reader.buf).root,
           x.kind = "rewatch", Rewatch(x.path), main.pc = "read", reader.buf # <<>>,
           UNCHANGED <<file, dirs>>
    PROVE  Abstract
<1>1. Phase = "starting"
  BY DEF Phase
<1>2. x \in Root /\ x.path \in Path
  BY RootsOfTail DEF DumpTypeOK, Root
<1>3. reader'.buf = Tail(reader.buf) /\ reader'.all = reader.all
  BY DEF Rewatch, DumpTypeOK
<1>4. inotify_roots \in [Path -> {"none", "plain", "rewatch", "zero"}]
  BY DEF DumpTypeOK, Kinds
<1>5. CASE x.path \in dirs /\ inotify_roots[x.path] = "none"
  <2>1. /\ inotify_roots' = [inotify_roots EXCEPT ![x.path] = "rewatch"]
        /\ main'.pc = "dump" /\ main'.then = "read"
    BY <1>5 DEF Rewatch
  <2>2. RewatchRoots' = RewatchRoots \union {x}
    BY <1>2, <1>4, <1>5, <2>1, RootAdded
  <2> QED
    BY <1>3, <2>1, <2>2, EntryRead
<1>6. CASE ~(x.path \in dirs /\ inotify_roots[x.path] = "none")
  <2>1. RewatchRoots' = RewatchRoots /\ main' = main
    BY <1>6 DEF Rewatch, RewatchRoots
  <2>2. x \in RewatchRoots \/ x \notin LastingRoots
    BY <1>1, <1>2, <1>6 DEF KeepInv, Starts, RewatchRoots, LastingRoots, Places
  <2> QED
    BY <1>3, <2>1, <2>2, EntryRead
<1> QED
  BY <1>5, <1>6

(* An invalid entry is skipped.                                            *)
LEMMA Skips ==
    ASSUME DumpTypeOK, DumpTypeOK', KeepInv, Places', SkipEntry, main.pc = "read",
           reader.buf # <<>>, UNCHANGED <<file, dirs>>,
           Head(reader.buf).root.kind = "zero" \/ Head(reader.buf).cut
    PROVE  Abstract
<1>1. Phase = "starting"
  BY DEF Phase
<1>2. /\ reader'.buf = Tail(reader.buf) /\ reader'.all = reader.all /\ main' = main
      /\ RewatchRoots' = RewatchRoots
  BY DEF SkipEntry, DumpTypeOK, RewatchRoots
<1>3. reader.all => Head(reader.buf).root \notin LastingRoots
  BY <1>1, HeadUncut DEF KeepInv, LastingRoots
<1> QED
  BY <1>2, <1>3, EntryRead

(* A dump within a start.                                                  *)
LEMMA StartDumps ==
    ASSUME DumpTypeOK, DumpTypeOK', KeepInv, Places', Phase = "starting", Phase' = "starting",
           UNCHANGED <<reader, inotify_roots>>,
           \/ main.pc = "dump" /\ Truncate("main")
           \/ WriteOut("main")
           \/ UNCHANGED file
    PROVE  Abstract
<1>1. RewatchRoots' = RewatchRoots /\ RootsOf(reader.buf)' = RootsOf(reader.buf)
  BY DEF RewatchRoots, RootsOf
<1>2. /\ Kept = RewatchRoots \union RootsOf(reader.buf) \union RootsOf(file)
      /\ Kept' = RewatchRoots \union RootsOf(reader.buf) \union RootsOf(file)'
  BY <1>1 DEF Kept
<1>3. CASE main.pc = "dump" /\ Truncate("main")
  <2>1. RootsOf(file)' = {}
    BY <1>3, TruncateKeeps
  <2>2. ASSUME reader.all
        PROVE  LastingRoots \intersect RootsOf(file) \subseteq RewatchRoots \union RootsOf(reader.buf)
    <3>1. CASE reader.pos = 0
      <4>1. file = <<>>
        BY <1>3, <2>2, <3>1 DEF KeepInv, Starts
      <4> QED
        BY <4>1, RootsOfEmpty
    <3>2. CASE reader.pos # 0
      BY <2>2, <3>2 DEF KeepInv, Starts
    <3> QED
      BY <3>1, <3>2
  <2>3. RootsOf(file) \subseteq Root
    <3> PICK s \in Seq(Entry) : s = file
      BY DEF DumpTypeOK
    <3>1. \A i \in DOMAIN s : s[i] \in Entry
      BY ElementOfSeq
    <3> QED
      BY <3>1 DEF RootsOf, Entry
  <2>4. Kept' \subseteq Kept /\ (~reader.all \/ Kept \ Kept' \subseteq Root \ LastingRoots)
    BY <1>2, <2>1, <2>2, <2>3
  <2> QED
    BY <2>4, Forgets DEF KeepInv
<1>4. CASE WriteOut("main")
  <2>1. RootsOf(file) \subseteq RewatchRoots /\ RootsOf(file)' \subseteq RewatchRoots
    BY <1>4, WriteOutKeeps DEF KeepInv
  <2>2. Kept' = Kept
    BY <1>2, <2>1
  <2> QED
    BY <2>2, Forgets DEF KeepInv
<1>5. CASE UNCHANGED file
  <2>1. Kept' = Kept
    BY <1>2, <1>5 DEF RootsOf
  <2> QED
    BY <2>1, Forgets DEF KeepInv
<1> QED
  BY <1>3, <1>4, <1>5

(* Every step of the program is one of RewatchSet, or none.                *)
LEMMA StepKept ==
    ASSUME DumpTypeOK, KeepInv, [DumpNext]_dumpVars
    PROVE  Abstract
<1>0. DumpTypeOK' /\ Places'
  BY StepTypes, PlacesKept DEF KeepInv
<1>1. main \in MainType /\ destroyer \in [Thread -> WorkType]
  BY DEF DumpTypeOK, Kinds, MainType, WorkType
<1>2. CASE Start
  BY <1>0, <1>2, StartsUp
<1>3. CASE FillBuffer
  BY <1>0, <1>3, Fills
<1>4. CASE ReadEntry \/ ReadCutEntry
  <2>1. CASE Die
    BY <1>0, <1>4, <2>1, GoesDown DEF Die, ReadEntry, ReadCutEntry
  <2>2. CASE ~Die
    BY <1>0, <1>4, <2>2, Rewatches, Skips DEF ReadEntry, ReadCutEntry, WholeEntryRead
  <2> QED
    BY <2>1, <2>2
<1>5. CASE SetupDone
  <2>1. main.pc = "read" /\ main'.pc = "dump" /\ main'.then = "begin"
        /\ UNCHANGED <<file, reader, inotify_roots>>
    BY <1>5 DEF SetupDone, At
  <2>2. Phase = "starting" /\ Phase' = "starting"
    BY <2>1 DEF Phase
  <2> QED
    BY <1>0, <2>1, <2>2, StartDumps
<1>6. CASE EnterLoop
  BY <1>0, <1>6, ComesBack
<1>7. ASSUME UNCHANGED <<inotify_roots, destroyer>>, main'.then = main.then, main'.path = main.path
      PROVE  AskedOf' = AskedOf /\ Leaving' = Leaving
  BY <1>7 DEF AskedOf, Asked, Leaving, RewatchRoots, BeingDestroyed
<1>8. CASE MainTruncate
  <2>1. /\ main.pc = "dump" /\ main'.pc = "write" /\ main'.then = main.then /\ main'.path = main.path
        /\ UNCHANGED <<reader, inotify_roots, destroyer>> /\ Truncate("main")
    BY <1>1, <1>8 DEF MainTruncate, MainType
  <2>2. (Phase = "starting" /\ Phase' = "starting") \/ (Phase = "up" /\ Phase' = "up")
    BY <2>1 DEF Phase
  <2>3. AskedOf' = AskedOf /\ Leaving' = Leaving
    BY <1>7, <2>1
  <2> QED
    BY <1>0, <2>1, <2>2, <2>3, StartDumps, BeginsWrite
<1>9. CASE MainWriteOut
  <2>1. /\ main.pc = "write" /\ main'.then = main.then /\ main'.path = main.path
        /\ main'.pc \in {"write", main.then}
        /\ UNCHANGED <<reader, inotify_roots, destroyer>> /\ WriteOut("main")
    BY <1>1, <1>9 DEF MainWriteOut, MainType
  <2>2. (Phase = "starting" /\ Phase' = "starting") \/ (Phase = "up" /\ Phase' = "up")
    BY <1>1, <2>1 DEF Phase, MainType
  <2>3. AskedOf' = AskedOf /\ Leaving' = Leaving
    BY <1>7, <2>1
  <2> QED
    BY <1>0, <2>1, <2>2, <2>3, StartDumps, EndsWrite
<1>10. ASSUME NEW p \in Path, NEW kind \in {"plain", "rewatch", "zero"}, WatchTree(p, kind)
       PROVE  Abstract
  BY <1>10, Watches
<1>11. ASSUME NEW p \in Path, UnwatchTree(p) PROVE Abstract
  BY <1>11, Unwatches
<1>12. ASSUME NEW t \in Thread, DestroyRoot(t) PROVE Abstract
  BY <1>12, Leaves
<1>13. ASSUME NEW t \in Thread, DestroyTruncate(t) \/ DestroyWriteOut(t) PROVE Abstract
  <2>1. /\ destroyer[t].pc \in {"dump", "write"} /\ UNCHANGED <<main, inotify_roots>>
        /\ Truncate(t) \/ WriteOut(t)
    BY <1>13 DEF DestroyTruncate, DestroyWriteOut
  <2>2. Phase = "up" /\ Phase' = "up"
    BY <2>1 DEF KeepInv, Places, Phase
  <2>3. /\ destroyer'[t].pc # "work"
        /\ \A u \in Thread : u # t => destroyer'[u] = destroyer[u]
    BY <1>1, <1>13 DEF DestroyTruncate, DestroyWriteOut, NoThreads, WorkType
  <2>4. \A q : BeingDestroyed(q)' <=> BeingDestroyed(q)
    BY <2>1, <2>3 DEF BeingDestroyed
  <2>5. AskedOf' = AskedOf /\ Leaving' = Leaving
    BY <2>1, <2>4 DEF AskedOf, Asked, Leaving, RewatchRoots
  <2> QED
    BY <2>1, <2>2, <2>5, BeginsWrite, EndsWrite
<1>14. CASE Answer
  BY <1>14, Answers
<1>15. CASE Alarm \/ Stop
  <2>1. /\ main.pc = "serve" /\ main.then = "serve" /\ main'.pc = "dump"
        /\ main'.then \in {"serve", "exit"}
        /\ UNCHANGED <<file, writer, reader, destroyer, inotify_roots>>
    BY <1>15 DEF Alarm, Stop, Call, At, KeepInv, Places
  <2>2. Phase = "up" /\ Phase' = "up" /\ RewatchRoots' = RewatchRoots
    BY <2>1 DEF Phase, RewatchRoots
  <2>3. /\ Kept' = Kept /\ Writing' = Writing /\ Spilled' = Spilled
        /\ Served = RewatchRoots /\ Served' = RewatchRoots'
    BY <2>1, <2>2, UpFrame
  <2>4. AskedOf' = AskedOf /\ Leaving' = Leaving
    BY <2>1, <2>2 DEF AskedOf, Asked, Leaving, BeingDestroyed
  <2> QED
    BY <2>2, <2>3, <2>4, Stutters
<1>16. CASE StopExit
  BY <1>0, <1>16, GoesDown DEF StopExit
<1>17. CASE Crash
  BY <1>0, <1>17, GoesDown DEF Crash, Die
<1>18. CASE ChangeDirs \/ UNCHANGED dumpVars
  <2>1. UNCHANGED <<file, inotify_roots, main, reader, writer, destroyer>>
    BY <1>18 DEF ChangeDirs, dumpVars
  <2>2. /\ RootsOf(file)' = RootsOf(file) /\ OrderSet' = OrderSet /\ RewatchRoots' = RewatchRoots
        /\ RootsOf(reader.buf)' = RootsOf(reader.buf) /\ Phase' = Phase
    BY <2>1 DEF RootsOf, OrderSet, RewatchRoots, Phase
  <2>3. (Writing' <=> Writing) /\ (Spilled' <=> Spilled) /\ Served' = Served
    BY <2>1, <2>2 DEF Writing, Spilled, Served
  <2>4. Kept' = Kept
    BY <2>2, <2>3 DEF Kept, OrderSet
  <2>5. AskedOf' = AskedOf /\ Leaving' = Leaving
    BY <1>7, <2>1
  <2> QED
    BY <2>2, <2>3, <2>4, <2>5, Stutters
<1> QED
  BY <1>2, <1>3, <1>4, <1>5, <1>6, <1>8, <1>9, <1>10, <1>11, <1>12, <1>13, <1>14, <1>15,
     <1>16, <1>17, <1>18 DEF DumpNext, Kinds

(* The file keeps what RewatchSet promises, for any number of roots,       *)
(* threads, crashes and restarts and any size of the stdio buffer: a root  *)
(* whose watch was answered is in the file, is found by the next start and *)
(* leaves only when it is unwatched.  The limits are those that RewatchSet *)
(* states: a process that ends while it writes the file or starts, more    *)
(* roots than a buffer holds, a directory that is gone, max_events 0.      *)
THEOREM PromiseHolds == DumpSpec => PromiseKept
<1>1. DumpInit => KeepInv /\ Promise!Init
  <2> SUFFICES ASSUME DumpInit PROVE KeepInv /\ Promise!Init
    OBVIOUS
  <2>1. /\ main.pc = "down" /\ main.then = "serve" /\ Phase = "down" /\ file = <<>>
        /\ reader = NoReader /\ writer.by = Nobody /\ dirs = Path
        /\ \A p \in Path : inotify_roots[p] = "none"
        /\ \A t \in Thread : destroyer[t].pc = "idle"
    BY DEF DumpInit, At, Phase, Idle, NoThreads
  <2>2. KeepInv
    BY <2>1, RootsOfEmpty, DumpAssumptions
    DEF KeepInv, Places, Workers, WrittenSoFar, Starts, Answered
  <2>3. ~Writing /\ ~Spilled /\ Served = {} /\ AskedOf = NoPath
    BY <2>1 DEF Writing, Spilled, Served, AskedOf
  <2>4. Leaving = {}
    BY <2>1 DEF Leaving, BeingDestroyed
  <2>5. Kept = {}
    BY <2>1, <2>3, RootsOfEmpty DEF Kept
  <2>6. Writing = FALSE /\ Spilled = FALSE
    BY <2>3, Zenon DEF Writing, Spilled
  <2>7. Promise!Init
    BY <2>1, <2>3, <2>4, <2>5, <2>6, Zenon DEF Promise!Init, Served, Spilled, AskedOf, Leaving
  <2> QED
    BY <2>2, <2>7
<1>2. DumpTypeOK /\ KeepInv /\ [DumpNext]_dumpVars => KeepInv'
  BY PlacesKept, WorkersKept, WrittenKept, StartsKept, AnsweredKept DEF KeepInv
<1>3. DumpTypeOK /\ KeepInv /\ [DumpNext]_dumpVars => [Promise!Next]_(Promise!svars)
  BY StepKept DEF Abstract
<1>4. DumpSpec => []DumpTypeOK
  BY DumpTypeCorrect
<1> QED
  BY <1>1, <1>2, <1>3, <1>4, PTL DEF DumpSpec, PromiseKept, Promise!Spec

=============================================================================
