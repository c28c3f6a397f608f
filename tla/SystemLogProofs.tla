--------------------------- MODULE SystemLogProofs ---------------------------
(* The log file is not written after it was closed, and does not outgrow its *)
(* limit, for any number of threads.                                         *)
EXTENDS SystemLog, FiniteSetTheorems, TLAPS

-----------------------------------------------------------------------------
(* The inductive invariant *)

Place == {"idle", "mutex", "check", "wrlock", "split", "open", "rdlock", "test", "file", "stdout"}

LogTypeOK ==
  /\ pc \in [Thread -> Place]
  /\ mutex \in Thread \cup {None} /\ writer \in Thread \cup {None} /\ readers \subseteq Thread
  /\ calls \in Nat /\ lines \in Nat /\ failed \in Nat

\* Where a thread stands tells which locks it holds; the two sides of the token
\* exclude each other.
Locks ==
  /\ \A t \in Thread : mutex = t <=> pc[t] \in {"check", "wrlock", "split", "open"}
  /\ \A t \in Thread : writer = t <=> pc[t] = "split"
  /\ \A t \in Thread : t \in readers <=> pc[t] \in {"test", "file", "stdout"}
  /\ writer # None => readers = {}

\* The threads that may still add a line to router.log without being counted again.
Pending == {t \in Thread : pc[t] \in {"rdlock", "test", "file"}}

\* The lines of router.log, with those that are to come.
Due == lines + Cardinality(Pending)

Allowance(found) == found + Cardinality(Thread) + failed * ui_rotate_c

Splitting == \E t \in Thread : pc[t] \in {"wrlock", "split"}
Opening == \E t \in Thread : pc[t] = "open"

\* The line count bounds what is due, but for the lines found at the start, one line
\* of each other thread, and ui_rotate_c lines per failure.  A closed file between
\* two calls is a failed fopen, paid for in advance: the next split does not happen.
Counted(found) ==
  /\ calls <= ui_rotate_c
  /\ Opening => calls < ui_rotate_c
  /\ Splitting => calls = 0 /\ Due < ui_rotate_c + Allowance(found)
  /\ ~ Splitting /\ Opening => Due < calls + Allowance(found)
  /\ ~ Splitting /\ ~ Opening /\ calls = 0 => ~ open /\ lines = found /\ Pending = {}
  /\ ~ Splitting /\ ~ Opening /\ calls # 0 =>
       Due < calls + Allowance(found) /\ (~ open => Due + ui_rotate_c < calls + Allowance(found))

FileCounted == \E found \in Found : Counted(found)

-----------------------------------------------------------------------------
(* Types, locks and the open file *)

\* Every field keeps its type.
LEMMA LogTypeStep == LogTypeOK /\ [Next]_vars => LogTypeOK'
<1> SUFFICES ASSUME LogTypeOK, [Next]_vars PROVE LogTypeOK'
  OBVIOUS
<1> USE LogAssumption DEF LogTypeOK, Place
<1>1. ASSUME NEW t \in Thread, Enter(t) PROVE LogTypeOK'
  BY <1>1 DEF Enter
<1>2. ASSUME NEW t \in Thread, Lock(t) PROVE LogTypeOK'
  BY <1>2 DEF Lock
<1>3. ASSUME NEW t \in Thread, Check(t) PROVE LogTypeOK'
  BY <1>3 DEF Check
<1>4. ASSUME NEW t \in Thread, WrLock(t) PROVE LogTypeOK'
  BY <1>4 DEF WrLock
<1>5. ASSUME NEW t \in Thread, split_log(t) PROVE LogTypeOK'
  BY <1>5 DEF split_log
<1>6. ASSUME NEW t \in Thread, OpenFile(t) PROVE LogTypeOK'
  BY <1>6 DEF OpenFile
<1>7. ASSUME NEW t \in Thread, RdLock(t) PROVE LogTypeOK'
  BY <1>7 DEF RdLock
<1>8. ASSUME NEW t \in Thread, Test(t) PROVE LogTypeOK'
  BY <1>8 DEF Test
<1>9. ASSUME NEW t \in Thread, Write(t) PROVE LogTypeOK'
  BY <1>9 DEF Write
<1>10. CASE Midnight \/ UNCHANGED vars
  BY <1>10 DEF Midnight, vars
<1>11. QED
  BY <1>1, <1>2, <1>3, <1>4, <1>5, <1>6, <1>7, <1>8, <1>9, <1>10 DEF Next, router_printf

\* The locks are held by the threads at the places between taking and releasing
\* them, and a thread that is about to write to the file has it open: only a thread
\* with the write side of the token closes it.
LEMMA LocksStep ==
  LogTypeOK /\ Locks /\ NoUseAfterClose /\ [Next]_vars => Locks' /\ NoUseAfterClose'
<1> SUFFICES ASSUME LogTypeOK, Locks, NoUseAfterClose, [Next]_vars
             PROVE  Locks' /\ NoUseAfterClose'
  OBVIOUS
<1> USE LogAssumption DEF LogTypeOK, Locks, NoUseAfterClose
<1>1. ASSUME NEW t \in Thread, Enter(t) PROVE Locks' /\ NoUseAfterClose'
  BY <1>1 DEF Enter
<1>2. ASSUME NEW t \in Thread, Lock(t) PROVE Locks' /\ NoUseAfterClose'
  BY <1>2 DEF Lock
<1>3. ASSUME NEW t \in Thread, Check(t) PROVE Locks' /\ NoUseAfterClose'
  BY <1>3 DEF Check
<1>4. ASSUME NEW t \in Thread, WrLock(t) PROVE Locks' /\ NoUseAfterClose'
  BY <1>4 DEF WrLock
<1>5. ASSUME NEW t \in Thread, split_log(t) PROVE Locks' /\ NoUseAfterClose'
  BY <1>5 DEF split_log
<1>6. ASSUME NEW t \in Thread, OpenFile(t) PROVE Locks' /\ NoUseAfterClose'
  BY <1>6 DEF OpenFile
<1>7. ASSUME NEW t \in Thread, RdLock(t) PROVE Locks' /\ NoUseAfterClose'
  BY <1>7 DEF RdLock
<1>8. ASSUME NEW t \in Thread, Test(t) PROVE Locks' /\ NoUseAfterClose'
  BY <1>8 DEF Test
<1>9. ASSUME NEW t \in Thread, Write(t) PROVE Locks' /\ NoUseAfterClose'
  BY <1>9 DEF Write
<1>10. CASE Midnight \/ UNCHANGED vars
  BY <1>10 DEF Midnight, vars
<1>11. QED
  BY <1>1, <1>2, <1>3, <1>4, <1>5, <1>6, <1>7, <1>8, <1>9, <1>10 DEF Next, router_printf

\* No thread writes to a file that another one has closed: the code's test of
\* pst_out_file and the write stand under the read side of the token, the close
\* under the write side.
THEOREM LogNotUsedAfterClose == Spec => []NoUseAfterClose
<1>1. Init => LogTypeOK /\ Locks /\ NoUseAfterClose
  BY LogAssumption DEF Init, LogTypeOK, Place, Locks, NoUseAfterClose
<1>2. QED
  BY <1>1, LogTypeStep, LocksStep, PTL DEF Spec

-----------------------------------------------------------------------------
(* The length of the file *)

Writing == {"rdlock", "test", "file"}
Holding == {"check", "wrlock", "split", "open"}

\* How the number of pending threads changes when one thread moves.
LEMMA PendingMoves ==
  ASSUME LogTypeOK, NEW t \in Thread, NEW p \in Place, pc' = [pc EXCEPT ![t] = p]
  PROVE  /\ Cardinality(Thread) \in Nat /\ Cardinality(Pending) \in Nat
         /\ Cardinality(Pending)' \in Nat
         /\ (p \in Writing <=> pc[t] \in Writing) => Cardinality(Pending)' = Cardinality(Pending)
         /\ p \in Writing /\ pc[t] \notin Writing
              => Cardinality(Pending)' = Cardinality(Pending) + 1
         /\ p \notin Writing /\ pc[t] \in Writing
              => Cardinality(Pending)' = Cardinality(Pending) - 1
         /\ pc[t] \notin Writing => Cardinality(Pending) < Cardinality(Thread)
         /\ Pending = {} => pc[t] \notin Writing /\ (p \notin Writing => Pending' = {})
<1>1. IsFiniteSet(Thread) /\ Pending \in SUBSET Thread /\ Pending' \in SUBSET Thread
  BY LogAssumption DEF Pending
<1>2. /\ IsFiniteSet(Pending) /\ Cardinality(Pending) <= Cardinality(Thread)
      /\ Cardinality(Thread) = Cardinality(Pending) => Thread = Pending
      /\ IsFiniteSet(Pending')
  BY <1>1, FS_Subset
<1>3. /\ Cardinality(Thread) \in Nat /\ Cardinality(Pending) \in Nat
      /\ Cardinality(Pending') \in Nat
  BY <1>1, <1>2, FS_CardinalityType
<1>4. /\ Cardinality(Pending \cup {t}) =
           IF t \in Pending THEN Cardinality(Pending) ELSE Cardinality(Pending) + 1
      /\ Cardinality(Pending \ {t}) =
           IF t \in Pending THEN Cardinality(Pending) - 1 ELSE Cardinality(Pending)
  BY <1>2, FS_AddElement, FS_RemoveElement
<1>5. t \in Pending <=> pc[t] \in Writing
  BY DEF Pending, Writing
<1>6. Pending' = IF p \in Writing THEN Pending \cup {t} ELSE Pending \ {t}
  BY DEF Pending, Writing, LogTypeOK
<1>7. Cardinality(Pending)' = Cardinality(Pending')
  OBVIOUS
<1>8. pc[t] \notin Writing => Pending # Thread
  BY <1>5
<1>9. Pending = {} => pc[t] \notin Writing /\ (p \notin Writing => Pending' = {})
  BY <1>5, <1>6
<1>10. QED
  BY <1>2, <1>3, <1>4, <1>5, <1>6, <1>7, <1>8, <1>9

\* A failure buys ui_rotate_c lines.
LEMMA AllowanceGrows ==
  ASSUME LogTypeOK, Cardinality(Thread) \in Nat, NEW found \in Found
  PROVE  /\ Allowance(found) \in Nat /\ Allowance(found) >= Cardinality(Thread) + found
         /\ failed' = failed => Allowance(found)' = Allowance(found)
         /\ failed' = failed + 1 => Allowance(found)' = Allowance(found) + ui_rotate_c
<1>1. failed \in Nat /\ ui_rotate_c \in Nat /\ found \in Nat
  BY LogAssumption DEF LogTypeOK
<1>2. failed * ui_rotate_c \in Nat
  BY <1>1
<1>3. (failed + 1) * ui_rotate_c = failed * ui_rotate_c + ui_rotate_c
  BY <1>1
<1>4. Allowance(found) = found + Cardinality(Thread) + failed * ui_rotate_c
      /\ Allowance(found)' = found + Cardinality(Thread) + failed' * ui_rotate_c
  BY DEF Allowance
<1>5. QED
  BY <1>1, <1>2, <1>3, <1>4

\* A thread with the mutex is the only one between Lock and OpenFile.
LEMMA HolderAlone ==
  ASSUME LogTypeOK, Locks, NEW t \in Thread, NEW p \in Place, pc' = [pc EXCEPT ![t] = p]
  PROVE  /\ pc[t] \in Holding =>
              /\ Splitting <=> pc[t] \in {"wrlock", "split"}
              /\ Opening <=> pc[t] = "open"
              /\ Splitting' <=> p \in {"wrlock", "split"}
              /\ Opening' <=> p = "open"
         /\ pc[t] \notin Holding /\ p \notin {"wrlock", "split", "open"} =>
              (Splitting' <=> Splitting) /\ (Opening' <=> Opening)
<1>1. \A u \in Thread : pc'[u] = IF u = t THEN p ELSE pc[u]
  BY DEF LogTypeOK
<1>2. pc[t] \in Holding => \A u \in Thread : u # t => pc[u] \notin Holding
  BY DEF Locks, Holding
<1>3. pc[t] \in Holding =>
        /\ Splitting <=> pc[t] \in {"wrlock", "split"}
        /\ Opening <=> pc[t] = "open"
        /\ Splitting' <=> p \in {"wrlock", "split"}
        /\ Opening' <=> p = "open"
  BY <1>1, <1>2 DEF Holding, Splitting, Opening
<1>4. pc[t] \notin Holding /\ p \notin {"wrlock", "split", "open"} =>
        (Splitting' <=> Splitting) /\ (Opening' <=> Opening)
  BY <1>1 DEF Holding, Splitting, Opening
<1>5. QED
  BY <1>3, <1>4

\* Every step keeps the account of the lines.
LEMMA CountedStep ==
  ASSUME LogTypeOK, LogTypeOK', Locks, NEW found \in Found, Counted(found), [Next]_vars
  PROVE  Counted(found)'
<1> DEFINE P == Cardinality(Pending)
           A == Allowance(found)
<1>0. ui_rotate_c \in Nat /\ ui_rotate_c > 0 /\ found \in Nat
  BY LogAssumption
<1>a. /\ calls \in Nat /\ lines \in Nat /\ calls' \in Nat /\ lines' \in Nat
      /\ Due = lines + P /\ Due' = lines' + P'
  BY DEF LogTypeOK, Due
\* A thread that goes to p, with what the lemmas say of it.
<1> DEFINE Moves(t, p) == p \in Place /\ pc' = [pc EXCEPT ![t] = p]
           Pends(t, p) ==
             /\ P \in Nat /\ P' \in Nat
             /\ (p \in Writing <=> pc[t] \in Writing) => P' = P
             /\ p \in Writing /\ pc[t] \notin Writing => P' = P + 1
             /\ p \notin Writing /\ pc[t] \in Writing => P' = P - 1
             /\ pc[t] \notin Writing => P + found < A
             /\ Pending = {} => pc[t] \notin Writing /\ (p \notin Writing => Pending' = {})
             /\ A \in Nat
             /\ failed' = failed => A' = A
             /\ failed' = failed + 1 => A' = A + ui_rotate_c
<1>b. ASSUME NEW t \in Thread, NEW p, Moves(t, p) PROVE Pends(t, p)
  <2>1. Cardinality(Thread) \in Nat
    BY <1>b, PendingMoves
  <2>2. /\ A \in Nat /\ A >= Cardinality(Thread) + found
        /\ failed' = failed => A' = A
        /\ failed' = failed + 1 => A' = A + ui_rotate_c
    BY <2>1, AllowanceGrows
  <2> HIDE DEF A
  <2>3. /\ P \in Nat /\ P' \in Nat
        /\ (p \in Writing <=> pc[t] \in Writing) => P' = P
        /\ p \in Writing /\ pc[t] \notin Writing => P' = P + 1
        /\ p \notin Writing /\ pc[t] \in Writing => P' = P - 1
        /\ pc[t] \notin Writing => P < Cardinality(Thread)
        /\ Pending = {} => pc[t] \notin Writing /\ (p \notin Writing => Pending' = {})
    BY <1>b, PendingMoves
  <2> HIDE DEF P
  <2>4. pc[t] \notin Writing => P + found < A
    BY <1>0, <2>1, <2>2, <2>3
  <2>5. QED
    BY <2>2, <2>3, <2>4
<1> HIDE DEF P
<1> USE <1>0, <1>a DEF Writing, Holding
<1>c. UNCHANGED <<pc, calls, lines, failed, open>> => Counted(found)'
  <2> SUFFICES ASSUME UNCHANGED <<pc, calls, lines, failed, open>> PROVE Counted(found)'
    OBVIOUS
  <2>1. Pending' = Pending /\ A' = A /\ (Splitting' <=> Splitting) /\ (Opening' <=> Opening)
    BY DEF Pending, A, Allowance, Splitting, Opening
  <2>2. Due' = Due
    BY <2>1 DEF P
  <2>3. QED
    BY <2>1, <2>2 DEF Counted, A
<1>1. ASSUME NEW t \in Thread, Enter(t) PROVE Counted(found)'
  <2>1. UNCHANGED <<calls, lines, failed, open>>
    BY <1>1 DEF Enter
  <2>2. CASE pc' = pc
    BY <1>c, <2>1, <2>2
  <2>3. CASE pc' # pc
    <3>1. pc[t] = "idle" /\ Moves(t, "mutex")
      BY <1>1, <2>3 DEF Enter, Place
    <3>2. (Splitting' <=> Splitting) /\ (Opening' <=> Opening)
      BY <3>1, HolderAlone
    <3>3. Pends(t, "mutex")
      BY <1>b, <3>1
    <3>4. QED
      BY <2>1, <3>1, <3>2, <3>3 DEF Counted, A
  <2>4. QED
    BY <2>2, <2>3
<1>2. ASSUME NEW t \in Thread, Lock(t) PROVE Counted(found)'
  <2>1. pc[t] = "mutex" /\ Moves(t, "check")
    BY <1>2 DEF Lock, Place
  <2>2. (Splitting' <=> Splitting) /\ (Opening' <=> Opening)
    BY <2>1, HolderAlone
  <2>3. Pends(t, "check")
    BY <1>b, <2>1
  <2>4. UNCHANGED <<calls, lines, failed, open>>
    BY <1>2 DEF Lock
  <2>5. QED
    BY <2>1, <2>2, <2>3, <2>4 DEF Counted, A
<1>3. ASSUME NEW t \in Thread, Check(t) PROVE Counted(found)'
  <2>1. PICK n \in {IF calls = 0 THEN lines ELSE calls} :
          \/ calls' = 0 /\ pc' = [pc EXCEPT ![t] = IF open THEN "wrlock" ELSE "open"]
          \/ n < ui_rotate_c /\ calls' = n /\ pc' = [pc EXCEPT ![t] = "open"]
    BY <1>3 DEF Check
  <2>2. pc[t] = "check" /\ UNCHANGED <<lines, failed, open>>
    BY <1>3 DEF Check
  <2>3. \A p \in {"wrlock", "open"} : pc' = [pc EXCEPT ![t] = p] =>
          /\ Pends(t, p)
          /\ ~ Splitting /\ ~ Opening
          /\ Splitting' <=> p = "wrlock"
          /\ Opening' <=> p = "open"
    <3> SUFFICES ASSUME NEW p \in {"wrlock", "open"}, pc' = [pc EXCEPT ![t] = p]
                 PROVE  /\ Pends(t, p)
                        /\ ~ Splitting /\ ~ Opening
                        /\ Splitting' <=> p = "wrlock"
                        /\ Opening' <=> p = "open"
      OBVIOUS
    <3>1. Moves(t, p)
      BY DEF Place
    <3>2. Pends(t, p)
      BY <1>b, <3>1
    <3>3. /\ Splitting <=> pc[t] \in {"wrlock", "split"}
          /\ Opening <=> pc[t] = "open"
          /\ Splitting' <=> p \in {"wrlock", "split"}
          /\ Opening' <=> p = "open"
      BY <2>2, <3>1, HolderAlone
    <3>4. QED
      BY <2>2, <3>2, <3>3
  <2>4. CASE calls' = 0 /\ open /\ pc' = [pc EXCEPT ![t] = "wrlock"]
    BY <2>2, <2>3, <2>4 DEF Counted, A
  <2>5. CASE calls' = 0 /\ ~ open /\ pc' = [pc EXCEPT ![t] = "open"]
    BY <2>2, <2>3, <2>5 DEF Counted, A
  <2>6. CASE n < ui_rotate_c /\ calls' = n /\ pc' = [pc EXCEPT ![t] = "open"]
    BY <2>1, <2>2, <2>3, <2>6 DEF Counted, A
  <2>7. QED
    BY <2>1, <2>4, <2>5, <2>6
<1>4. ASSUME NEW t \in Thread, WrLock(t) PROVE Counted(found)'
  <2>1. pc[t] = "wrlock" /\ Moves(t, "split")
    BY <1>4 DEF WrLock, Place
  <2>2. /\ Splitting <=> "wrlock" \in {"wrlock", "split"}
        /\ Opening <=> "wrlock" = "open"
        /\ Splitting' <=> "split" \in {"wrlock", "split"}
        /\ Opening' <=> "split" = "open"
    BY <2>1, HolderAlone
  <2>3. Pends(t, "split")
    BY <1>b, <2>1
  <2>4. UNCHANGED <<calls, lines, failed, open>>
    BY <1>4 DEF WrLock
  <2>5. QED
    BY <2>1, <2>2, <2>3, <2>4 DEF Counted, A
<1>5. ASSUME NEW t \in Thread, split_log(t) PROVE Counted(found)'
  <2>1. pc[t] = "split" /\ Moves(t, "open")
    BY <1>5 DEF split_log, Place
  <2>2. /\ Splitting <=> "split" \in {"wrlock", "split"}
        /\ Opening <=> "split" = "open"
        /\ Splitting' <=> "open" \in {"wrlock", "split"}
        /\ Opening' <=> "open" = "open"
    BY <2>1, HolderAlone
  <2>3. Pends(t, "open")
    BY <1>b, <2>1
  <2>4. /\ calls' = calls
        /\ (lines' = 0 /\ failed' = failed) \/ (lines' = lines /\ failed' = failed + 1)
    BY <1>5 DEF split_log
  <2>5. QED
    BY <2>1, <2>2, <2>3, <2>4 DEF Counted, A
<1>6. ASSUME NEW t \in Thread, OpenFile(t) PROVE Counted(found)'
  <2>1. pc[t] = "open" /\ Moves(t, "rdlock")
    BY <1>6 DEF OpenFile, Place
  <2>2. /\ Splitting <=> "open" \in {"wrlock", "split"}
        /\ Opening <=> "open" = "open"
        /\ Splitting' <=> "rdlock" \in {"wrlock", "split"}
        /\ Opening' <=> "rdlock" = "open"
    BY <2>1, HolderAlone
  <2>3. Pends(t, "rdlock")
    BY <1>b, <2>1
  <2>4. /\ calls' = calls + 1 /\ lines' = lines
        /\ (open' /\ failed' = failed) \/ (~ open' /\ failed' = failed + 1)
    BY <1>6 DEF OpenFile
  <2>5. QED
    BY <2>1, <2>2, <2>3, <2>4 DEF Counted, A
<1>7. ASSUME NEW t \in Thread, RdLock(t) PROVE Counted(found)'
  <2>1. pc[t] = "rdlock" /\ Moves(t, "test")
    BY <1>7 DEF RdLock, Place
  <2>2. (Splitting' <=> Splitting) /\ (Opening' <=> Opening)
    BY <2>1, HolderAlone
  <2>3. Pends(t, "test")
    BY <1>b, <2>1
  <2>4. UNCHANGED <<calls, lines, failed, open>>
    BY <1>7 DEF RdLock
  <2>5. QED
    BY <2>1, <2>2, <2>3, <2>4 DEF Counted, A
<1>8. ASSUME NEW t \in Thread, Test(t) PROVE Counted(found)'
  <2>1. PICK p \in {"file", "stdout"} : pc[t] = "test" /\ Moves(t, p)
    BY <1>8 DEF Test, Place
  <2>2. (Splitting' <=> Splitting) /\ (Opening' <=> Opening)
    BY <2>1, HolderAlone
  <2>3. Pends(t, p)
    BY <1>b, <2>1
  <2>4. UNCHANGED <<calls, lines, failed, open>>
    BY <1>8 DEF Test
  <2>5. QED
    BY <2>1, <2>2, <2>3, <2>4 DEF Counted, A
<1>9. ASSUME NEW t \in Thread, Write(t) PROVE Counted(found)'
  <2>1. pc[t] \in {"file", "stdout"} /\ Moves(t, "idle")
    BY <1>9 DEF Write, Place
  <2>2. (Splitting' <=> Splitting) /\ (Opening' <=> Opening)
    BY <2>1, HolderAlone
  <2>3. Pends(t, "idle")
    BY <1>b, <2>1
  <2>4. /\ UNCHANGED <<calls, failed, open>>
        /\ lines' = IF pc[t] = "file" THEN lines + 1 ELSE lines
    BY <1>9 DEF Write
  <2>5. QED
    BY <2>1, <2>2, <2>3, <2>4 DEF Counted, A
<1>10. CASE Midnight \/ UNCHANGED vars
  BY <1>10, <1>c DEF Midnight, vars
<1>11. QED
  BY <1>1, <1>2, <1>3, <1>4, <1>5, <1>6, <1>7, <1>8, <1>9, <1>10 DEF Next, router_printf

\* What the account says of the file.
LEMMA CountedBounds == LogTypeOK /\ FileCounted => FileBounded
<1> SUFFICES ASSUME LogTypeOK, NEW found \in Found, Counted(found)
             PROVE  lines <= found + (failed + 1) * ui_rotate_c + Cardinality(Thread) - 1
  BY DEF FileCounted, FileBounded
<1> DEFINE N == Cardinality(Thread)
           R == failed * ui_rotate_c
<1>1. Pending \in SUBSET Thread /\ IsFiniteSet(Thread)
  BY LogAssumption DEF Pending
<1>2. IsFiniteSet(Pending)
  BY <1>1, FS_Subset
<1>3. N \in Nat /\ Cardinality(Pending) \in Nat
  BY <1>1, <1>2, FS_CardinalityType
<1>4. /\ lines \in Nat /\ calls \in Nat /\ failed \in Nat /\ found \in Nat
      /\ ui_rotate_c \in Nat /\ ui_rotate_c > 0
  BY LogAssumption DEF LogTypeOK
<1>5. R \in Nat /\ (failed + 1) * ui_rotate_c = R + ui_rotate_c
  BY <1>4
<1>6. Allowance(found) = found + N + R /\ lines <= Due
  BY <1>3, <1>4 DEF Allowance, Due
<1> HIDE DEF N, R
<1>7. lines <= found + R + ui_rotate_c + N - 1
  <2>1. Due \in Nat
    BY <1>3, <1>4 DEF Due
  <2>2. CASE Splitting
    BY <1>3, <1>4, <1>5, <1>6, <2>1, <2>2 DEF Counted
  <2>3. CASE ~ Splitting /\ Opening
    BY <1>3, <1>4, <1>5, <1>6, <2>1, <2>3 DEF Counted
  <2>4. CASE ~ Splitting /\ ~ Opening /\ calls = 0
    BY <1>3, <1>4, <1>5, <2>4 DEF Counted
  <2>5. CASE ~ Splitting /\ ~ Opening /\ calls # 0
    BY <1>3, <1>4, <1>5, <1>6, <2>1, <2>5 DEF Counted
  <2>6. QED
    BY <2>2, <2>3, <2>4, <2>5
<1>8. QED
  BY <1>3, <1>4, <1>5, <1>7 DEF N

\* router.log never has more lines than it was found with, ui_rotate_c for every
\* failed rename or fopen and ui_rotate_c more, and one for every other thread,
\* although the lines are counted before they are written.
THEOREM LogFileBounded == Spec => []FileBounded
<1>1. Init => LogTypeOK /\ Locks /\ NoUseAfterClose
  BY LogAssumption DEF Init, LogTypeOK, Place, Locks, NoUseAfterClose
<1>2. Init => FileCounted
  <2> SUFFICES ASSUME Init PROVE FileCounted
    OBVIOUS
  <2>1. lines \in Found /\ calls = 0 /\ ~ open /\ ui_rotate_c \in Nat
    BY LogAssumption DEF Init
  <2>2. Pending = {} /\ ~ Splitting /\ ~ Opening
    BY DEF Init, Pending, Splitting, Opening
  <2>3. Counted(lines)
    BY <2>1, <2>2 DEF Counted
  <2>4. QED
    BY <2>1, <2>3 DEF FileCounted
<1>3. LogTypeOK /\ Locks /\ FileCounted /\ [Next]_vars => FileCounted'
  <2> SUFFICES ASSUME LogTypeOK, Locks, FileCounted, [Next]_vars PROVE FileCounted'
    OBVIOUS
  <2>1. PICK found \in Found : Counted(found)
    BY DEF FileCounted
  <2>2. LogTypeOK'
    BY LogTypeStep
  <2>3. Counted(found)'
    BY <2>1, <2>2, CountedStep
  <2>4. QED
    BY <2>3 DEF FileCounted
<1>4. QED
  BY <1>1, <1>2, <1>3, LogTypeStep, LocksStep, CountedBounds, PTL DEF Spec
=============================================================================
