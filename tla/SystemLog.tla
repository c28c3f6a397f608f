------------------------------ MODULE SystemLog ------------------------------
(***************************************************************************)
(* system_log.c: router_printf, which every thread calls to write a line   *)
(* to router.log.  A mutex guards the line count, the date and the opening *)
(* of the file; a read-write lock keeps the file open while lines are      *)
(* written; the file is renamed after ui_rotate_c lines and when the day   *)
(* changes.  The locks are initialised before any thread runs and their    *)
(* calls do not fail.                                                      *)
(***************************************************************************)
EXTENDS Naturals, FiniteSets

CONSTANTS
  Thread,
  ui_rotate_c,
  Found,      \* lines that router.log may have when the program starts
  Level,      \* log levels; us_level_limit is the highest that is written
  us_level_limit,
  MaxLines,   \* bound: calls
  MaxDay,     \* bound: days
  MaxFails    \* bound: renames and calls of fopen that fail

None == "none"

ASSUME LogAssumption ==
  /\ IsFiniteSet(Thread) /\ None \notin Thread
  /\ ui_rotate_c \in Nat \ {0} /\ Found \subseteq Nat /\ Level \subseteq Nat
  /\ us_level_limit \in Nat /\ MaxLines \in Nat /\ MaxDay \in Nat \ {0} /\ MaxFails \in Nat

VARIABLES
  pc, date,     \* of each thread: where it is, and the date it took on entry
  mutex,        \* the holder of sg_mutex_log_print_times, or None
  writer,       \* the holder of the write side of sg_rwlock_log_token, or None
  readers,      \* the holders of the read side
  calls,        \* sg_ui_log_function_call_times
  system_time,  \* the date of the last split; 0 is the empty string
  open,         \* pst_out_file is not NULL
  lines,        \* lines in router.log
  old,          \* lines in renamed files and on stdout
  day,          \* the clock
  issued,       \* calls made
  failed        \* renames and calls of fopen that failed

vars == <<pc, date, mutex, writer, readers, calls, system_time, open, lines, old, day, issued,
          failed>>

\* router_log_init, and the program's first day.
Init ==
  /\ pc = [t \in Thread |-> "idle"] /\ date = [t \in Thread |-> 1]
  /\ mutex = None /\ writer = None /\ readers = {}
  /\ calls = 0 /\ system_time = 0 /\ open = FALSE
  /\ lines \in Found
  /\ old = 0 /\ day = 1 /\ issued = 0 /\ failed = 0

\* router_printf up to the mutex: the level decides, the date is taken, and is the
\* date of the log when there is none.
Enter(t) ==
  /\ pc[t] = "idle" /\ issued < MaxLines
  /\ issued' = issued + 1
  /\ \E loglevel \in Level :
       IF loglevel <= us_level_limit
       THEN /\ pc' = [pc EXCEPT ![t] = "mutex"]
            /\ date' = [date EXCEPT ![t] = day]
            /\ system_time' = IF system_time = 0 THEN day ELSE system_time
       ELSE UNCHANGED <<pc, date, system_time>>
  /\ UNCHANGED <<mutex, writer, readers, calls, open, lines, old, day, failed>>

Lock(t) ==
  /\ pc[t] = "mutex" /\ mutex = None
  /\ mutex' = t
  /\ pc' = [pc EXCEPT ![t] = "check"]
  /\ UNCHANGED <<date, writer, readers, calls, system_time, open, lines, old, day, issued, failed>>

\* Mutant of Check: && for ||.
CheckBoth(t) ==
  /\ pc[t] = "check"
  /\ \E n \in {IF calls = 0 THEN lines ELSE calls} :
       IF n >= ui_rotate_c /\ system_time # date[t]
       THEN /\ calls' = 0 /\ system_time' = date[t]
            /\ pc' = [pc EXCEPT ![t] = IF open THEN "wrlock" ELSE "open"]
       ELSE calls' = n /\ pc' = [pc EXCEPT ![t] = "open"] /\ UNCHANGED system_time
  /\ UNCHANGED <<date, mutex, writer, readers, open, lines, old, day, issued, failed>>

\* Whether to split: a count of 0 is first replaced by the lines of the file (wc -l).
Check(t) ==
  /\ pc[t] = "check"
  /\ \E n \in {IF calls = 0 THEN lines ELSE calls} :
       IF n >= ui_rotate_c \/ system_time # date[t]
       THEN /\ calls' = 0 /\ system_time' = date[t]
            /\ pc' = [pc EXCEPT ![t] = IF open THEN "wrlock" ELSE "open"]
       ELSE calls' = n /\ pc' = [pc EXCEPT ![t] = "open"] /\ UNCHANGED system_time
  /\ UNCHANGED <<date, mutex, writer, readers, open, lines, old, day, issued, failed>>

\* Mutant of WrLock: nobody waits for the readers.
WrLockAtOnce(t) ==
  /\ pc[t] = "wrlock" /\ writer = None
  /\ writer' = t
  /\ pc' = [pc EXCEPT ![t] = "split"]
  /\ UNCHANGED <<date, mutex, readers, calls, system_time, open, lines, old, day, issued, failed>>

WrLock(t) ==
  /\ pc[t] = "wrlock" /\ writer = None /\ readers = {}
  /\ writer' = t
  /\ pc' = [pc EXCEPT ![t] = "split"]
  /\ UNCHANGED <<date, mutex, readers, calls, system_time, open, lines, old, day, issued, failed>>

\* Mutant of split_log: the token is kept.
split_log_keeps(t) ==
  /\ pc[t] = "split"
  /\ open' = FALSE /\ old' = old + lines /\ lines' = 0
  /\ pc' = [pc EXCEPT ![t] = "open"]
  /\ UNCHANGED <<date, mutex, readers, writer, calls, system_time, day, issued, failed>>

\* split_log and safe_rename, and the release of the token: the file is closed
\* and renamed; after a rename that failed for 10 seconds it goes on as it is.
split_log(t) ==
  /\ pc[t] = "split"
  /\ open' = FALSE
  /\ \/ old' = old + lines /\ lines' = 0 /\ UNCHANGED failed
     \/ failed < MaxFails /\ failed' = failed + 1 /\ UNCHANGED <<old, lines>>
  /\ writer' = None
  /\ pc' = [pc EXCEPT ![t] = "open"]
  /\ UNCHANGED <<date, mutex, readers, calls, system_time, day, issued>>

\* The file is opened, if it is not open and fopen succeeds, the call counted and the
\* mutex released.
OpenFile(t) ==
  /\ pc[t] = "open"
  /\ \/ open' = TRUE /\ UNCHANGED failed
     \/ ~ open /\ failed < MaxFails /\ failed' = failed + 1 /\ UNCHANGED open
  /\ calls' = calls + 1
  /\ mutex' = None
  /\ pc' = [pc EXCEPT ![t] = "rdlock"]
  /\ UNCHANGED <<date, writer, readers, system_time, lines, old, day, issued>>

RdLock(t) ==
  /\ pc[t] = "rdlock" /\ writer = None
  /\ readers' = readers \cup {t}
  /\ pc' = [pc EXCEPT ![t] = "test"]
  /\ UNCHANGED <<date, mutex, writer, calls, system_time, open, lines, old, day, issued, failed>>

\* NULL != pst_out_file; another thread may have closed it since OpenFile.
Test(t) ==
  /\ pc[t] = "test"
  /\ pc' = [pc EXCEPT ![t] = IF open THEN "file" ELSE "stdout"]
  /\ UNCHANGED <<date, mutex, writer, readers, calls, system_time, open, lines, old, day, issued,
                 failed>>

\* The line goes to the file, or to stdout, and the token is released.
Write(t) ==
  /\ pc[t] \in {"file", "stdout"}
  /\ IF pc[t] = "file" THEN lines' = lines + 1 /\ UNCHANGED old
     ELSE old' = old + 1 /\ UNCHANGED lines
  /\ readers' = readers \ {t}
  /\ pc' = [pc EXCEPT ![t] = "idle"]
  /\ UNCHANGED <<date, mutex, writer, calls, system_time, open, day, issued, failed>>

Midnight ==
  /\ day < MaxDay
  /\ day' = day + 1
  /\ UNCHANGED <<pc, date, mutex, writer, readers, calls, system_time, open, lines, old, issued,
                 failed>>

router_printf(t) ==
  \/ Lock(t) \/ Check(t) \/ WrLock(t) \/ split_log(t) \/ OpenFile(t) \/ RdLock(t) \/ Test(t)
  \/ Write(t)

Next == Midnight \/ \E t \in Thread : Enter(t) \/ router_printf(t)

\* A thread in the call goes on when it can; of the threads that wait for the mutex
\* each gets it at last.
Spec ==
  /\ Init /\ [][Next]_vars
  /\ \A t \in Thread : WF_vars(router_printf(t)) /\ SF_vars(Lock(t))

-----------------------------------------------------------------------------
(* Properties *)

\* A thread that found the file open writes to an open file: no split_log closes it
\* in between.
NoUseAfterClose == \A t \in Thread : pc[t] = "file" => open

\* router.log stays near ui_rotate_c lines although the count is taken before the
\* line is written and the file found at the start is not split before it is open:
\* at most one line of every other thread comes after the count that splits, and a
\* rename or an fopen that fails costs one more round.
FileBounded ==
  \E found \in Found : lines <= found + (failed + 1) * ui_rotate_c + Cardinality(Thread) - 1

\* Every call returns: the thread that splits holds the mutex and waits for the
\* readers, but no reader waits for the mutex.
CallsReturn == \A t \in Thread : (pc[t] # "idle") ~> (pc[t] = "idle")
=============================================================================
