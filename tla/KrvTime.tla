------------------------------ MODULE KrvTime ------------------------------
(***************************************************************************)
(* Machine time as the firmware sees it.  The CSR unit counts clocks in    *)
(* two halves, time and timeh; the firmware reads one half after the other *)
(* (blinker.dump: get_timeh first) while the counter runs on.  wait_ms     *)
(* waits by it, and VL53L1X_read(true) limits its polling by it, in        *)
(* milliseconds kept in 16 bits.                                           *)
(***************************************************************************)
EXTENDS Integers

CONSTANTS
  HALFTIME,       \* number of values of time and of timeh (2^32)
  XTAL_FREQ_KHZ,  \* clocks in a millisecond (70000)
  MSWORD,         \* number of values of timeout_start_ms (2^16)
  io_timeout,     \* milliseconds VL53L1X_read polls for (1000)
  Delays,         \* milliseconds wait_ms is called with
  MaxGap          \* bound: clocks between two steps of the program

ASSUME TimeAssumption ==
  /\ HALFTIME \in Nat \ {0} /\ XTAL_FREQ_KHZ \in Nat \ {0} /\ MSWORD \in Nat \ {0}
  /\ io_timeout \in Nat \ {0} /\ Delays \subseteq Nat /\ MaxGap \in Nat

VARIABLES
  time, timeh,    \* the halves of the counter
  tpc,            \* where the program is
  hi,             \* what get_timeh returned
  start,          \* oldtime of wait_ms, timeout_start_ms of VL53L1X_read
  limit,          \* comp of wait_ms
  gap,            \* clocks since the program's last step
  elapsed,        \* history: clocks since the call's first reading
  torn            \* history: a reading of this call met a carry

timeVars == <<time, timeh, tpc, hi, start, limit, gap, elapsed, torn>>

Half == 0 .. HALFTIME - 1

(* The counter, and the 64-bit value the program makes of two halves. *)
count == timeh * HALFTIME + time
reading == hi * HALFTIME + time

(* get_time_ms of a reading, cut to 16 bits. *)
ms16(t) == (t \div XTAL_FREQ_KHZ) % MSWORD

WaitCode == {"wait.old.h", "wait.old.l", "wait.now.h", "wait.now.l"}
PollCode == {"poll.start.h", "poll.start.l", "poll.ready", "poll.now.h", "poll.now.l"}
Outcomes == {"idle", "waited", "ready", "timeout"}

High == {"wait.old.h", "wait.now.h", "poll.start.h", "poll.now.h"}
First == {"wait.old.l", "poll.start.l"}

AfterHigh(pc) == CASE pc = "wait.old.h"   -> "wait.old.l"
                   [] pc = "wait.now.h"   -> "wait.now.l"
                   [] pc = "poll.start.h" -> "poll.start.l"
                   [] pc = "poll.now.h"   -> "poll.now.l"

(* The differences are unsigned: of 64 bits, and of 16. *)
waitOver(now) == (now - start) % (HALFTIME * HALFTIME) > limit

(* Mutants: the time-out counts a millisecond begun as one passed; the     *)
(* difference of two 16-bit times is not cut to 16 bits.                   *)
timeoutExpiredEarly(now)  == (ms16(now) - start) % MSWORD >= io_timeout
timeoutExpiredSigned(now) == ms16(now) - start > io_timeout

checkTimeoutExpired(now) == (ms16(now) - start) % MSWORD > io_timeout
---------------------------------------------------------------------------
TimeInit ==
  /\ time \in Half /\ timeh \in Half
  /\ tpc = "idle" /\ hi = 0 /\ start = 0 /\ limit = 0
  /\ gap = 0 /\ elapsed = 0 /\ torn = FALSE

(* One clock.  Bounds: the program takes its next step after at most MaxGap *)
(* clocks, and the 64-bit counter does not wrap (8000 years).              *)
Tick ==
  /\ gap < MaxGap \/ tpc \in Outcomes
  /\ time # HALFTIME - 1 \/ timeh # HALFTIME - 1
  /\ time' = (time + 1) % HALFTIME
  /\ timeh' = IF time = HALFTIME - 1 THEN (timeh + 1) % HALFTIME ELSE timeh
  /\ IF tpc \in Outcomes
     THEN UNCHANGED <<gap, elapsed>>
     ELSE gap' = gap + 1 /\ elapsed' = elapsed + 1
  /\ UNCHANGED <<tpc, hi, start, limit, torn>>

Goto(pc) == tpc' = pc /\ gap' = 0 /\ UNCHANGED <<time, timeh>>

CallWait(msec) ==
  /\ tpc \in Outcomes
  /\ Goto("wait.old.h")
  /\ limit' = XTAL_FREQ_KHZ * msec
  /\ elapsed' = 0 /\ torn' = FALSE
  /\ UNCHANGED <<hi, start>>

CallPoll ==
  /\ tpc \in Outcomes
  /\ Goto("poll.start.h")
  /\ elapsed' = 0 /\ torn' = FALSE
  /\ UNCHANGED <<hi, start, limit>>

ReadHigh ==
  /\ tpc \in High
  /\ Goto(AfterHigh(tpc))
  /\ hi' = timeh
  /\ UNCHANGED <<start, limit, elapsed, torn>>

(* The second half of the reading a wait or a time-out starts from. *)
ReadStart ==
  /\ tpc \in First
  /\ Goto(IF tpc = "wait.old.l" THEN "wait.now.h" ELSE "poll.ready")
  /\ start' = IF tpc = "wait.old.l" THEN reading ELSE ms16(reading)
  /\ elapsed' = 0 /\ torn' = (hi # timeh)
  /\ UNCHANGED <<hi, limit>>

(* VL53L1X_dataReady: the sensor has a result or not. *)
DataReady ==
  /\ tpc = "poll.ready"
  /\ Goto("ready") \/ Goto("poll.now.h")
  /\ UNCHANGED <<hi, start, limit, elapsed, torn>>

CheckWait ==
  /\ tpc = "wait.now.l"
  /\ Goto(IF waitOver(reading) THEN "waited" ELSE "wait.now.h")
  /\ torn' = (torn \/ hi # timeh)
  /\ UNCHANGED <<hi, start, limit, elapsed>>

CheckTimeout ==
  /\ tpc = "poll.now.l"
  /\ Goto(IF checkTimeoutExpired(reading) THEN "timeout" ELSE "poll.ready")
  /\ torn' = (torn \/ hi # timeh)
  /\ UNCHANGED <<hi, start, limit, elapsed>>

Call == CallPoll \/ \E msec \in Delays : CallWait(msec)

TimeNext == \/ Tick \/ Call \/ ReadHigh \/ ReadStart
            \/ DataReady \/ CheckWait \/ CheckTimeout

TimeSpec == TimeInit /\ [][TimeNext]_timeVars
---------------------------------------------------------------------------
(***************************************************************************)
(* NeverEarly: wait_ms returns, and VL53L1X_read gives up, only after the  *)
(* time it was told, unless a carry from time to timeh fell between the    *)
(* two halves of one of its readings.  In that case both are 2^32 clocks   *)
(* off, and end at once (krv_utils.c 20-24, VL53L1X.c 29-31).              *)
(***************************************************************************)
NeverEarly ==
  ~torn => /\ tpc = "waited" => elapsed > limit
           /\ tpc = "timeout" => elapsed > io_timeout * XTAL_FREQ_KHZ

(* What makes a time-out end in time: the program takes a few clocks       *)
(* between its steps, the counter's half is worth more milliseconds than   *)
(* the time-out, and both fit the 16 bits kept of a time.                  *)
Timely ==
  /\ 4 * MaxGap <= HALFTIME
  /\ HALFTIME \div XTAL_FREQ_KHZ > io_timeout
  /\ (HALFTIME + 3 * MaxGap) \div XTAL_FREQ_KHZ + 1 < MSWORD
  /\ (io_timeout + 2) * XTAL_FREQ_KHZ + 6 * MaxGap <= MSWORD * XTAL_FREQ_KHZ

(***************************************************************************)
(* NeverLate: a torn reading shortens a wait or a time-out, and at most    *)
(* puts its end off to the next reading: the program is never stuck in     *)
(* either loop (krv_utils.c 22-25, VL53L1X.c 402-409).                     *)
(***************************************************************************)
NeverLate ==
  /\ tpc \in WaitCode => elapsed <= limit + 4 * MaxGap
  /\ tpc \in PollCode => elapsed < (io_timeout + 1) * XTAL_FREQ_KHZ + 6 * MaxGap
=============================================================================
