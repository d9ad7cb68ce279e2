--------------------------------- MODULE Ticks ---------------------------------
(***************************************************************************)
(* The 32-bit millisecond counter HAL_GetTick and the two ways to wait on   *)
(* it: the Timer of aws_timer.c and net_timeout_left_ms of net.c.           *)
(***************************************************************************)
EXTENDS Integers

CONSTANT Half   \* 2^31

ASSUME HalfAssumption == Half \in Nat \ {0}

W == 2 * Half
Tick == 0 .. W-1

\* uint32_t, for a sum or a difference of two counters and one more.
Wrap(x) == IF x < 0 THEN x + W ELSE IF x >= W THEN x - W ELSE x

\* The same bits as int32_t; long has 32 bits here.
Signed(x) == IF x < Half THEN x ELSE x - W

\* countdown_ms and countdown_sec.
CountdownMs(now, timeout) == Wrap(now + timeout)

Left(end, now) == Signed(Wrap(end - now))

\* Seeded fault: the two counters are compared as they are.
HasTimerPassed(end, now) == now > end

HasTimerExpired(end, now) == Left(end, now) < 0

LeftMs(end, now) == IF Left(end, now) < 0 THEN 0 ELSE Left(end, now)

\* net_timeout_left_ms: what is added when the counter has wrapped is there twice,
\* for the unsigned difference takes the wrap into account by itself.
WrapEnd(init, now) == IF now < init THEN W-1 - init ELSE 0
NetTimeoutLeftMs(init, now, timeout) ==
  Signed(Wrap(WrapEnd(init, now) - Wrap(now - init) + timeout))
=============================================================================
