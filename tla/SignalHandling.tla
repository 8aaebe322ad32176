---------------------------- MODULE SignalHandling ----------------------------
(***************************************************************************)
(* The two programs that wait for SIGINT: signal_handling/traditional.cpp  *)
(* installs a handler and sleeps, signal_handling/signalfd.cpp blocks the   *)
(* signal and reads it from a descriptor.  The kernel, external, keeps one  *)
(* pending SIGINT and delivers it, when it is not blocked, at any point:    *)
(* without a handler the process ends, with one the handler interrupts what *)
(* runs, and the signal stays blocked until the handler returns.           *)
(***************************************************************************)
EXTENDS Naturals, Sequences, FiniteSets

VARIABLES
  program,   \* "traditional" or "signalfd", "none" before one is started
  stack,     \* where main and the handlers that interrupted it are
  handled,   \* whether the handler is installed
  blocked,   \* whether SIGINT is
  pending    \* whether one is

signalVars == <<program, stack, handled, blocked, pending>>

SignalInit ==
  /\ program = "none"
  /\ stack = <<>>
  /\ handled = FALSE /\ blocked = FALSE /\ pending = FALSE

--------------------------------------------------------------------------------
At(place) == stack # <<>> /\ stack[Len(stack)] = place

Goto(place) == stack' = [stack EXCEPT ![Len(stack)] = place]

\* main begins with printing what it waits for.
Start ==
  /\ program = "none"
  /\ program' \in {"traditional", "signalfd"}
  /\ stack' = <<"greeting">>
  /\ UNCHANGED <<handled, blocked, pending>>

Greeted ==
  /\ At("greeting")
  /\ Goto("setup")
  /\ UNCHANGED <<program, handled, blocked, pending>>

\* sigaction, or sigprocmask and signalfd; each may fail, and perror prints.
SetUp ==
  /\ At("setup")
  /\ \/ program = "traditional" /\ handled' = TRUE /\ Goto("waiting") /\ UNCHANGED blocked
     \/ program = "signalfd" /\ blocked' = TRUE /\ Goto("open") /\ UNCHANGED handled
     \/ Goto("perror") /\ UNCHANGED <<handled, blocked>>
  /\ UNCHANGED <<program, pending>>

Open ==
  /\ At("open")
  /\ Goto("waiting") \/ Goto("perror")
  /\ UNCHANGED <<program, handled, blocked, pending>>

\* The blocking read of signalfd.cpp; the sleep of traditional.cpp does nothing.
Read ==
  /\ program = "signalfd" /\ At("waiting")
  /\ \/ pending /\ pending' = FALSE /\ Goto("report")
     \/ Goto("perror") /\ UNCHANGED pending
  /\ UNCHANGED <<program, handled, blocked>>

Reported ==
  /\ At("report")
  /\ Goto("waiting")
  /\ UNCHANGED <<program, handled, blocked, pending>>

Exit ==
  /\ At("perror")
  /\ stack' = <<>>
  /\ UNCHANGED <<program, handled, blocked, pending>>

\* Another process sends SIGINT, which changes nothing when one is pending.
Send ==
  /\ stack # <<>>
  /\ pending' = TRUE
  /\ UNCHANGED <<program, stack, handled, blocked>>

\* Mutant of Deliver: the action's flags have SA_NODEFER.
DeliverNoDefer ==
  /\ stack # <<>> /\ pending /\ ~blocked
  /\ pending' = FALSE
  /\ stack' = IF handled THEN Append(stack, "handler") ELSE <<>>
  /\ UNCHANGED <<program, handled, blocked>>

Deliver ==
  /\ stack # <<>> /\ pending /\ ~blocked
  /\ pending' = FALSE
  /\ \/ handled /\ stack' = Append(stack, "handler") /\ blocked' = TRUE
     \/ ~handled /\ stack' = <<>> /\ UNCHANGED blocked
  /\ UNCHANGED <<program, handled>>

\* The handler has printed, and returns.
HandlerReturns ==
  /\ At("handler")
  /\ stack' = SubSeq(stack, 1, Len(stack) - 1)
  /\ blocked' = FALSE
  /\ UNCHANGED <<program, handled, pending>>

SignalNext ==
  \/ Start \/ Greeted \/ SetUp \/ Open \/ Read \/ Reported \/ Exit
  \/ Send \/ Deliver \/ HandlerReturns

SignalSpec == SignalInit /\ [][SignalNext]_signalVars

--------------------------------------------------------------------------------
(* Properties *)

Printing == {"greeting", "perror", "report", "handler"}

\* The streams, which are not async-signal-safe, are not reentered: wherever the
\* signal strikes, the handler never prints in the middle of something printed.
StreamsNotReentered ==
  Cardinality({i \in 1 .. Len(stack) : stack[i] \in Printing}) <= 1

================================================================================
