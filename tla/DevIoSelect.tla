---------------------------- MODULE DevIoSelect ----------------------------
(***************************************************************************)
(* DEVIO_select of dev_io/ifxos_device_io.c, called by one thread of its     *)
(* own while the threads of DevIo change the tables.  It is the one function  *)
(* that reads the tables without the mutex: what it read of a descriptor may  *)
(* be stale when it calls the poll callback, which it fetches once more.      *)
(*                                                                         *)
(* Times are milliseconds; only the sleeps between two rounds take any.      *)
(***************************************************************************)
EXTENDS DevIo

CONSTANTS
  PollTime,   \* DEVIO_SELECT_POLLING_TIME
  Timeouts,   \* the finite timeout_msec of the caller
  Forever     \* 0xFFFFFFFF

\* What is assumed of the constants.
SelectAssumption ==
  PollTime \in Nat \ {0} /\ Timeouts \subseteq Nat /\ Forever \notin Nat

VARIABLES
  at,       \* "idle", "reading" and "polling" a descriptor, or "sleeping"
  asked,    \* read_fd_in
  next,     \* the descriptor that the loop has come to
  seen,     \* the device index and the priv read of it
  ready,    \* read_fd_out
  timeout,  \* timeout_msec
  t,        \* the t of the code
  waited    \* history: the time slept in this call

select == <<at, asked, next, seen, ready, timeout, t, waited>>
selectVars == <<vars, select>>

SelectInit ==
  /\ at = "idle" /\ asked = {} /\ next = 0 /\ seen = Closed /\ ready = {}
  /\ timeout = 0 /\ t = 0 /\ waited = 0

SelectStart(S, limit) ==
  /\ at = "idle"
  /\ at' = "reading" /\ asked' = S /\ next' = 0 /\ ready' = {}
  /\ timeout' = limit /\ t' = 0 /\ waited' = 0
  /\ UNCHANGED <<vars, seen>>

\* What the loop finds when it looks at a descriptor: somebody to poll.
Pollable(f) ==
  /\ f \in asked /\ fd[f].device_number # -1
  /\ driver[device[fd[f].device_number].driver_number] # None

SelectRead ==
  /\ at = "reading" /\ next \in Fds
  /\ IF Pollable(next) THEN at' = "polling" /\ seen' = fd[next] /\ UNCHANGED next
                       ELSE next' = next + 1 /\ UNCHANGED <<at, seen>>
  /\ UNCHANGED <<vars, asked, ready, timeout, t, waited>>

\* The poll callback says whether the descriptor has data.
SelectPoll ==
  /\ at = "polling"
  /\ at' = "reading" /\ next' = next + 1
  /\ ready' \in {ready, ready \cup {next}}
  /\ UNCHANGED <<vars, asked, seen, timeout, t, waited>>

\* Mutant: the time of the sleep is counted before it is slept.
OverMut_Early == ready # {} \/ timeout = 0 \/ (timeout # Forever /\ t + PollTime > timeout)

\* Mutant: a call that waits for ever does not look at what it found.
OverMut_Forever == timeout = 0 \/ (timeout # Forever /\ (ready # {} \/ t > timeout))

\* Whether the call returns after a round; t stays 0 when it waits for ever.
Over == ready # {} \/ timeout = 0 \/ (timeout # Forever /\ t > timeout)

Count == IF timeout = Forever THEN t ELSE t + PollTime

SelectRound ==
  /\ at = "reading" /\ next \notin Fds
  /\ IF Over THEN at' = "idle" /\ UNCHANGED t ELSE at' = "sleeping" /\ t' = Count
  /\ UNCHANGED <<vars, asked, next, seen, ready, timeout, waited>>

SelectSleep ==
  /\ at = "sleeping"
  /\ at' = "reading" /\ next' = 0
  /\ waited' = IF timeout = Forever THEN 0 ELSE waited + PollTime
  /\ UNCHANGED <<vars, asked, seen, ready, timeout, t>>

SelectStep == ~Locked /\ (SelectRead \/ SelectPoll \/ SelectRound \/ SelectSleep)

Unlocking == (\E p \in Procs : InstallMark(p) \/ InstallReset(p)) /\ UNCHANGED select

SelectNext ==
  \/ SelectStep
  \/ ~Locked /\ \E S \in SUBSET Fds, limit \in Timeouts \cup {Forever} : SelectStart(S, limit)
  \/ Next /\ UNCHANGED select

\* The scheduler runs the thread that selects and one that has locked it; nothing
\* is assumed of the others.
SelectSpec ==
  /\ Init /\ SelectInit /\ [][SelectNext]_selectVars
  /\ WF_selectVars(SelectStep) /\ WF_selectVars(Unlocking)

-----------------------------------------------------------------------------
\* A select that returns without a descriptor has waited all of its timeout.
NotEarly == at = "idle" /\ ready = {} => waited >= timeout

\* A select with a finite timeout, or one without that has found a descriptor with data.
Ending == (timeout # Forever \/ ready # {}) /\ at # "idle"

\* The poll callback is only called for a priv that is open, and only while its
\* driver is there.
PollsOpen ==
  at = "polling" =>
    /\ driver[device[seen.device_number].driver_number] # None
    /\ closes[seen.priv] = 0

\* The "wait time in [msec]" is kept to the polling granularity.
NotLate == timeout # Forever => waited < timeout + PollTime
=============================================================================
