---------------------------- MODULE Descriptors -----------------------------
(***************************************************************************)
(* The file descriptors of a process that uses both drivers: i2c_fd of     *)
(* src/src/low/control.c and flow_fd of src/src/low/flow.c.  The drivers   *)
(* know nothing of each other, but they and the application share one      *)
(* table, in which open() gives out the lowest free number and a number    *)
(* that was closed soon names another file.                                *)
(*                                                                         *)
(* A call of the library is one step: the process has one thread, and the  *)
(* table is its own.  What a transfer carries is left to RegisterLink and  *)
(* FlowReader; here it matters whether the number names the right file.    *)
(***************************************************************************)
EXTENDS Integers, FiniteSets

CONSTANTS
  MaxFd,       \* numbers there are
  MaxFiles,    \* bound on the files the application has open
  MaxFaults,   \* bound on the number of faults
  RetryAtOnce  \* does nothing open a file between a restart of the port that
               \* returned false and the next one?

Fd == 0 .. MaxFd

(* What open() returns when it fails. *)
None == -1

ASSUME BoundsAssumption ==
  /\ MaxFd \in Nat /\ MaxFiles \in Nat /\ MaxFaults \in Nat
  /\ RetryAtOnce \in BOOLEAN

File ==
  { "free",
    "app",                      \* a file of the application
    "i2c", "i2c stuck",         \* /dev/i2c-0, and one that stopped working
    "tty", "tty dead" }         \* /dev/ttyS1, the same

VARIABLES
  file,     \* what each number names
  i2c_fd,
  flow_fd,
  started,  \* x6200_control_init has returned true
  flowing,  \* x6200_flow_init has returned true
  refused,  \* the last x6200_flow_restart returned false
  failed,   \* history: starts that failed with the I2C device open
  faults    \* number of faults so far

vars == <<file, i2c_fd, flow_fd, started, flowing, refused, failed, faults>>

i2cVars == <<i2c_fd, started, failed>>
flowVars == <<flow_fd, flowing, refused>>

(* Standard input has number 0, and so has flow_fd before it is opened. *)
Init ==
  /\ file = [n \in Fd |-> IF n = 0 THEN "app" ELSE "free"]
  /\ i2c_fd = None /\ flow_fd = 0
  /\ started = FALSE /\ flowing = FALSE /\ refused = FALSE
  /\ failed = 0 /\ faults = 0

-----------------------------------------------------------------------------
(* The table, as an argument since a call may close one file and open       *)
(* another                                                                  *)

Free(table) == {n \in Fd : table[n] = "free"}

Lowest(table) == CHOOSE n \in Free(table) : \A m \in Free(table) : n <= m

Opened(table, kind) == [table EXCEPT ![Lowest(table)] = kind]

(* close() of a number that names nothing is an error that nobody looks at. *)
Closed(table, n) == IF n \in Fd THEN [table EXCEPT ![n] = "free"] ELSE table

Fault == faults < MaxFaults /\ faults' = faults + 1

OpenSucceeds(table, kind) ==
  Free(table) # {} /\ file' = Opened(table, kind) /\ UNCHANGED faults

OpenFails(table) ==
  /\ file' = table
  /\ IF Free(table) = {} THEN UNCHANGED faults ELSE Fault

(* The caller's rule, if it keeps it. *)
MayOpen == ~ (RetryAtOnce /\ refused)

-----------------------------------------------------------------------------
(* src/src/low/control.c                                                    *)

(* Slip (see Mutants in README.md): i2c_fd gets the result of a comparison. *)
i2c_open_compared(table) ==
  \/ OpenSucceeds(table, "i2c") /\ i2c_fd' = 0
  \/ OpenFails(table) /\ i2c_fd' = 1

(* Slip: a failure leaves the old number. *)
i2c_open_keeping(table) ==
  \/ OpenSucceeds(table, "i2c") /\ i2c_fd' = Lowest(table)
  \/ OpenFails(table) /\ UNCHANGED i2c_fd

(* Slip: a failure leaves an error number. *)
i2c_open_errno(table) ==
  \/ OpenSucceeds(table, "i2c") /\ i2c_fd' = Lowest(table)
  \/ OpenFails(table) /\ i2c_fd' = -2

i2c_open(table) ==
  \/ OpenSucceeds(table, "i2c") /\ i2c_fd' = Lowest(table)
  \/ OpenFails(table) /\ i2c_fd' = None

(* send_regs and get_regs can succeed. *)
Transfers == i2c_fd # None /\ file[i2c_fd] = "i2c"

(* A start opens the device whatever i2c_fd is, and leaves it open when it  *)
(* fails later on; the application starts again.                            *)
x6200_control_init ==
  /\ ~ started /\ MayOpen
  /\ \/ i2c_open(file) /\ started' = (i2c_fd' # None) /\ UNCHANGED failed
     \/ /\ Free(file) # {} /\ Fault
        /\ file' = Opened(file, "i2c") /\ i2c_fd' = Lowest(file)
        /\ failed' = failed + 1 /\ UNCHANGED started
  /\ UNCHANGED flowVars

(* Slip: the device is opened again without being closed. *)
idle_not_closing ==
  /\ started /\ MayOpen
  /\ ~ Transfers
  /\ i2c_open(file)
  /\ UNCHANGED <<started, failed, flowVars>>

(* A call that can send the registers changes nothing here. *)
x6200_control_idle ==
  /\ started /\ MayOpen
  /\ ~ Transfers
  /\ i2c_open(Closed(file, i2c_fd))
  /\ UNCHANGED <<started, failed, flowVars>>

-----------------------------------------------------------------------------
(* src/src/low/flow.c                                                       *)

(* read() can return something. *)
Reads == flow_fd # None /\ file[flow_fd] = "tty"

(* When tcsetattr fails the file is closed and flow_fd keeps its number.    *)
open_flow_fd(table, returns) ==
  \/ /\ returns
     /\ OpenSucceeds(table, "tty") /\ flow_fd' = Lowest(table)
  \/ /\ ~ returns
     /\ OpenFails(table) /\ flow_fd' = None
  \/ /\ ~ returns
     /\ Free(table) # {} /\ Fault
     /\ file' = table /\ flow_fd' = Lowest(table)

x6200_flow_init ==
  /\ ~ flowing /\ MayOpen
  /\ \E returns \in BOOLEAN : open_flow_fd(file, returns) /\ flowing' = returns
  /\ UNCHANGED <<refused, i2cVars>>

(* Slip: nothing is done when there is no file to close. *)
flow_restart_if_open ==
  /\ flowing
  /\ \E returns \in BOOLEAN :
       /\ refused' = ~ returns
       /\ \/ flow_fd # None /\ open_flow_fd(Closed(file, flow_fd), returns)
          \/ flow_fd = None /\ ~ returns /\ UNCHANGED <<file, flow_fd, faults>>
  /\ UNCHANGED <<flowing, i2cVars>>

(* Closes whatever flow_fd names now.  The application calls it only when   *)
(* x6200_flow_init has succeeded: before that buf is NULL.                  *)
x6200_flow_restart ==
  /\ flowing
  /\ \E returns \in BOOLEAN :
       open_flow_fd(Closed(file, flow_fd), returns) /\ refused' = ~ returns
  /\ UNCHANGED <<flowing, i2cVars>>

-----------------------------------------------------------------------------
(* The application's own files, and the devices                             *)

AppOpens ==
  /\ MayOpen
  /\ Cardinality({n \in Fd : file[n] = "app"}) < MaxFiles
  /\ OpenSucceeds(file, "app")
  /\ UNCHANGED <<i2cVars, flowVars>>

AppCloses(n) ==
  /\ n # 0 /\ file[n] = "app"
  /\ file' = Closed(file, n)
  /\ UNCHANGED <<faults, i2cVars, flowVars>>

Breaks(n) ==
  /\ Fault
  /\ file[n] \in {"i2c", "tty"}
  /\ file' = [file EXCEPT ![n] = IF @ = "i2c" THEN "i2c stuck" ELSE "tty dead"]
  /\ UNCHANGED <<i2cVars, flowVars>>

-----------------------------------------------------------------------------

Next ==
  \/ x6200_control_init \/ x6200_control_idle
  \/ x6200_flow_init \/ x6200_flow_restart
  \/ AppOpens
  \/ \E n \in Fd : AppCloses(n) \/ Breaks(n)

Spec == Init /\ [][Next]_vars

(* The application starts the drivers until that succeeds (or is started    *)
(* again itself), calls x6200_control_idle periodically                     *)
(* (REFRASH_TIMEOUT, low/control.c:22) and does what the header asks of it  *)
(* when no packet arrives: "you have to reset it" (low/flow.h:94).          *)
FairSpec ==
  /\ Spec
  /\ WF_vars(x6200_control_init) /\ WF_vars(x6200_flow_init)
  /\ WF_vars(x6200_control_idle)
  /\ WF_vars(x6200_flow_restart /\ ~ Reads)

-----------------------------------------------------------------------------

DescriptorsTypeOK ==
  /\ file \in [Fd -> File]
  /\ i2c_fd \in Fd \cup {None} /\ flow_fd \in Fd \cup {None}
  /\ started \in BOOLEAN /\ flowing \in BOOLEAN /\ refused \in BOOLEAN
  /\ failed \in 0 .. MaxFaults /\ faults \in 0 .. MaxFaults

(* Neither driver transfers to or from, or closes, what it has not opened:  *)
(* i2c_fd and flow_fd name a file of their own kind or none.  For flow_fd   *)
(* it takes the caller's rule, because open_flow_fd keeps the number of a   *)
(* file it has closed (flow.c:136).                                         *)
OwnFiles ==
  /\ i2c_fd = None \/ file[i2c_fd] \in {"i2c", "i2c stuck"}
  /\ flowing =>
       \/ flow_fd = None
       \/ file[flow_fd] \in {"tty", "tty dead"}
       \/ refused /\ file[flow_fd] = "free"

(* A file of the application stays open until the application closes it,    *)
(* whatever is reopened and closed again in the drivers.                    *)
OthersUntouched ==
  [][\A n \in Fd : file[n] = "app" /\ file'[n] # "app" => AppCloses(n)]_vars

(* Descriptors leak by failed starts only (low/control.c:150): one each.    *)
(* Reopening the I2C device or the port, for ever, leaks none.              *)
LeakBounded ==
  Cardinality({n \in Fd : file[n] \notin {"free", "app"}} \ {i2c_fd, flow_fd})
    <= failed

(* Once the faults are over both drivers work again, and stay so: a port    *)
(* that has died is back after it was reset (low/flow.h:94).                *)
BothRecover == <>[](Transfers /\ Reads)

=============================================================================
