------------------------- MODULE Descriptors_proofs -------------------------
(***************************************************************************)
(* Proofs about module Descriptors, for any number of descriptors, files   *)
(* and faults: who owns which file for a caller that repeats a restart of  *)
(* the port which returned false before it opens anything else, types and  *)
(* leaks for any caller.                                                   *)
(***************************************************************************)
EXTENDS Descriptors, FiniteSetTheorems, WellFoundedInduction, TLAPS

-----------------------------------------------------------------------------
(* The table                                                                *)

LEMMA Least ==
  ASSUME NEW T \in SUBSET Nat, T # {}
  PROVE  \E x \in T : \A y \in T : x <= y
<1> DEFINE R == {ss \in Nat \X Nat : ss[1] < ss[2]}
<1>1. IsWellFoundedOn(R, Nat)
  BY NatLessThanWellFounded DEF OpToRel
<1>2. \A x, y \in Nat : <<y, x>> \notin R => x <= y
  OBVIOUS
<1> HIDE DEF R
<1>3. PICK x \in T : \A y \in T : <<y, x>> \notin R
  BY <1>1, WFMin
<1>4. T \subseteq Nat
  OBVIOUS
<1>5. \A y \in T : x <= y
  BY <1>2, <1>3, <1>4, Zenon
<1> QED
  BY <1>5

LEMMA LowestIsFree ==
  ASSUME NEW table, Free(table) # {}
  PROVE  Lowest(table) \in Fd /\ table[Lowest(table)] = "free"
<1>1. Free(table) \in SUBSET Nat
  BY BoundsAssumption DEF Free, Fd, BoundsAssumption
<1>2. \E n \in Free(table) : \A m \in Free(table) : n <= m
  BY <1>1, Least
<1>3. Lowest(table) \in Free(table)
  BY <1>2 DEF Lowest
<1> QED
  BY <1>3 DEF Free

LEMMA NoneIsNoFd == None \notin Fd
BY BoundsAssumption DEF None, Fd, BoundsAssumption

FaultCounts == faults' \in 0 .. MaxFaults /\ faults <= faults'

LEMMA OpensFree ==
  ASSUME NEW table, NEW kind, faults \in 0 .. MaxFaults,
         OpenSucceeds(table, kind)
  PROVE  /\ Lowest(table) \in Fd /\ table[Lowest(table)] = "free"
         /\ file' = [table EXCEPT ![Lowest(table)] = kind]
         /\ FaultCounts
<1>1. Lowest(table) \in Fd /\ table[Lowest(table)] = "free"
  BY LowestIsFree DEF OpenSucceeds
<1>2. file' = [table EXCEPT ![Lowest(table)] = kind] /\ faults' = faults
  BY DEF OpenSucceeds, Opened
<1>3. FaultCounts
  BY <1>2, BoundsAssumption DEF FaultCounts, BoundsAssumption
<1> QED
  BY <1>1, <1>2, <1>3

LEMMA FaultIsCounted ==
  ASSUME faults \in 0 .. MaxFaults, Fault
  PROVE  FaultCounts
BY BoundsAssumption DEF Fault, FaultCounts, BoundsAssumption

LEMMA FailureCounts ==
  ASSUME NEW table, faults \in 0 .. MaxFaults, OpenFails(table)
  PROVE  file' = table /\ FaultCounts
BY BoundsAssumption DEF OpenFails, Fault, FaultCounts, BoundsAssumption

LEMMA I2cOpens ==
  ASSUME NEW table, faults \in 0 .. MaxFaults, i2c_open(table)
  PROVE  /\ FaultCounts
         /\ \/ \E n \in Fd : /\ table[n] = "free"
                             /\ file' = [table EXCEPT ![n] = "i2c"]
                             /\ i2c_fd' = n
            \/ file' = table /\ i2c_fd' = None
<1>1. CASE OpenSucceeds(table, "i2c") /\ i2c_fd' = Lowest(table)
  BY <1>1, OpensFree
<1>2. CASE OpenFails(table) /\ i2c_fd' = None
  BY <1>2, FailureCounts
<1> QED
  BY <1>1, <1>2 DEF i2c_open

LEMMA FlowOpens ==
  ASSUME NEW table, NEW returns \in BOOLEAN, faults \in 0 .. MaxFaults,
         open_flow_fd(table, returns)
  PROVE  /\ FaultCounts
         /\ \/ \E n \in Fd : /\ returns /\ table[n] = "free"
                             /\ file' = [table EXCEPT ![n] = "tty"]
                             /\ flow_fd' = n
            \/ ~ returns /\ file' = table /\ flow_fd' = None
            \/ \E n \in Fd : /\ ~ returns /\ table[n] = "free"
                             /\ file' = table /\ flow_fd' = n
<1>1. CASE returns /\ OpenSucceeds(table, "tty") /\ flow_fd' = Lowest(table)
  BY <1>1, OpensFree
<1>2. CASE ~ returns /\ OpenFails(table) /\ flow_fd' = None
  BY <1>2, FailureCounts
<1>3. CASE /\ ~ returns
           /\ Free(table) # {} /\ Fault
           /\ file' = table /\ flow_fd' = Lowest(table)
  <2>1. FaultCounts
    BY <1>3, BoundsAssumption DEF Fault, FaultCounts, BoundsAssumption
  <2> QED
    BY <1>3, <2>1, LowestIsFree
<1> QED
  BY <1>1, <1>2, <1>3 DEF open_flow_fd

LEMMA ClosedTable ==
  ASSUME NEW table \in [Fd -> File], NEW n
  PROVE  /\ Closed(table, n) \in [Fd -> File]
         /\ \A m \in Fd : Closed(table, n)[m] = IF m = n THEN "free" ELSE table[m]
BY DEF Closed, File

-----------------------------------------------------------------------------
(* Whose files the numbers name                                             *)

I2cFiles == {"i2c", "i2c stuck"}
TtyFiles == {"tty", "tty dead"}

(* Before the port was opened no number names one, and nothing is left to   *)
(* repeat.                                                                  *)
DescInv ==
  /\ DescriptorsTypeOK
  /\ failed <= faults
  /\ OwnFiles
  /\ ~ flowing => ~ refused /\ \A n \in Fd : file[n] \notin TtyFiles

LEMMA InitDesc == Init => DescInv
<1> SUFFICES ASSUME Init PROVE DescInv
  OBVIOUS
<1>1. 0 \in Fd
  BY BoundsAssumption DEF Fd, BoundsAssumption
<1>2. 0 \in 0 .. MaxFaults
  BY BoundsAssumption DEF BoundsAssumption
<1>3. file \in [Fd -> File]
  BY DEF Init, File
<1>4. DescriptorsTypeOK
  BY <1>1, <1>2, <1>3 DEF Init, DescriptorsTypeOK
<1>5. \A n \in Fd : file[n] \notin TtyFiles
  BY DEF Init, TtyFiles
<1>6. ~ refused /\ ~ flowing /\ i2c_fd = None
  BY DEF Init
<1>7. failed <= faults
  BY DEF Init
<1>8. OwnFiles
  BY <1>6 DEF OwnFiles
<1> QED
  BY <1>4, <1>5, <1>6, <1>7, <1>8 DEF DescInv

(* What a call of the link may do to the table: it closes the file of       *)
(* i2c_fd or nothing, and opens another or none.                            *)
I2cStep ==
  /\ FaultCounts
  /\ UNCHANGED flowVars
  /\ started' \in BOOLEAN /\ failed' \in 0 .. MaxFaults /\ failed' <= faults'
  /\ \E table \in [Fd -> File] :
       /\ \A m \in Fd : table[m] # file[m] => table[m] = "free" /\ file[m] \in I2cFiles
       /\ \/ \E n \in Fd : /\ table[n] = "free"
                           /\ file' = [table EXCEPT ![n] = "i2c"]
                           /\ i2c_fd' = n
          \/ file' = table /\ i2c_fd' = None

LEMMA InitStep ==
  ASSUME DescInv, x6200_control_init
  PROVE  I2cStep
<1>1. /\ file \in [Fd -> File] /\ faults \in 0 .. MaxFaults
      /\ failed \in 0 .. MaxFaults /\ failed <= faults
  BY DEF DescInv, DescriptorsTypeOK
<1>2. CASE i2c_open(file) /\ started' = (i2c_fd' # None) /\ UNCHANGED failed
  <2>1. /\ FaultCounts
        /\ \/ \E n \in Fd : /\ file[n] = "free"
                            /\ file' = [file EXCEPT ![n] = "i2c"]
                            /\ i2c_fd' = n
           \/ file' = file /\ i2c_fd' = None
    BY <1>1, <1>2, I2cOpens
  <2>2. failed' <= faults'
    BY <1>1, <1>2, <2>1, BoundsAssumption DEF FaultCounts, BoundsAssumption
  <2> QED
    BY <1>1, <1>2, <2>1, <2>2 DEF I2cStep, x6200_control_init
<1>3. CASE /\ Free(file) # {} /\ Fault
           /\ file' = Opened(file, "i2c") /\ i2c_fd' = Lowest(file)
           /\ failed' = failed + 1 /\ UNCHANGED started
  <2>1. FaultCounts /\ failed' \in 0 .. MaxFaults /\ failed' <= faults'
    BY <1>1, <1>3, BoundsAssumption DEF Fault, FaultCounts, BoundsAssumption
  <2>2. Lowest(file) \in Fd /\ file[Lowest(file)] = "free"
    BY <1>3, LowestIsFree
  <2>3. started' \in BOOLEAN
    BY <1>3 DEF DescInv, DescriptorsTypeOK
  <2> QED
    BY <1>1, <1>3, <2>1, <2>2, <2>3 DEF I2cStep, x6200_control_init, Opened
<1> QED
  BY <1>2, <1>3 DEF x6200_control_init

LEMMA IdleStep ==
  ASSUME DescInv, x6200_control_idle
  PROVE  I2cStep
<1> DEFINE table == Closed(file, i2c_fd)
<1>1. /\ file \in [Fd -> File] /\ faults \in 0 .. MaxFaults
      /\ failed \in 0 .. MaxFaults /\ failed <= faults /\ started \in BOOLEAN
  BY DEF DescInv, DescriptorsTypeOK
<1>2. /\ table \in [Fd -> File]
      /\ \A m \in Fd : table[m] = IF m = i2c_fd THEN "free" ELSE file[m]
  BY <1>1, ClosedTable
<1>3. i2c_fd \in Fd => file[i2c_fd] \in I2cFiles
  BY NoneIsNoFd DEF DescInv, OwnFiles, I2cFiles
<1>4. \A m \in Fd : table[m] # file[m] => table[m] = "free" /\ file[m] \in I2cFiles
  BY <1>2, <1>3
<1> HIDE DEF table
<1>6. /\ FaultCounts
      /\ \/ \E n \in Fd : /\ table[n] = "free"
                          /\ file' = [table EXCEPT ![n] = "i2c"]
                          /\ i2c_fd' = n
         \/ file' = table /\ i2c_fd' = None
  BY <1>1, I2cOpens DEF x6200_control_idle, table
<1>7. UNCHANGED <<started, failed, flowVars>>
  BY DEF x6200_control_idle
<1>8. failed' <= faults'
  BY <1>1, <1>6, <1>7, BoundsAssumption DEF FaultCounts, BoundsAssumption
<1> QED
  BY <1>1, <1>2, <1>4, <1>6, <1>7, <1>8 DEF I2cStep

LEMMA I2cKeepsDesc ==
  ASSUME DescInv, MayOpen, RetryAtOnce, I2cStep
  PROVE  DescInv'
<1>1. /\ file \in [Fd -> File] /\ flow_fd \in Fd \cup {None}
      /\ flowing \in BOOLEAN /\ refused = FALSE
      /\ flow_fd' = flow_fd /\ flowing' = flowing /\ refused' = refused
  BY DEF DescInv, DescriptorsTypeOK, MayOpen, I2cStep, flowVars
<1>2. PICK table \in [Fd -> File] :
        /\ \A m \in Fd : table[m] # file[m] => table[m] = "free" /\ file[m] \in I2cFiles
        /\ \/ \E n \in Fd : /\ table[n] = "free"
                            /\ file' = [table EXCEPT ![n] = "i2c"]
                            /\ i2c_fd' = n
           \/ file' = table /\ i2c_fd' = None
  BY DEF I2cStep
<1>3. /\ file' \in [Fd -> File] /\ i2c_fd' \in Fd \cup {None}
      /\ i2c_fd' = None \/ file'[i2c_fd'] \in I2cFiles
  <2>1. "i2c" \in File /\ "i2c" \in I2cFiles
    BY DEF File, I2cFiles
  <2> QED
    BY <1>2, <2>1
<1>4. \A m \in Fd : file[m] \in TtyFiles <=> file'[m] \in TtyFiles
  BY <1>2 DEF I2cFiles, TtyFiles
<1>5. \A m \in Fd : file[m] \in TtyFiles => file'[m] = file[m]
  BY <1>2 DEF I2cFiles, TtyFiles
<1>6. flowing => flow_fd = None \/ (flow_fd \in Fd /\ file[flow_fd] \in TtyFiles)
  BY <1>1 DEF DescInv, OwnFiles, TtyFiles
<1>7. OwnFiles'
  BY <1>1, <1>3, <1>4, <1>6 DEF OwnFiles, I2cFiles, TtyFiles
<1>8. DescriptorsTypeOK' /\ failed' <= faults'
  BY <1>1, <1>3 DEF I2cStep, FaultCounts, DescriptorsTypeOK
<1> QED
  BY <1>1, <1>4, <1>7, <1>8 DEF DescInv

(* What a call of the reader may do: it closes the file of flow_fd if that  *)
(* is a port, and opens one or not.                                         *)
FlowStep(returns) ==
  /\ FaultCounts
  /\ UNCHANGED i2cVars
  /\ \E table \in [Fd -> File] :
       /\ \A m \in Fd :
            table[m] # file[m] => table[m] = "free" /\ file[m] \in TtyFiles
       /\ \/ \E n \in Fd : /\ returns /\ table[n] = "free"
                           /\ file' = [table EXCEPT ![n] = "tty"]
                           /\ flow_fd' = n
          \/ ~ returns /\ file' = table /\ flow_fd' = None
          \/ \E n \in Fd : /\ ~ returns /\ table[n] = "free"
                          /\ file' = table /\ flow_fd' = n

LEMMA FlowInitStep ==
  ASSUME DescInv, x6200_flow_init
  PROVE  \E returns \in BOOLEAN :
           FlowStep(returns) /\ flowing' = returns /\ refused' = FALSE /\ ~ flowing
<1>1. PICK returns \in BOOLEAN : open_flow_fd(file, returns) /\ flowing' = returns
  BY DEF x6200_flow_init
<1>2. file \in [Fd -> File] /\ faults \in 0 .. MaxFaults
  BY DEF DescInv, DescriptorsTypeOK
<1>3. FlowStep(returns)
  BY <1>1, <1>2, FlowOpens DEF FlowStep, x6200_flow_init
<1>4. refused' = FALSE /\ ~ flowing
  BY DEF x6200_flow_init, DescInv, DescriptorsTypeOK
<1> QED
  BY <1>1, <1>3, <1>4

LEMMA FlowRestartStep ==
  ASSUME DescInv, x6200_flow_restart
  PROVE  \E returns \in BOOLEAN :
           FlowStep(returns) /\ refused' = ~ returns /\ flowing' = TRUE
<1> DEFINE table == Closed(file, flow_fd)
<1>1. PICK returns \in BOOLEAN : open_flow_fd(table, returns) /\ refused' = ~ returns
  BY DEF x6200_flow_restart
<1>2. file \in [Fd -> File] /\ faults \in 0 .. MaxFaults /\ flowing
  BY DEF DescInv, DescriptorsTypeOK, x6200_flow_restart
<1>3. /\ table \in [Fd -> File]
      /\ \A m \in Fd : table[m] = IF m = flow_fd THEN "free" ELSE file[m]
  BY <1>2, ClosedTable
<1>4. flow_fd \in Fd => file[flow_fd] \in TtyFiles \cup {"free"}
  BY <1>2, NoneIsNoFd DEF DescInv, OwnFiles, TtyFiles
<1>5. \A m \in Fd :
        table[m] # file[m] => table[m] = "free" /\ file[m] \in TtyFiles
  BY <1>3, <1>4
<1> HIDE DEF table
<1>7. FlowStep(returns)
  BY <1>1, <1>2, <1>3, <1>5, FlowOpens DEF FlowStep, x6200_flow_restart
<1>8. flowing' = TRUE
  BY DEF x6200_flow_restart, DescInv, DescriptorsTypeOK
<1> QED
  BY <1>1, <1>2, <1>7, <1>8

LEMMA FlowKeepsDesc ==
  ASSUME DescInv, NEW returns \in BOOLEAN, FlowStep(returns),
         \/ flowing' = returns /\ refused' = FALSE /\ ~ flowing
         \/ refused' = ~ returns /\ flowing' = TRUE
  PROVE  DescInv'
<1>1. /\ file \in [Fd -> File] /\ i2c_fd \in Fd \cup {None}
      /\ i2c_fd = None \/ file[i2c_fd] \in I2cFiles
      /\ i2c_fd' = i2c_fd /\ started' = started /\ failed' = failed
      /\ started \in BOOLEAN /\ failed \in 0 .. MaxFaults
  BY DEF DescInv, DescriptorsTypeOK, OwnFiles, I2cFiles, FlowStep, i2cVars
<1>2. faults' \in 0 .. MaxFaults /\ failed' <= faults'
  <2>1. failed <= faults /\ faults <= faults' /\ faults' \in 0 .. MaxFaults
    BY DEF DescInv, FlowStep, FaultCounts
  <2>2. faults \in 0 .. MaxFaults
    BY DEF DescInv, DescriptorsTypeOK
  <2> QED
    BY <1>1, <2>1, <2>2, BoundsAssumption DEF BoundsAssumption
<1>3. PICK table \in [Fd -> File] :
        /\ \A m \in Fd :
             table[m] # file[m] => table[m] = "free" /\ file[m] \in TtyFiles
        /\ \/ \E n \in Fd : /\ returns /\ table[n] = "free"
                            /\ file' = [table EXCEPT ![n] = "tty"]
                            /\ flow_fd' = n
           \/ ~ returns /\ file' = table /\ flow_fd' = None
           \/ \E n \in Fd : /\ ~ returns /\ table[n] = "free"
                           /\ file' = table /\ flow_fd' = n
  BY DEF FlowStep
<1>4. file' \in [Fd -> File] /\ flow_fd' \in Fd \cup {None}
  <2>1. "tty" \in File
    BY DEF File
  <2> QED
    BY <1>3, <2>1
<1>5. \A m \in Fd : file[m] \in I2cFiles => file'[m] = file[m]
  BY <1>3 DEF I2cFiles, TtyFiles
<1>6. i2c_fd' = None \/ file'[i2c_fd'] \in I2cFiles
  BY <1>1, <1>5
<1>7. /\ returns => file'[flow_fd'] \in TtyFiles
      /\ ~ returns => flow_fd' = None \/ file'[flow_fd'] = "free"
      /\ ~ returns => \A m \in Fd : file'[m] \in TtyFiles => file[m] \in TtyFiles
  BY <1>3 DEF TtyFiles
<1>8. CASE flowing' = returns /\ refused' = FALSE /\ ~ flowing
  <2>1. refused' \in BOOLEAN /\ flowing' \in BOOLEAN
    BY <1>8 DEF DescInv, DescriptorsTypeOK
  <2>2. OwnFiles'
    BY <1>6, <1>7, <1>8 DEF OwnFiles, I2cFiles, TtyFiles
  <2>3. ~ flowing' => \A m \in Fd : file'[m] \notin TtyFiles
    BY <1>7, <1>8 DEF DescInv
  <2> QED
    BY <1>1, <1>2, <1>4, <1>8, <2>1, <2>2, <2>3 DEF DescInv, DescriptorsTypeOK
<1>9. CASE refused' = ~ returns /\ flowing' = TRUE
  <2>1. OwnFiles'
    BY <1>6, <1>7, <1>9 DEF OwnFiles, I2cFiles, TtyFiles
  <2> QED
    BY <1>1, <1>2, <1>4, <1>9, <2>1 DEF DescInv, DescriptorsTypeOK
<1> QED
  BY <1>8, <1>9

(* Steps of the application and of the devices leave the drivers alone and  *)
(* change no kind of file that is a driver's.                               *)
SameKind(n) ==
  /\ (file[n] \in I2cFiles) <=> (file'[n] \in I2cFiles)
  /\ (file[n] \in TtyFiles) <=> (file'[n] \in TtyFiles)

OtherStep ==
  /\ FaultCounts
  /\ UNCHANGED <<i2cVars, flowVars>>
  /\ file' \in [Fd -> File]
  /\ \A n \in Fd : SameKind(n)
  /\ refused => \A n \in Fd : file[n] = "free" => file'[n] = "free"

LEMMA OtherSteps ==
  ASSUME DescInv, RetryAtOnce,
         AppOpens \/ \E n \in Fd : AppCloses(n) \/ Breaks(n)
  PROVE  OtherStep
<1>1. file \in [Fd -> File] /\ faults \in 0 .. MaxFaults
  BY DEF DescInv, DescriptorsTypeOK
<1>2. CASE AppOpens
  <2>1. ~ refused /\ UNCHANGED <<i2cVars, flowVars>>
    BY <1>2 DEF AppOpens, MayOpen
  <2>2. /\ Lowest(file) \in Fd /\ file[Lowest(file)] = "free"
        /\ file' = [file EXCEPT ![Lowest(file)] = "app"]
        /\ FaultCounts
    BY <1>1, <1>2, OpensFree DEF AppOpens
  <2>3. file' \in [Fd -> File]
    BY <1>1, <2>2 DEF File
  <2>4. ASSUME NEW n \in Fd PROVE SameKind(n)
    BY <1>1, <2>2 DEF SameKind, I2cFiles, TtyFiles
  <2> QED
    BY <2>1, <2>2, <2>3, <2>4 DEF OtherStep
<1>3. ASSUME NEW n \in Fd, AppCloses(n) PROVE OtherStep
  <2>1. /\ file[n] = "app" /\ file' = Closed(file, n)
        /\ faults' = faults /\ UNCHANGED <<i2cVars, flowVars>>
    BY <1>3 DEF AppCloses
  <2>2. /\ file' \in [Fd -> File]
        /\ \A m \in Fd : file'[m] = IF m = n THEN "free" ELSE file[m]
    BY <1>1, <2>1, ClosedTable
  <2>3. FaultCounts
    BY <1>1, <2>1, BoundsAssumption DEF FaultCounts, BoundsAssumption
  <2>4. ASSUME NEW m \in Fd PROVE SameKind(m)
    BY <2>1, <2>2 DEF SameKind, I2cFiles, TtyFiles
  <2> QED
    BY <2>1, <2>2, <2>3, <2>4 DEF OtherStep
<1>4. ASSUME NEW n \in Fd, Breaks(n) PROVE OtherStep
  <2>1. /\ Fault /\ file[n] \in {"i2c", "tty"} /\ UNCHANGED <<i2cVars, flowVars>>
        /\ file' = [file EXCEPT ![n] = IF file[n] = "i2c" THEN "i2c stuck"
                                                         ELSE "tty dead"]
    BY <1>4 DEF Breaks
  <2>2. FaultCounts
    BY <1>1, <2>1, FaultIsCounted
  <2>3. file' \in [Fd -> File]
    BY <1>1, <2>1 DEF File
  <2>4. ASSUME NEW m \in Fd PROVE SameKind(m)
    <3>1. CASE m = n
      BY <1>1, <2>1, <3>1 DEF SameKind, I2cFiles, TtyFiles
    <3>2. CASE m # n
      BY <1>1, <2>1, <3>2 DEF SameKind
    <3> QED
      BY <3>1, <3>2
  <2>5. \A m \in Fd : file[m] = "free" => file'[m] = "free"
    BY <1>1, <2>1
  <2> QED
    BY <2>1, <2>2, <2>3, <2>4, <2>5 DEF OtherStep
<1> QED
  BY <1>2, <1>3, <1>4

LEMMA OtherKeepsDesc ==
  ASSUME DescInv, OtherStep
  PROVE  DescInv'
<1>1. /\ i2c_fd' = i2c_fd /\ started' = started /\ failed' = failed
      /\ flow_fd' = flow_fd /\ flowing' = flowing /\ refused' = refused
      /\ file' \in [Fd -> File] /\ faults <= faults' /\ faults' \in 0 .. MaxFaults
  BY DEF OtherStep, FaultCounts, i2cVars, flowVars
<1>2. /\ i2c_fd \in Fd \cup {None} /\ flow_fd \in Fd \cup {None}
      /\ failed \in 0 .. MaxFaults /\ faults \in 0 .. MaxFaults /\ failed <= faults
  BY DEF DescInv, DescriptorsTypeOK
<1>3. failed' <= faults'
  BY <1>1, <1>2, BoundsAssumption DEF BoundsAssumption
<1>4. DescriptorsTypeOK'
  BY <1>1 DEF DescInv, DescriptorsTypeOK
<1>5. \A n \in Fd : SameKind(n) /\ (refused /\ file[n] = "free" => file'[n] = "free")
  BY DEF OtherStep
<1>6. OwnFiles'
  <2>1. i2c_fd' = None \/ file'[i2c_fd'] \in I2cFiles
    BY <1>1, <1>2, <1>5 DEF DescInv, OwnFiles, SameKind, I2cFiles
  <2>2. flowing' =>
          \/ flow_fd' = None
          \/ file'[flow_fd'] \in TtyFiles
          \/ refused' /\ file'[flow_fd'] = "free"
    BY <1>1, <1>2, <1>5 DEF DescInv, OwnFiles, SameKind, TtyFiles
  <2> QED
    BY <2>1, <2>2 DEF OwnFiles, I2cFiles, TtyFiles
<1>7. ~ flowing' => ~ refused' /\ \A n \in Fd : file'[n] \notin TtyFiles
  BY <1>1, <1>5 DEF DescInv, SameKind
<1> QED
  BY <1>3, <1>4, <1>6, <1>7 DEF DescInv

LEMMA NextDesc == RetryAtOnce /\ DescInv /\ [Next]_vars => DescInv'
<1> SUFFICES ASSUME RetryAtOnce, DescInv, [Next]_vars PROVE DescInv'
  OBVIOUS
<1>1. CASE x6200_control_init
  BY <1>1, InitStep, I2cKeepsDesc DEF x6200_control_init
<1>2. CASE x6200_control_idle
  BY <1>2, IdleStep, I2cKeepsDesc DEF x6200_control_idle
<1>3. CASE x6200_flow_init
  BY <1>3, FlowInitStep, FlowKeepsDesc
<1>4. CASE x6200_flow_restart
  BY <1>4, FlowRestartStep, FlowKeepsDesc
<1>5. CASE AppOpens \/ \E n \in Fd : AppCloses(n) \/ Breaks(n)
  BY <1>5, OtherSteps, OtherKeepsDesc
<1>6. CASE UNCHANGED vars
  BY <1>6 DEF vars, DescInv, DescriptorsTypeOK, OwnFiles
<1> QED
  BY <1>1, <1>2, <1>3, <1>4, <1>5, <1>6 DEF Next

(* Each driver stays with its own files (flow.c:136, 154; low/control.c:58),*)
(* however many numbers, files and faults there are.                        *)
THEOREM FilesStayOwn ==
  ASSUME RetryAtOnce
  PROVE  Spec => [](DescriptorsTypeOK /\ OwnFiles)
<1>1. DescInv => DescriptorsTypeOK /\ OwnFiles
  BY DEF DescInv
<1>2. DescInv /\ [Next]_vars => DescInv'
  BY NextDesc
<1> QED
  BY <1>1, <1>2, InitDesc, PTL DEF Spec

-----------------------------------------------------------------------------
(* Types, whatever the caller does                                          *)

(* A start that leaves the device open has met a fault.                     *)
TypesInv == DescriptorsTypeOK /\ failed <= faults

LEMMA InitTypes == Init => TypesInv
BY InitDesc DEF DescInv, TypesInv

LEMMA NextTypes == TypesInv /\ [Next]_vars => TypesInv'
<1> SUFFICES ASSUME TypesInv, [Next]_vars PROVE TypesInv'
  OBVIOUS
<1>1. /\ file \in [Fd -> File] /\ faults \in 0 .. MaxFaults
      /\ failed \in 0 .. MaxFaults /\ failed <= faults
      /\ i2c_fd \in Fd \cup {None} /\ flow_fd \in Fd \cup {None}
      /\ started \in BOOLEAN /\ flowing \in BOOLEAN /\ refused \in BOOLEAN
  BY DEF TypesInv, DescriptorsTypeOK
<1>2. ASSUME FaultCounts, UNCHANGED failed
      PROVE  faults' \in 0 .. MaxFaults /\ failed' \in 0 .. MaxFaults /\ failed' <= faults'
  BY <1>1, <1>2, BoundsAssumption DEF FaultCounts, BoundsAssumption
<1>3. ASSUME NEW n, NEW table \in [Fd -> File], NEW kind \in File
      PROVE  [table EXCEPT ![n] = kind] \in [Fd -> File]
  OBVIOUS
<1>4. /\ "app" \in File /\ "i2c" \in File /\ "tty" \in File
      /\ "i2c stuck" \in File /\ "tty dead" \in File
  BY DEF File
<1>5. ASSUME NEW table \in [Fd -> File], i2c_open(table), UNCHANGED failed
      PROVE  /\ file' \in [Fd -> File] /\ i2c_fd' \in Fd \cup {None}
             /\ faults' \in 0 .. MaxFaults /\ failed' \in 0 .. MaxFaults
             /\ failed' <= faults'
  <2>1. /\ FaultCounts
        /\ \/ \E n \in Fd : file' = [table EXCEPT ![n] = "i2c"] /\ i2c_fd' = n
           \/ file' = table /\ i2c_fd' = None
    BY <1>1, <1>5, I2cOpens
  <2>2. file' \in [Fd -> File] /\ i2c_fd' \in Fd \cup {None}
    BY <1>3, <1>4, <2>1
  <2> QED
    BY <1>2, <1>5, <2>1, <2>2
<1>6. ASSUME NEW table \in [Fd -> File], NEW returns \in BOOLEAN,
             open_flow_fd(table, returns), UNCHANGED failed
      PROVE  /\ file' \in [Fd -> File] /\ flow_fd' \in Fd \cup {None}
             /\ faults' \in 0 .. MaxFaults /\ failed' \in 0 .. MaxFaults
             /\ failed' <= faults'
  <2>1. /\ FaultCounts
        /\ \/ \E n \in Fd : file' = [table EXCEPT ![n] = "tty"] /\ flow_fd' = n
           \/ file' = table /\ flow_fd' \in Fd \cup {None}
    BY <1>1, <1>6, FlowOpens
  <2>2. file' \in [Fd -> File] /\ flow_fd' \in Fd \cup {None}
    BY <1>3, <1>4, <2>1
  <2> QED
    BY <1>2, <1>6, <2>1, <2>2
<1>7. CASE x6200_control_init
  <2>1. /\ UNCHANGED flowVars
        /\ \/ i2c_open(file) /\ started' = (i2c_fd' # None) /\ UNCHANGED failed
           \/ /\ Free(file) # {} /\ Fault
              /\ file' = Opened(file, "i2c") /\ i2c_fd' = Lowest(file)
              /\ failed' = failed + 1 /\ UNCHANGED started
    BY <1>7 DEF x6200_control_init
  <2>2. CASE i2c_open(file) /\ started' = (i2c_fd' # None) /\ UNCHANGED failed
    BY <1>1, <1>5, <2>1, <2>2 DEF flowVars, TypesInv, DescriptorsTypeOK
  <2>3. CASE /\ Free(file) # {} /\ Fault
             /\ file' = Opened(file, "i2c") /\ i2c_fd' = Lowest(file)
             /\ failed' = failed + 1 /\ UNCHANGED started
    <3>1. /\ faults' \in 0 .. MaxFaults /\ failed' \in 0 .. MaxFaults
          /\ failed' <= faults'
      BY <1>1, <2>3, BoundsAssumption DEF Fault, BoundsAssumption
    <3>2. i2c_fd' \in Fd /\ file' \in [Fd -> File]
      BY <1>1, <1>3, <1>4, <2>3, LowestIsFree DEF Opened
    <3> QED
      BY <1>1, <2>1, <2>3, <3>1, <3>2 DEF flowVars, TypesInv, DescriptorsTypeOK
  <2> QED
    BY <2>1, <2>2, <2>3
<1>8. CASE x6200_control_idle
  <2>1. i2c_open(Closed(file, i2c_fd)) /\ UNCHANGED <<started, failed, flowVars>>
    BY <1>8 DEF x6200_control_idle
  <2>2. Closed(file, i2c_fd) \in [Fd -> File]
    BY <1>1, ClosedTable
  <2> QED
    BY <1>1, <1>5, <2>1, <2>2 DEF flowVars, TypesInv, DescriptorsTypeOK
<1>9. CASE x6200_flow_init
  <2>1. PICK returns \in BOOLEAN : open_flow_fd(file, returns) /\ flowing' = returns
    BY <1>9 DEF x6200_flow_init
  <2>2. UNCHANGED <<refused, i2cVars>>
    BY <1>9 DEF x6200_flow_init
  <2>3. UNCHANGED failed
    BY <2>2 DEF i2cVars
  <2>4. /\ file' \in [Fd -> File] /\ flow_fd' \in Fd \cup {None}
        /\ faults' \in 0 .. MaxFaults /\ failed' \in 0 .. MaxFaults
        /\ failed' <= faults'
    BY <1>1, <1>6, <2>1, <2>3
  <2> QED
    BY <1>1, <2>1, <2>2, <2>4 DEF i2cVars, TypesInv, DescriptorsTypeOK
<1>10. CASE x6200_flow_restart
  <2>1. PICK returns \in BOOLEAN :
          open_flow_fd(Closed(file, flow_fd), returns) /\ refused' = ~ returns
    BY <1>10 DEF x6200_flow_restart
  <2>2. UNCHANGED <<flowing, i2cVars>>
    BY <1>10 DEF x6200_flow_restart
  <2>3. UNCHANGED failed /\ Closed(file, flow_fd) \in [Fd -> File]
    BY <1>1, <2>2, ClosedTable DEF i2cVars
  <2>4. /\ file' \in [Fd -> File] /\ flow_fd' \in Fd \cup {None}
        /\ faults' \in 0 .. MaxFaults /\ failed' \in 0 .. MaxFaults
        /\ failed' <= faults'
    BY <1>6, <2>1, <2>3
  <2>5. refused' \in BOOLEAN
    BY <2>1
  <2> QED
    BY <1>1, <2>2, <2>4, <2>5 DEF i2cVars, TypesInv, DescriptorsTypeOK
<1>11. CASE AppOpens
  <2>1. OpenSucceeds(file, "app") /\ UNCHANGED <<i2cVars, flowVars>>
    BY <1>11 DEF AppOpens
  <2>2. FaultCounts /\ file' = [file EXCEPT ![Lowest(file)] = "app"]
    BY <1>1, <2>1, OpensFree
  <2>3. file' \in [Fd -> File]
    BY <1>1, <1>3, <1>4, <2>2
  <2> QED
    BY <1>1, <1>2, <2>1, <2>2, <2>3 DEF i2cVars, flowVars, TypesInv, DescriptorsTypeOK
<1>12. ASSUME NEW n \in Fd, AppCloses(n) PROVE TypesInv'
  <2>1. file' = Closed(file, n) /\ UNCHANGED <<faults, i2cVars, flowVars>>
    BY <1>12 DEF AppCloses
  <2>2. file' \in [Fd -> File]
    BY <1>1, <2>1, ClosedTable
  <2> QED
    BY <1>1, <2>1, <2>2 DEF i2cVars, flowVars, TypesInv, DescriptorsTypeOK
<1>13. ASSUME NEW n \in Fd, Breaks(n) PROVE TypesInv'
  <2>1. /\ Fault /\ UNCHANGED <<i2cVars, flowVars>>
        /\ file' = [file EXCEPT ![n] = IF file[n] = "i2c" THEN "i2c stuck"
                                                         ELSE "tty dead"]
    BY <1>13 DEF Breaks
  <2>2. FaultCounts
    BY <1>1, <2>1, FaultIsCounted
  <2>3. CASE file[n] = "i2c"
    <3>1. file' \in [Fd -> File]
      BY <1>1, <1>3, <1>4, <2>1, <2>3
    <3> QED
      BY <1>1, <1>2, <2>1, <2>2, <3>1 DEF i2cVars, flowVars, TypesInv, DescriptorsTypeOK
  <2>4. CASE file[n] # "i2c"
    <3>1. file' \in [Fd -> File]
      BY <1>1, <1>3, <1>4, <2>1, <2>4
    <3> QED
      BY <1>1, <1>2, <2>1, <2>2, <3>1 DEF i2cVars, flowVars, TypesInv, DescriptorsTypeOK
  <2> QED
    BY <2>3, <2>4
<1>14. CASE UNCHANGED vars
  BY <1>14 DEF vars, TypesInv, DescriptorsTypeOK
<1> QED
  BY <1>7, <1>8, <1>9, <1>10, <1>11, <1>12, <1>13, <1>14 DEF Next

(* i2c_fd and flow_fd are numbers of the table or -1, and no start fails    *)
(* with the device open unless something broke, also for a caller that does *)
(* not repeat a refused restart first (low/control.c:57, flow.c:136).       *)
THEOREM DescriptorTypes == Spec => []DescriptorsTypeOK
<1>1. TypesInv => DescriptorsTypeOK
  BY DEF TypesInv
<1> QED
  BY <1>1, InitTypes, NextTypes, PTL DEF Spec

-----------------------------------------------------------------------------
(* The application's files                                                  *)

LEMMA NextSparesOthers ==
  ASSUME DescInv, Next, NEW n \in Fd, file[n] = "app", file'[n] # "app"
  PROVE  AppCloses(n)
<1>1. file \in [Fd -> File] /\ faults \in 0 .. MaxFaults
  BY DEF DescInv, DescriptorsTypeOK
<1>2. ASSUME I2cStep PROVE FALSE
  BY <1>1, <1>2 DEF I2cStep, I2cFiles
<1>3. ASSUME NEW returns \in BOOLEAN, FlowStep(returns) PROVE FALSE
  BY <1>1, <1>3 DEF FlowStep, TtyFiles
<1>4. ASSUME AppOpens PROVE FALSE
  BY <1>1, <1>4, OpensFree DEF AppOpens
<1>5. ASSUME NEW m \in Fd, Breaks(m) PROVE FALSE
  BY <1>1, <1>5 DEF Breaks
<1>6. ASSUME NEW m \in Fd, AppCloses(m) PROVE m = n
  BY <1>1, <1>6, ClosedTable DEF AppCloses
<1> QED
  BY <1>2, <1>3, <1>4, <1>5, <1>6, InitStep, IdleStep, FlowInitStep,
     FlowRestartStep
  DEF Next

(* The drivers never close a file of the application (flow.c:154 and        *)
(* low/control.c:64 close a number without knowing what it names).          *)
THEOREM OthersStayUntouched ==
  ASSUME RetryAtOnce
  PROVE  Spec => OthersUntouched
<1>1. DescInv /\ [Next]_vars =>
        [\A n \in Fd : file[n] = "app" /\ file'[n] # "app" => AppCloses(n)]_vars
  BY NextSparesOthers
<1>2. DescInv /\ [Next]_vars => DescInv'
  BY NextDesc
<1> QED
  BY <1>1, <1>2, InitDesc, PTL DEF Spec, OthersUntouched

-----------------------------------------------------------------------------
(* Descriptors that are lost                                                *)

(* Files of the drivers that no driver in use has: i2c_fd of a start that   *)
(* failed is as good as lost, though the variable still names it.           *)
IsLost(n) ==
  /\ file[n] \notin {"free", "app"}
  /\ ~ (started /\ n = i2c_fd)
  /\ ~ (flowing /\ n = flow_fd)

Lost == {n \in Fd : IsLost(n)}

LeakInv == Cardinality(Lost) <= failed

LEMMA FdFinite == \A S \in SUBSET Fd : IsFiniteSet(S) /\ Cardinality(S) \in Nat
<1>1. IsFiniteSet(Fd)
  BY FS_Interval, BoundsAssumption DEF Fd, BoundsAssumption
<1> QED
  BY <1>1, FS_Subset, FS_CardinalityType

LEMMA NoMoreLost ==
  ASSUME TypesInv, LeakInv, UNCHANGED failed,
         \A n \in Fd : IsLost(n)' => IsLost(n)
  PROVE  LeakInv'
<1>1. Lost' \subseteq Lost /\ Lost \subseteq Fd
  BY DEF Lost
<1>2. Cardinality(Lost') <= Cardinality(Lost)
  BY <1>1, FdFinite, FS_Subset
<1>3. /\ Cardinality(Lost) \in Nat /\ Cardinality(Lost') \in Nat
      /\ failed \in Int
  BY <1>1, FdFinite, BoundsAssumption
  DEF TypesInv, DescriptorsTypeOK, BoundsAssumption
<1>4. Cardinality(Lost') <= failed'
  BY <1>2, <1>3 DEF LeakInv
<1> QED
  BY <1>4 DEF LeakInv

LEMMA OneMoreLost ==
  ASSUME TypesInv, LeakInv, failed' = failed + 1, NEW new \in Fd,
         \A n \in Fd \ {new} : IsLost(n)' => IsLost(n)
  PROVE  LeakInv'
<1>1. Lost' \subseteq Lost \cup {new} /\ Lost \subseteq Fd /\ Lost' \subseteq Fd
      /\ Lost \cup {new} \subseteq Fd
  BY DEF Lost
<1>2. Cardinality(Lost') <= Cardinality(Lost \cup {new})
  BY <1>1, FdFinite, FS_Subset
<1>3. Cardinality(Lost \cup {new}) <= Cardinality(Lost) + 1
  BY <1>1, FdFinite, FS_AddElement
<1>4. /\ Cardinality(Lost) \in Nat /\ Cardinality(Lost') \in Nat
      /\ Cardinality(Lost \cup {new}) \in Nat /\ failed \in Int
  BY <1>1, FdFinite, BoundsAssumption
  DEF TypesInv, DescriptorsTypeOK, BoundsAssumption
<1>5. Cardinality(Lost') <= failed'
  BY <1>2, <1>3, <1>4 DEF LeakInv
<1> QED
  BY <1>5 DEF LeakInv

(* A start has no file in use before; the one it opens it uses, or it has   *)
(* failed with it.                                                          *)
LEMMA InitLosesFew ==
  ASSUME TypesInv, LeakInv, x6200_control_init
  PROVE  LeakInv'
<1>1. /\ file \in [Fd -> File] /\ faults \in 0 .. MaxFaults /\ ~ started
      /\ UNCHANGED <<flow_fd, flowing>>
  BY DEF TypesInv, DescriptorsTypeOK, x6200_control_init, flowVars
<1>2. CASE i2c_open(file) /\ started' = (i2c_fd' # None) /\ UNCHANGED failed
  <2>1. \/ \E n \in Fd : file' = [file EXCEPT ![n] = "i2c"] /\ i2c_fd' = n
        \/ file' = file
    BY <1>1, <1>2, I2cOpens
  <2>2. \A n \in Fd : IsLost(n)' => IsLost(n)
    BY <1>1, <1>2, <2>1, NoneIsNoFd DEF IsLost
  <2> QED
    BY <1>2, <2>2, NoMoreLost
<1>3. CASE /\ Free(file) # {} /\ Fault
           /\ file' = Opened(file, "i2c") /\ i2c_fd' = Lowest(file)
           /\ failed' = failed + 1 /\ UNCHANGED started
  <2>1. Lowest(file) \in Fd /\ file' = [file EXCEPT ![Lowest(file)] = "i2c"]
    BY <1>3, LowestIsFree DEF Opened
  <2>2. \A n \in Fd \ {Lowest(file)} : IsLost(n)' => IsLost(n)
    BY <1>1, <1>3, <2>1 DEF IsLost
  <2> QED
    BY <1>3, <2>1, <2>2, OneMoreLost
<1> QED
  BY <1>2, <1>3 DEF x6200_control_init

(* The number that idle gives up is closed first, whatever it names.        *)
LEMMA IdleLosesNone ==
  ASSUME TypesInv, LeakInv, x6200_control_idle
  PROVE  LeakInv'
<1> DEFINE table == Closed(file, i2c_fd)
<1>1. /\ file \in [Fd -> File] /\ faults \in 0 .. MaxFaults /\ started
      /\ UNCHANGED <<started, failed, flow_fd, flowing>>
  BY DEF TypesInv, DescriptorsTypeOK, x6200_control_idle, flowVars
<1>2. /\ table \in [Fd -> File]
      /\ \A m \in Fd : table[m] = IF m = i2c_fd THEN "free" ELSE file[m]
  BY <1>1, ClosedTable
<1> HIDE DEF table
<1>3. \/ \E n \in Fd : file' = [table EXCEPT ![n] = "i2c"] /\ i2c_fd' = n
      \/ file' = table
  BY <1>1, I2cOpens DEF x6200_control_idle, table
<1>4. \A n \in Fd : IsLost(n)' => IsLost(n)
  BY <1>1, <1>2, <1>3 DEF IsLost
<1> QED
  BY <1>1, <1>4, NoMoreLost

LEMMA FlowInitLosesNone ==
  ASSUME TypesInv, LeakInv, x6200_flow_init
  PROVE  LeakInv'
<1>1. /\ file \in [Fd -> File] /\ faults \in 0 .. MaxFaults /\ ~ flowing
      /\ UNCHANGED <<i2c_fd, started, failed>>
  BY DEF TypesInv, DescriptorsTypeOK, x6200_flow_init, i2cVars
<1>2. PICK returns \in BOOLEAN : open_flow_fd(file, returns) /\ flowing' = returns
  BY DEF x6200_flow_init
<1>3. \/ /\ flowing'
         /\ \E n \in Fd : file' = [file EXCEPT ![n] = "tty"] /\ flow_fd' = n
      \/ file' = file
  BY <1>1, <1>2, FlowOpens
<1>4. \A n \in Fd : IsLost(n)' => IsLost(n)
  BY <1>1, <1>3 DEF IsLost
<1> QED
  BY <1>1, <1>4, NoMoreLost

(* So is the number that a restart gives up, also when it has come to name  *)
(* the file of somebody else: that one is closed, and not lost.             *)
LEMMA FlowRestartLosesNone ==
  ASSUME TypesInv, LeakInv, x6200_flow_restart
  PROVE  LeakInv'
<1> DEFINE table == Closed(file, flow_fd)
<1>1. /\ file \in [Fd -> File] /\ faults \in 0 .. MaxFaults
      /\ flowing /\ flowing'
      /\ UNCHANGED <<i2c_fd, started, failed>>
  BY DEF TypesInv, DescriptorsTypeOK, x6200_flow_restart, i2cVars
<1>2. PICK returns \in BOOLEAN : open_flow_fd(table, returns)
  BY DEF x6200_flow_restart
<1>3. /\ table \in [Fd -> File]
      /\ \A m \in Fd : table[m] = IF m = flow_fd THEN "free" ELSE file[m]
  BY <1>1, ClosedTable
<1> HIDE DEF table
<1>4. \/ \E n \in Fd : file' = [table EXCEPT ![n] = "tty"] /\ flow_fd' = n
      \/ file' = table
  BY <1>1, <1>2, FlowOpens
<1>5. \A n \in Fd : IsLost(n)' => IsLost(n)
  BY <1>1, <1>3, <1>4 DEF IsLost
<1> QED
  BY <1>1, <1>5, NoMoreLost

LEMMA OthersLoseNone ==
  ASSUME TypesInv, LeakInv, AppOpens \/ \E n \in Fd : AppCloses(n) \/ Breaks(n)
  PROVE  LeakInv'
<1>1. /\ file \in [Fd -> File] /\ faults \in 0 .. MaxFaults
      /\ UNCHANGED <<i2c_fd, started, failed, flow_fd, flowing>>
  BY DEF TypesInv, DescriptorsTypeOK, AppOpens, AppCloses, Breaks, i2cVars, flowVars
<1>2. \/ \E n \in Fd : file' = [file EXCEPT ![n] = "app"]
      \/ \E n \in Fd : file' = Closed(file, n)
      \/ \E n \in Fd : /\ file[n] \in {"i2c", "tty"}
                       /\ \A m \in Fd \ {n} : file'[m] = file[m]
  BY <1>1, OpensFree DEF AppOpens, AppCloses, Breaks
<1>3. \A n \in Fd : file'[n] \notin {"free", "app"} => file[n] \notin {"free", "app"}
  BY <1>1, <1>2, ClosedTable
<1>4. \A n \in Fd : IsLost(n)' => IsLost(n)
  BY <1>1, <1>3 DEF IsLost
<1> QED
  BY <1>1, <1>4, NoMoreLost

LEMMA NextLeak == TypesInv /\ LeakInv /\ [Next]_vars => LeakInv'
<1> SUFFICES ASSUME TypesInv, LeakInv, [Next]_vars PROVE LeakInv'
  OBVIOUS
<1>1. CASE UNCHANGED vars
  BY <1>1 DEF vars, LeakInv, Lost, IsLost
<1> QED
  BY <1>1, InitLosesFew, IdleLosesNone, FlowInitLosesNone, FlowRestartLosesNone,
     OthersLoseNone
  DEF Next

(* Reopening the I2C device and the port leaks no descriptor, whatever      *)
(* fails, however often, and whether or not the caller repeats a refused    *)
(* restart first; a start that fails leaks one at most (low/control.c:131,  *)
(* 150).                                                                    *)
THEOREM LeakIsBounded == Spec => []LeakBounded
<1>1. Init => LeakInv
  <2> SUFFICES ASSUME Init PROVE LeakInv
    OBVIOUS
  <2>1. Lost = {}
    BY DEF Init, Lost, IsLost
  <2> QED
    BY <2>1, FS_EmptySet DEF Init, LeakInv
<1>2. TypesInv /\ LeakInv => LeakBounded
  <2> SUFFICES ASSUME TypesInv, LeakInv PROVE LeakBounded
    OBVIOUS
  <2> DEFINE leaked == {n \in Fd : file[n] \notin {"free", "app"}} \ {i2c_fd, flow_fd}
  <2>1. leaked \subseteq Lost /\ Lost \subseteq Fd /\ leaked \subseteq Fd
    BY DEF Lost, IsLost
  <2>2. /\ Cardinality(leaked) <= Cardinality(Lost)
        /\ Cardinality(leaked) \in Nat /\ Cardinality(Lost) \in Nat
    BY <2>1, FdFinite, FS_Subset
  <2>3. failed \in Int
    BY BoundsAssumption DEF TypesInv, DescriptorsTypeOK, BoundsAssumption
  <2> HIDE DEF leaked
  <2>4. Cardinality(leaked) <= failed
    BY <2>2, <2>3 DEF LeakInv
  <2> QED
    BY <2>4 DEF LeakBounded, leaked
<1> QED
  BY <1>1, <1>2, InitTypes, NextTypes, NextLeak, PTL DEF Spec

=============================================================================
