------------------------------ MODULE Machine ------------------------------
(***************************************************************************)
(* The kernel below processes, part by part: the boot, processors with     *)
(* their locks and the disk, memory, the console and the clock.  A         *)
(* behaviour belongs to one of them, which part says.                      *)
(***************************************************************************)
EXTENDS Kernel, Vm, Console, Boot, Rtc

VARIABLE part

allvars == <<part, kvars, vmvars, bvars, rvars, cvars>>

(* The first value of each part's variables, where the part is not meant. *)
InitB == BootInit /\ (part # "boot" => pcm = CHOOSE m \in PcMachines : TRUE)
                  /\ (part # "boot" => elf = CHOOSE x \in KSegments : TRUE)
InitR == RtcInit /\ (part # "clock" => rtc.t = (CHOOSE t \in StartTimes : TRUE) /\ rtc.bcd)
InitK == KInit /\ (part # "kernel" => NCPU = 1)

MachineInit ==
  /\ part \in {"kernel", "memory", "boot", "clock", "serial", "keyboard"}
  /\ InitK /\ VmInit /\ InitB /\ InitR /\ ConInit

MachineNext ==
  /\ UNCHANGED part
  /\ \/ part = "kernel" /\ KNext /\ UNCHANGED <<vmvars, bvars, rvars, cvars>>
     \/ part = "memory" /\ VmNext /\ UNCHANGED <<kvars, bvars, rvars, cvars>>
     \/ part = "boot" /\ BootNext /\ UNCHANGED <<kvars, vmvars, rvars, cvars>>
     \/ part = "clock" /\ RtcNext /\ UNCHANGED <<kvars, vmvars, bvars, cvars>>
     \/ part = "serial" /\ SerialNext /\ UNCHANGED <<kvars, vmvars, bvars, rvars>>
     \/ part = "keyboard" /\ KeyNext /\ UNCHANGED <<kvars, vmvars, bvars, rvars>>

(* Processors run, the disk answers and its interrupt arrives; of the      *)
(* processors that spin on a lock each gets it some time.  Startup         *)
(* interrupts arrive.  An update of the clock comes to its end.  A process *)
(* that is ready runs.                                                     *)
MachineSpec ==
  /\ MachineInit /\ [][MachineNext]_allvars
  /\ WF_kvars(part = "kernel" /\ DiskStep) /\ SF_kvars(part = "kernel" /\ IdeIntr)
  /\ \A c \in 1..MaxCpu : SF_kvars(part = "kernel" /\ c \in Cpus /\ CpuStep(c))
  /\ WF_bvars(part = "boot" /\ BspStep)
  /\ \A c \in 0..3 : WF_bvars(part = "boot" /\ c \in AllIds /\ (ApStep(c) \/ RunInit(c)))
  /\ WF_rvars(part = "clock" /\ CmStep) /\ WF_rvars(part = "clock" /\ RtcUpdate)
  /\ \A p \in Readers : WF_cvars(part = "serial" /\ consoleread(p))

(* The properties of the parts that hold in time. *)
KernelEnds == part = "kernel" => AllEnd
BootEnds == part = "boot" => Boots
ClockReturns == part = "clock" => TimeReturns
-----------------------------------------------------------------------------
Proc(i) == [type |-> "MPPROC", id |-> i]
Ioapic  == [type |-> "MPIOAPIC", id |-> 0]
Bus     == [type |-> "MPBUS", id |-> 0]
Other   == [type |-> "other", id |-> 0]
Pc(table, at, ebda, conf) == [table |-> table, at |-> at, ebda |-> ebda, conf |-> conf, bsp |-> 0]
MCPcMachines ==
  {Pc(<<Proc(0), Proc(1), Ioapic, Bus, Proc(2), Proc(3)>>, "ebda", TRUE, TRUE),
   Pc(<<Bus, Proc(1), Proc(0), Ioapic>>, "base", FALSE, TRUE),
   Pc(<<Proc(0), Ioapic, Proc(2)>>, "F0000", TRUE, TRUE),
   Pc(<<Proc(0), Other, Ioapic>>, "F0000", FALSE, TRUE),
   Pc(<<Proc(0), Ioapic>>, "E0000", TRUE, TRUE), Pc(<<Proc(0), Ioapic>>, "base", FALSE, FALSE)}

Seg(pa, off, filesz, memsz) == [pa |-> pa, off |-> off, filesz |-> filesz, memsz |-> memsz]
MCKSegments ==
  {<<Seg(4, 5, f, z), Seg(12, o, 2, 4)>> : f \in {0, 3, 5}, z \in {5, 7}, o \in {12, 13, 16}}

MCStartTimes ==
  {<<58, 59, 23, 31, 12, 9>>, <<59, 9, 9, 30, 9, 23>>}

(* Two processes: one changes two blocks, one through the log; the other   *)
(* reads both.                                                             *)
MCScript ==
  <<<<<<"read", 1>>, <<"pin", 5>>, <<"free", 0>>>>,
    <<<<"read", 1>>, <<"write", 6>>, <<"free", 0>>, <<"read", 2>>, <<"free", 0>>,
      <<"read", 3>>, <<"free", 0>>>>>>

MCBegin == {<<3, 3>>}

MCMachines == {<<1, 2>>, <<2, 0>>}

(* What must happen does: processes get their buffers and end, the machine *)
(* boots, the clock is read, and a complete line reaches a reader.         *)
MachineLive == KernelEnds /\ BootEnds /\ ClockReturns /\ LineDelivered
=============================================================================
