----------------------------- MODULE S3cfbProbe -----------------------------
(***************************************************************************)
(* s3cfb_probe and s3cfb_remove around the driver of S3cfb: what the probe *)
(* has taken when one of its steps fails, and what it gives back on the    *)
(* way out through its labels.                                             *)
(***************************************************************************)
EXTENDS S3cfb

VARIABLES
  phase,      \* the step or label of s3cfb_probe that is next, or where it ended
  i,          \* the local variable i of its loops
  held,       \* what the probe has taken and not given back
  fbs,        \* framebuffers allocated
  mapped,     \* is the memory of the default window mapped?
  registered  \* framebuffers registered with the kernel

probe == <<phase, i, held, fbs, mapped, registered>>

(* The windows in the order in which they are registered                   *)
Nth(n) == (Default + n) % NrWins

ProbeInit ==
  /\ phase = "kzalloc" /\ i = 0 /\ held = {} /\ fbs = {} /\ mapped = FALSE
  /\ registered = {}

-----------------------------------------------------------------------------
(* A step that takes one thing, or fails and goes to its label             *)
Take(at, thing, next, label) ==
  /\ phase = at
  /\ \/ phase' = next /\ held' = held \cup {thing}
     \/ phase' = label /\ held' = held
  /\ UNCHANGED <<i, fbs, mapped, registered>>

(* Without memory the error message itself follows the null pointer.       *)
Kzalloc         == Take("kzalloc", "fbdev", "regulator_get", "fault")
RegulatorGet    == Take("regulator_get", "regulator", "regulator_enable", "err_regulator")
RegulatorEnable == Take("regulator_enable", "power", "clk_on", "err_regulator")

(* to_fb_plat may find nothing; the clock cannot fail.                     *)
ClkOn == Take("clk_on", "clock", "request_mem_region", "err_pdata")

RequestMemRegion == Take("request_mem_region", "region", "ioremap", "err_io")
Ioremap          == Take("ioremap", "regs", "kmalloc", "err_mem")

(* The array of s3cfb_alloc_framebuffer, and then one framebuffer at a     *)
(* time; the default window's memory with it                               *)
Kmalloc == Take("kmalloc", "fb", "framebuffer_alloc", "err_alloc")

FramebufferAlloc ==
  /\ phase = "framebuffer_alloc" /\ i < NrWins
  /\ \/ phase' = "err_alloc_fb" /\ UNCHANGED <<i, fbs, mapped>>
     \/ /\ fbs' = fbs \cup {i}
        /\ IF i = Default
           THEN \/ phase' = "err_map_video_mem" /\ UNCHANGED <<i, mapped>>
                \/ mapped' = TRUE /\ i' = i + 1 /\ UNCHANGED phase
           ELSE i' = i + 1 /\ UNCHANGED <<phase, mapped>>
  /\ UNCHANGED <<held, registered>>

Allocated ==
  /\ phase = "framebuffer_alloc" /\ i = NrWins
  /\ phase' = "register_framebuffer" /\ i' = 0
  /\ UNCHANGED <<held, fbs, mapped, registered>>

(* Mutant: the framebuffer at which the loop stopped is left.              *)
AllocUnwindSkipsLast ==
  /\ phase \in {"err_alloc_fb", "err_map_video_mem"}
  /\ fbs' = fbs \ (0 .. i - 1)
  /\ mapped' = (mapped /\ Default \notin 0 .. i - 1)
  /\ held' = held \ {"fb"} /\ phase' = "err_alloc" /\ UNCHANGED <<i, registered>>

(* The second label is inside the loop of the first, behind its test.      *)
AllocUnwind ==
  /\ phase \in {"err_alloc_fb", "err_map_video_mem"}
  /\ fbs' = fbs \ (0 .. IF phase = "err_map_video_mem" THEN i ELSE i - 1)
  /\ mapped' = (mapped /\ Default \notin 0 .. i - 1)
  /\ held' = held \ {"fb"} /\ phase' = "err_alloc" /\ UNCHANGED <<i, registered>>

(* s3cfb_register_framebuffer returns before the goto that would undo what *)
(* it has registered.                                                      *)
RegisterFramebuffer ==
  /\ phase = "register_framebuffer" /\ i < NrWins
  /\ \/ registered' = registered \cup {Nth(i)} /\ i' = i + 1 /\ UNCHANGED phase
     \/ phase' = "err_register" /\ UNCHANGED <<i, registered>>
  /\ UNCHANGED <<held, fbs, mapped>>

(* A win_power file that cannot be made is only reported; it is taken to   *)
(* be there.                                                               *)
RequestIrq ==
  /\ phase = "register_framebuffer" /\ i = NrWins
  /\ \/ phase' = "bound" /\ held' = held \cup {"irq", "early_suspend", "win_power"}
     \/ phase' = "err_irq" /\ held' = held
  /\ UNCHANGED <<i, fbs, mapped, registered>>

-----------------------------------------------------------------------------
(* The labels, each falling through to the next                            *)
ErrIrq ==
  /\ phase = "err_irq" /\ phase' = "err_register"
  /\ registered' = {} /\ UNCHANGED <<i, held, fbs, mapped>>

ErrRegister ==
  /\ phase = "err_register" /\ phase' = "err_alloc"
  /\ fbs' = {} /\ mapped' = FALSE /\ held' = held \ {"fb"}
  /\ UNCHANGED <<i, registered>>

Give(label, thing, next) ==
  /\ phase = label /\ phase' = next /\ held' = held \ {thing}
  /\ UNCHANGED <<i, fbs, mapped, registered>>

ErrAlloc == Give("err_alloc", "regs", "err_mem")
ErrMem   == Give("err_mem", "region", "err_io")
ErrIo    == Give("err_io", "clock", "err_pdata")

(* It is vlcd that is disabled, a regulator that was never asked for: a    *)
(* fault, or nothing in a kernel without regulators.                       *)
ErrPdata ==
  /\ phase = "err_pdata" /\ phase' \in {"err_regulator", "fault"}
  /\ UNCHANGED <<i, held, fbs, mapped, registered>>

ErrRegulator == Give("err_regulator", "fbdev", "failed")

(* s3cfb_remove unmaps the registers and then clears the address of the    *)
(* first window in them.                                                   *)
s3cfb_remove ==
  /\ phase = "bound" /\ Idle /\ \A p \in Proc : file[p] = NULL
  /\ phase' = "fault"
  /\ held' = held \ {"win_power", "early_suspend", "irq", "regs", "region", "clock"}
  /\ mapped' = (mapped /\ Default # 0)
  /\ UNCHANGED <<i, fbs, registered, vars>>

Probe ==
  \/ Kzalloc \/ RegulatorGet \/ RegulatorEnable \/ ClkOn \/ RequestMemRegion \/ Ioremap
  \/ Kmalloc \/ FramebufferAlloc \/ Allocated \/ AllocUnwind \/ RegisterFramebuffer
  \/ RequestIrq \/ ErrIrq \/ ErrRegister \/ ErrAlloc \/ ErrMem \/ ErrIo \/ ErrPdata
  \/ ErrRegulator

DeviceInit == Init /\ ProbeInit

DeviceNext ==
  \/ Probe /\ UNCHANGED vars
  \/ phase = "bound" /\ Next /\ UNCHANGED probe
  \/ s3cfb_remove

DeviceSpec == DeviceInit /\ [][DeviceNext]_<<vars, probe>>

(* A probe that fails, wherever it fails, gives back everything it took    *)
(* but the regulator, which it leaves on; the kernel keeps framebuffers    *)
(* only if registering one of them was what failed.                        *)
FailureGivesBack ==
  phase = "failed" =>
    /\ held \subseteq {"regulator", "power"}
    /\ fbs = {} /\ ~mapped
    /\ registered # {} => i < NrWins
=============================================================================
