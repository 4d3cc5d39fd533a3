-------------------------------- MODULE Boot --------------------------------
(***************************************************************************)
(* From power-on to the idle loops: kmain() (main.cpp) on the bootstrap    *)
(* processor, smp.cpp, mmu.cpp and percore::init(), with the other cores   *)
(* parked by the boot loader until smp::init() gives them an entry point.  *)
(* Kernel.tla goes on where this module ends.                              *)
(*                                                                         *)
(* The boot loader is not part of the kernel: it enters kmain() on one     *)
(* core, lists the cores in some order, and lets a parked core jump to its *)
(* goto_address as soon as it has one.                                     *)
(***************************************************************************)
EXTENDS Console, FiniteSets

CONSTANTS
  Bsp,         \* the bootstrap processor
  kMaxCores,   \* the size of percore::g_table
  AddressSpace, \* how many addresses there are: they wrap, as 64-bit integers do
  Images,      \* where the kernel may have been loaded: physical and virtual base
  TableOffset, \* g_l1_table's place in the image
  MayPanic,    \* cores on which an assertion fails, once they run threads
  Unknown      \* what a register holds before it is written

ASSUME BootAssumption ==
  /\ IsFiniteSet(Cores) /\ Bsp \in Cores /\ MayPanic \subseteq Cores
  /\ kMaxCores \in Nat /\ Cardinality(Cores) <= kMaxCores
  /\ AddressSpace \in Nat \ {0} /\ TableOffset \in Nat
  /\ Images \subseteq [physical_base : 0 .. AddressSpace - 1, virtual_base : 0 .. AddressSpace - 1]
  /\ Unknown \notin Nat

VARIABLES
  limine,          \* what the boot loader answered
  cpus,            \* mp->cpus
  extra_argument, goto_address,   \* of each core's limine_mp_info
  pc, i,           \* where each core is, and the bootstrap processor's loop counter
  tpidr, ttbr0,    \* registers of each core
  g_l1_table,      \* whether the page table has been filled in
  g_l1_table_phys,
  heap_ready,      \* whether heap::init() has run
  idle             \* the entries of g_table whose idle TCB has been made

bootloader == <<limine, cpus, extra_argument, goto_address>>
mmu        == <<g_l1_table, g_l1_table_phys>>
vars == <<bootloader, pc, i, tpidr, ttbr0, mmu, heap_ready, idle, console>>

cpu_count == Cardinality(Cores)

Init ==
  /\ limine \in [supported : BOOLEAN, mp : BOOLEAN, executable_address : BOOLEAN, image : Images]
  /\ cpus \in {s \in [0 .. cpu_count - 1 -> Cores] : \A c \in Cores : \E n \in DOMAIN s : s[n] = c}
  /\ extra_argument = [c \in Cores |-> 0]
  /\ goto_address = {}
  /\ pc = [c \in Cores |-> IF c = Bsp THEN "kmain" ELSE "parked"]
  /\ i = 0
  /\ tpidr = [c \in Cores |-> Unknown]
  /\ ttbr0 = [c \in Cores |-> Unknown]
  /\ g_l1_table = FALSE /\ g_l1_table_phys = 0
  /\ heap_ready = FALSE /\ idle = {}
  /\ ConsoleInit

(* A core goes from one place to the next, once it is not in print().      *)
Goto(c, from, to) ==
  /\ pc[c] = from /\ calls[c] = <<>>
  /\ pc' = [pc EXCEPT ![c] = to]

(* What the UART's address is translated by: the table, if ttbr0 has the   *)
(* physical address of a table that is filled in.                          *)
UartMapped(c) ==
  /\ g_l1_table
  /\ ttbr0[c] = (limine.image.physical_base + TableOffset) % AddressSpace

(* Where a core goes that needs something to have been set up.             *)
Given(set_up, to) == IF set_up THEN to ELSE "fault"

(* A core prints, for which it needs the mapping.                          *)
Say(c, from, to, strings) ==
  /\ Goto(c, from, Given(UartMapped(c), to))
  /\ Printing(c, IF UartMapped(c) THEN strings ELSE <<>>)
  /\ UNCHANGED <<bootloader, i, tpidr, ttbr0, mmu, heap_ready, idle>>

-----------------------------------------------------------------------------
(* kmain()                                                                 *)

Kmain ==
  /\ Goto(Bsp, "kmain",
          IF limine.supported /\ limine.mp /\ limine.executable_address THEN "mmu_init" ELSE "hang")
  /\ UNCHANGED <<bootloader, i, tpidr, ttbr0, mmu, heap_ready, idle, console>>

(* mmu::init(): addresses are computed modulo AddressSpace.                *)
mmu_init ==
  /\ Goto(Bsp, "mmu_init", "activate")
  /\ g_l1_table' = TRUE
  /\ LET table_vaddr == (limine.image.virtual_base + TableOffset) % AddressSpace IN
     g_l1_table_phys' = (table_vaddr - limine.image.virtual_base + limine.image.physical_base) % AddressSpace
  /\ UNCHANGED <<bootloader, i, tpidr, ttbr0, heap_ready, idle, console>>

(* mmu::activate_this_core(), on the bootstrap processor and on the others.*)
activate_this_core(c, from, to) ==
  /\ Goto(c, from, to)
  /\ ttbr0' = [ttbr0 EXCEPT ![c] = g_l1_table_phys]
  /\ UNCHANGED <<bootloader, i, tpidr, mmu, heap_ready, idle, console>>

PrintMarker == Say(Bsp, "marker", "heap_init", << <<"begins", "\n">> >>)

heap_init ==
  /\ Goto(Bsp, "heap_init", "percore_init")
  /\ heap_ready' = TRUE
  /\ UNCHANGED <<bootloader, i, tpidr, ttbr0, mmu, idle, console>>

(* Faulty: an idle thread too few.                                         *)
PercoreInitShort ==
  /\ Goto(Bsp, "percore_init", Given(heap_ready, IF i + 1 < kMaxCores - 1 THEN "percore_init" ELSE "smp_init"))
  /\ idle' = idle \cup {i}
  /\ i' = i + 1
  /\ UNCHANGED <<bootloader, tpidr, ttbr0, mmu, heap_ready, console>>

(* percore::init(): an idle TCB, from the heap, for each entry of g_table. *)
percore_init ==
  /\ Goto(Bsp, "percore_init", Given(heap_ready, IF i + 1 < kMaxCores THEN "percore_init" ELSE "smp_init"))
  /\ idle' = idle \cup {i}
  /\ i' = i + 1
  /\ UNCHANGED <<bootloader, tpidr, ttbr0, mmu, heap_ready, console>>

-----------------------------------------------------------------------------
(* smp::init()                                                             *)

bsp_index ==
  LET matches == {n \in 0 .. cpu_count - 1 : cpus[n] = Bsp}
  IN  IF matches = {} THEN 0 ELSE CHOOSE n \in matches : \A m \in matches : n <= m

SmpInit ==
  /\ Goto(Bsp, "smp_init", "release")
  /\ tpidr' = [tpidr EXCEPT ![Bsp] = bsp_index]
  /\ i' = 0
  /\ UNCHANGED <<bootloader, ttbr0, mmu, heap_ready, idle, console>>

(* Faulty: publishes the entry point before the core's id.                 *)
ReleasePublishesFirst ==
  /\ i < cpu_count /\ i # bsp_index
  /\ Goto(Bsp, "release", "publish")
  /\ goto_address' = goto_address \cup {cpus[i]}
  /\ UNCHANGED <<limine, cpus, extra_argument, i, tpidr, ttbr0, mmu, heap_ready, idle, console>>

Release ==
  /\ i < cpu_count /\ i # bsp_index
  /\ Goto(Bsp, "release", "publish")
  /\ extra_argument' = [extra_argument EXCEPT ![cpus[i]] = i]
  /\ UNCHANGED <<limine, cpus, goto_address, i, tpidr, ttbr0, mmu, heap_ready, idle, console>>

(* Faulty: the entry point is never stored.                                *)
PublishNothing ==
  /\ Goto(Bsp, "publish", "release")
  /\ i' = i + 1
  /\ UNCHANGED <<bootloader, tpidr, ttbr0, mmu, heap_ready, idle, console>>

Publish ==
  /\ Goto(Bsp, "publish", "release")
  /\ goto_address' = goto_address \cup {cpus[i]}
  /\ i' = i + 1
  /\ UNCHANGED <<limine, cpus, extra_argument, tpidr, ttbr0, mmu, heap_ready, idle, console>>

ReleaseSkip ==
  /\ i = bsp_index
  /\ Goto(Bsp, "release", "release")
  /\ i' = i + 1
  /\ UNCHANGED <<bootloader, tpidr, ttbr0, mmu, heap_ready, idle, console>>

(* All are released: print_boot_banner().                                  *)
PrintBanner ==
  /\ i = cpu_count
  /\ Say(Bsp, "release", "go_main",
         << <<"\n">>, <<"Hello", "\n">>,
            append(append_uint(append(append_uint(<<"core">>, tpidr[Bsp]), <<"of">>), cpu_count), <<"\n">>) >>)

(* go(main), whose TCB comes from the heap.                                *)
GoMain ==
  /\ Goto(Bsp, "go_main", Given(heap_ready, "stop"))
  /\ UNCHANGED <<bootloader, i, tpidr, ttbr0, mmu, heap_ready, idle, console>>

-----------------------------------------------------------------------------
(* The other cores: ap_entry().                                            *)

ApEntry(c) ==
  /\ c \in goto_address
  /\ Goto(c, "parked", "ap_activate")
  /\ tpidr' = [tpidr EXCEPT ![c] = extra_argument[c]]
  /\ UNCHANGED <<bootloader, i, ttbr0, mmu, heap_ready, idle, console>>

PrintGreeting(c) ==
  Say(c, "greet", "stop", << append(append_uint(<<"from">>, tpidr[c]), <<"\n">>) >>)

(* stop(): on to the idle thread of g_table[smp::me()].                    *)
StopCore(c) ==
  /\ Goto(c, "stop", Given(heap_ready /\ tpidr[c] \in idle, "idle_loop"))
  /\ UNCHANGED <<bootloader, i, tpidr, ttbr0, mmu, heap_ready, idle, console>>

(* An assertion fails in a thread: it prints, and halts its core.          *)
Panic(c) ==
  /\ c \in MayPanic
  /\ Say(c, "idle_loop", "halted", kpanic_at(<<"!">>, <<"f">>, 10))

(* idle_loop() and wfi never end.                                          *)
Forever(c) == pc[c] \in {"idle_loop", "halted", "hang"} /\ UNCHANGED vars

-----------------------------------------------------------------------------
Core(c) ==
  \/ ApEntry(c) \/ activate_this_core(c, "ap_activate", "greet") \/ PrintGreeting(c)
  \/ StopCore(c) \/ Panic(c)
  \/ print(c) /\ UNCHANGED <<bootloader, pc, i, tpidr, ttbr0, mmu, heap_ready, idle>>

KmainStep ==
  \/ Kmain \/ mmu_init \/ activate_this_core(Bsp, "activate", "marker") \/ PrintMarker
  \/ heap_init \/ percore_init \/ SmpInit \/ Release \/ Publish \/ ReleaseSkip
  \/ PrintBanner \/ GoMain

Uart == Transmit /\ UNCHANGED <<bootloader, pc, i, tpidr, ttbr0, mmu, heap_ready, idle>>

Next == Uart \/ KmainStep \/ \E c \in Cores : Core(c) \/ Forever(c)

Spec == Init /\ [][Next]_vars

(* Cores execute, and the UART transmits.                                  *)
FairSpec == Spec /\ WF_vars(Uart) /\ WF_vars(KmainStep) /\ \A c \in Cores : WF_vars(Core(c))

-----------------------------------------------------------------------------
(* Everything is set up before it is used, on every core: no core prints   *)
(* before its TTBR0 points at the finished page table, allocates before    *)
(* heap::init(), or enters an idle thread that has not been made.          *)
NoFault == \A c \in Cores : pc[c] # "fault"

(* "Assigns every core (including the caller) an id in [0, cpu_count)"     *)
(* (smp.hpp): every core that has an id has one of its own, and the entry  *)
(* of g_table it names exists.                                             *)
OwnSlot ==
  \A c \in Cores : tpidr[c] # Unknown =>
    /\ tpidr[c] \in 0 .. cpu_count - 1 /\ tpidr[c] < kMaxCores
    /\ \A d \in Cores \ {c} : tpidr[d] # tpidr[c]

(* If the boot loader answers every request, every core gets to its idle   *)
(* loop, whatever the others print meanwhile.                              *)
AllCoresIdle ==
  limine.supported /\ limine.mp /\ limine.executable_address =>
    \A c \in Cores : <>(pc[c] = "idle_loop")
=============================================================================
