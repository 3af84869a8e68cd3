------------------------------ MODULE Syscalls -------------------------------
(***************************************************************************)
(* The way of a system call: the stub of lib/syscall.c puts its number and   *)
(* arguments into registers, trap_dispatch takes them out and syscall of      *)
(* kern/syscall.c switches on the number.  Arguments are 16-bit numbers here, *)
(* characters and uint8 their lower half.                                    *)
(***************************************************************************)
EXTENDS Integers, Sequences

Byte == 256
E_INVALID == "-E_INVAL"

\* The enumeration of inc/syscall.h, in its order.
Calls ==
  << "cputs", "cgetc", "getenvid", "getenvindex", "getparentenvid", "env_destroy", "env_exit", "allocate_page", "map_frame",
     "unmap_frame", "calc_req_frames", "calc_free_frames", "calc_modified_frames", "calc_notmod_frames", "pf_calc_allocated_pages",
     "calculate_pages_tobe_removed_ready_exit", "scarce_memory", "freeMem", "allocateMem", "moveMem", "disableINTR", "enableINTR",
     "cputc", "clearFFL", "create_semaphore", "wait_semaphore", "signal_semaphore", "get_semaphore_value", "create_shared_object",
     "get_size_of_shared_object", "get_shared_object", "free_shared_object", "get_max_shares", "create_env", "run_env", "free_env",
     "get_virtual_time", "rcr2", "bypassPageFault", "testNum", "rsttst", "chktst", "inctst", "gettst", "get_heap_strategy",
     "set_heap_strategy", "NSYSCALLS" >>
NumberOf(name) == (CHOOSE k \in DOMAIN Calls : Calls[k] = name) - 1

\* A stub: the call it makes, the kinds of its arguments (w word, b byte) and
\* whether it gives its caller the result of the call.
Makes(call, args, returns) == [call |-> call, args |-> args, returns |-> returns]
ConsoleStubs ==
  [sys_cputs |-> Makes("cputs", <<"w", "w", "b">>, FALSE), sys_cgetc |-> Makes("cgetc", <<>>, TRUE)]
EnvStubs ==
  [sys_env_destroy |-> Makes("env_destroy", <<"w">>, TRUE), sys_getenvid |-> Makes("getenvid", <<>>, TRUE),
   sys_getenvindex |-> Makes("getenvindex", <<>>, TRUE), sys_getparentenvid |-> Makes("getparentenvid", <<>>, TRUE),
   sys_env_exit |-> Makes("env_exit", <<>>, FALSE)]
MemoryStubs ==
  [__sys_allocate_page |-> Makes("allocate_page", <<"w", "w">>, TRUE),
   __sys_map_frame |-> Makes("map_frame", <<"w", "w", "w", "w", "w">>, TRUE),
   __sys_unmap_frame |-> Makes("unmap_frame", <<"w", "w">>, TRUE),
   sys_calculate_required_frames |-> Makes("calc_req_frames", <<"w", "w">>, TRUE),
   sys_calculate_free_frames |-> Makes("calc_free_frames", <<>>, TRUE),
   sys_calculate_modified_frames |-> Makes("calc_modified_frames", <<>>, TRUE),
   sys_calculate_notmod_frames |-> Makes("calc_notmod_frames", <<>>, TRUE),
   sys_freeMem |-> Makes("freeMem", <<"w", "w">>, FALSE), sys_allocateMem |-> Makes("allocateMem", <<"w", "w">>, FALSE),
   sys_pf_calculate_allocated_pages |-> Makes("pf_calc_allocated_pages", <<>>, TRUE),
   sys_calculate_pages_tobe_removed_ready_exit |-> Makes("calculate_pages_tobe_removed_ready_exit", <<"w">>, TRUE),
   sys_scarce_memory |-> Makes("scarce_memory", <<>>, FALSE)]
MachineStubs ==
  [sys_disable_interrupt |-> Makes("disableINTR", <<>>, FALSE), sys_enable_interrupt |-> Makes("enableINTR", <<>>, FALSE),
   sys_cputc |-> Makes("cputc", <<"b">>, FALSE), sys_clear_ffl |-> Makes("clearFFL", <<>>, FALSE)]
SharingStubs ==
  [sys_createSemaphore |-> Makes("create_semaphore", <<"w", "w">>, TRUE),
   sys_getSemaphoreValue |-> Makes("get_semaphore_value", <<"w", "w">>, TRUE),
   sys_waitSemaphore |-> Makes("wait_semaphore", <<"w", "w">>, FALSE),
   sys_signalSemaphore |-> Makes("signal_semaphore", <<"w", "w">>, FALSE),
   sys_createSharedObject |-> Makes("create_shared_object", <<"w", "w", "b", "w">>, TRUE),
   sys_getSizeOfSharedObject |-> Makes("get_size_of_shared_object", <<"w", "w">>, TRUE),
   sys_getSharedObject |-> Makes("get_shared_object", <<"w", "w", "w">>, TRUE),
   sys_freeSharedObject |-> Makes("free_shared_object", <<"w", "w">>, TRUE),
   sys_getMaxShares |-> Makes("get_max_shares", <<>>, TRUE)]
ProgramStubs ==
  [sys_create_env |-> Makes("create_env", <<"w", "w", "w">>, TRUE), sys_run_env |-> Makes("run_env", <<"w">>, FALSE),
   sys_free_env |-> Makes("free_env", <<"w">>, FALSE), sys_get_virtual_time |-> Makes("get_virtual_time", <<"w", "w">>, TRUE),
   sys_moveMem |-> Makes("moveMem", <<"w", "w", "w">>, FALSE)]
\* The four questions about the strategy compare one call's result.
TestStubs ==
  [sys_rcr2 |-> Makes("rcr2", <<>>, TRUE), sys_bypassPageFault |-> Makes("bypassPageFault", <<"b">>, FALSE),
   rsttst |-> Makes("rsttst", <<>>, FALSE), tst |-> Makes("testNum", <<"w", "w", "w", "b", "w">>, FALSE),
   chktst |-> Makes("chktst", <<"w">>, FALSE), inctst |-> Makes("inctst", <<>>, FALSE), gettst |-> Makes("gettst", <<>>, TRUE),
   sys_isUHeapPlacementStrategy |-> Makes("get_heap_strategy", <<>>, TRUE),
   sys_set_uheap_strategy |-> Makes("set_heap_strategy", <<"w">>, FALSE)]
Groups == <<ConsoleStubs, EnvStubs, MemoryStubs, MachineStubs, SharingStubs, ProgramStubs, TestStubs>>
Stubs == UNION {DOMAIN Groups[g] : g \in DOMAIN Groups}
Stub(name) == Groups[CHOOSE g \in DOMAIN Groups : name \in DOMAIN Groups[g]][name]

Narrow(kind, v) == IF kind = "b" THEN v % Byte ELSE v
\* The int instruction of the stub.
Trap(name, v) ==
  LET s == Stub(name)
      a == [i \in 1..5 |-> IF i <= Len(s.args) THEN Narrow(s.args[i], v[i]) ELSE 0]
  IN  [eax |-> NumberOf(s.call), edx |-> a[1], ecx |-> a[2], ebx |-> a[3], edi |-> a[4], esi |-> a[5]]

\* Mutant: the third and the second argument change places.
trap_dispatch_Swapped(r) == [no |-> r.eax, a |-> <<r.edx, r.ebx, r.ecx, r.edi, r.esi>>]
trap_dispatch(r) == [no |-> r.eax, a |-> <<r.edx, r.ecx, r.ebx, r.edi, r.esi>>]

\* The cases of the switch: the function called, with as many of the registers
\* and of these kinds, and whether its result is returned or 0 is (the time is
\* returned through the two pointers; sys_clearFFL takes no argument, although
\* the case passes one).
Serves(fn, args, returned) == [fn |-> fn, args |-> args, returned |-> returned]
Switch ==
  [cputs |-> Serves("sys_cputs", <<"w", "w", "b">>, FALSE), cgetc |-> Serves("sys_cgetc", <<>>, TRUE),
   getenvindex |-> Serves("sys_getenvindex", <<>>, TRUE), getenvid |-> Serves("sys_getenvid", <<>>, TRUE),
   getparentenvid |-> Serves("sys_getparentenvid", <<>>, TRUE), env_destroy |-> Serves("sys_env_destroy", <<"w">>, TRUE),
   env_exit |-> Serves("sys_env_exit", <<>>, FALSE), calc_req_frames |-> Serves("sys_calculate_required_frames", <<"w", "w">>, TRUE),
   calc_free_frames |-> Serves("sys_calculate_free_frames", <<>>, TRUE),
   calc_modified_frames |-> Serves("sys_calculate_modified_frames", <<>>, TRUE),
   calc_notmod_frames |-> Serves("sys_calculate_notmod_frames", <<>>, TRUE),
   pf_calc_allocated_pages |-> Serves("sys_pf_calculate_allocated_pages", <<>>, TRUE),
   freeMem |-> Serves("sys_freeMem", <<"w", "w">>, FALSE), allocate_page |-> Serves("__sys_allocate_page", <<"w", "w">>, FALSE),
   map_frame |-> Serves("__sys_map_frame", <<"w", "w", "w", "w", "w">>, FALSE),
   unmap_frame |-> Serves("__sys_unmap_frame", <<"w", "w">>, FALSE), allocateMem |-> Serves("sys_allocateMem", <<"w", "w">>, FALSE),
   disableINTR |-> Serves("sys_disable_interrupt", <<>>, FALSE), enableINTR |-> Serves("sys_enable_interrupt", <<>>, FALSE),
   cputc |-> Serves("sys_cputc", <<"b">>, FALSE), clearFFL |-> Serves("sys_clearFFL", <<>>, FALSE),
   create_env |-> Serves("sys_create_env", <<"w", "w", "w">>, TRUE), free_env |-> Serves("sys_free_env", <<"w">>, FALSE),
   run_env |-> Serves("sys_run_env", <<"w">>, FALSE), get_virtual_time |-> Serves("sys_get_virtual_time", <<"w", "w">>, TRUE),
   moveMem |-> Serves("sys_moveMem", <<"w", "w", "w">>, FALSE), rcr2 |-> Serves("sys_rcr2", <<>>, TRUE),
   bypassPageFault |-> Serves("sys_bypassPageFault", <<"b">>, FALSE), rsttst |-> Serves("rsttst", <<>>, FALSE),
   inctst |-> Serves("inctst", <<>>, FALSE), chktst |-> Serves("chktst", <<"w">>, FALSE), gettst |-> Serves("gettst", <<>>, TRUE),
   testNum |-> Serves("tst", <<"w", "w", "w", "b", "w">>, FALSE),
   get_heap_strategy |-> Serves("sys_get_heap_strategy", <<>>, TRUE),
   set_heap_strategy |-> Serves("sys_set_uheap_strategy", <<"w">>, FALSE)]
syscall(no, a) ==
  IF Calls[no + 1] \in DOMAIN Switch
  THEN LET c == Switch[Calls[no + 1]]
       IN  [fn |-> c.fn, args |-> [i \in 1..Len(c.args) |-> Narrow(c.args[i], a[i])], result |-> IF c.returned THEN "its" ELSE "0"]
  ELSE [fn |-> "none", args |-> <<>>, result |-> E_INVALID]

Calling(name, v) == LET t == trap_dispatch(Trap(name, v)) IN syscall(t.no, t.a)
\* The kernel's function for a stub: of the same name but for two.
KernelName(name) == IF name = "sys_clear_ffl" THEN "sys_clearFFL"
                    ELSE IF name = "sys_isUHeapPlacementStrategy" THEN "sys_get_heap_strategy" ELSE name
\* The calls no case of the switch serves.
Unserved == {"calculate_pages_tobe_removed_ready_exit", "scarce_memory", "create_semaphore", "wait_semaphore", "signal_semaphore",
             "get_semaphore_value", "create_shared_object", "get_size_of_shared_object", "get_shared_object", "free_shared_object", "get_max_shares"}
\* The calls whose result the switch drops although the stub returns one.
Dropped == {"allocate_page", "map_frame", "unmap_frame"}
==============================================================================
