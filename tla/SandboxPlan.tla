------------------------------- MODULE SandboxPlan -------------------------------
(***************************************************************************)
(* archangel-sandbox: from the [sandbox] section of a verified manifest to *)
(* a SandboxPlan, or a refusal (plan.rs, cgroup.rs, seccomp.rs,            *)
(* capability.rs).  A limit string is the sequence of its characters.      *)
(* Machine words are scaled: U64_MAX and KIBI are parameters, so that TLC  *)
(* reaches both overflows.                                                 *)
(***************************************************************************)
EXTENDS PathRules, Integers, Sequences, SequencesExt

CONSTANTS
  KIBI,          \* 1024
  U64_MAX,       \* 2^64 - 1
  KnownCap,      \* capability names the kernel has
  to_canonical   \* caps::to_canonical, [spelling -> name]

CPU_PERIOD_US == 100000
MAX_CPU_PERCENT == 100
MAX_MEMORY_BYTES == KIBI * KIBI * KIBI * KIBI

ASSUME SandboxPlanAssumption ==
  KIBI \in Nat \ {0, 1} /\ U64_MAX \in Nat /\ U64_MAX >= MAX_MEMORY_BYTES

Numeral == <<"0", "1", "2", "3", "4", "5", "6", "7", "8", "9">>
Digit == [c \in Range(Numeral) |-> (CHOOSE i \in 1 .. 10 : Numeral[i] = c) - 1]
AllDigits(s) == s # <<>> /\ Range(s) \subseteq DOMAIN Digit
Value(s) ==
  LET after[k \in 0 .. Len(s)] == IF k = 0 THEN 0 ELSE 10 * after[k - 1] + Digit[s[k]]
  IN  after[Len(s)]

(* str::trim *)
trim(s) ==
  LET ink == {i \in DOMAIN s : s[i] # " "}
  IN  IF ink = {} THEN <<>> ELSE SubSeq(s, Min(ink), Max(ink))

Refused == -1
(* CpuMax::parse, the percentage or a refusal.  (A number too long for u64 *)
(* is over the ceiling as well.)                                           *)
parse_cpu(text) ==
  LET s == trim(text)
      digits == IF s = <<>> THEN s ELSE Front(s)
  IN  CASE s = <<>> -> Refused
        [] s # <<>> /\ Last(s) # "%" -> Refused
        [] s # <<>> /\ Last(s) = "%" /\ ~AllDigits(digits) -> Refused
        [] OTHER -> IF Value(digits) \in 1 .. MAX_CPU_PERCENT THEN Value(digits) ELSE Refused
cpu_quota(percent) == (percent * CPU_PERIOD_US) \div 100

Multiplier == [K |-> KIBI, k |-> KIBI, M |-> KIBI * KIBI, m |-> KIBI * KIBI,
               G |-> KIBI * KIBI * KIBI, g |-> KIBI * KIBI * KIBI]

mul_wrapping(v, m) == (v * m) % (U64_MAX + 1)
checked_mul(v, m) == IF v * m > U64_MAX THEN Refused ELSE v * m
(* MemoryMax::parse, the bytes or a refusal. *)
parse_memory(text) ==
  LET s == trim(text)
      suffixed == s # <<>> /\ Last(s) \in DOMAIN Multiplier
      number == IF suffixed THEN Front(s) ELSE s
      multiplier == IF suffixed THEN Multiplier[Last(s)] ELSE 1
  IN  CASE ~AllDigits(number) -> Refused
        [] AllDigits(number) /\ Value(number) > U64_MAX -> Refused
        [] OTHER ->
             LET bytes == checked_mul(Value(number), multiplier)
             IN  IF bytes \in 1 .. MAX_MEMORY_BYTES THEN bytes ELSE Refused

-----------------------------------------------------------------------------
(* seccomp.rs: the one profile.  Its filter kills on a mismatch. *)
common_allow ==
  {"read", "write", "readv", "writev", "pread64", "close", "lseek", "fcntl", "ioctl", "dup",
   "dup3", "pipe2"}
  \union {"openat", "newfstatat", "statx", "getdents64", "readlinkat", "faccessat", "getcwd",
          "chdir"}
  \union {"brk", "mmap", "munmap", "mprotect", "mremap", "madvise"}
  \union {"rt_sigaction", "rt_sigprocmask", "rt_sigreturn", "rt_sigtimedwait", "sigaltstack",
          "restart_syscall"}
  \union {"nanosleep", "clock_nanosleep", "clock_gettime", "clock_getres", "gettimeofday"}
  \union {"getpid", "getppid", "gettid", "getuid", "geteuid", "getgid", "getegid", "getgroups",
          "getpgid", "getsid", "setpgid", "setsid"}
  \union {"connect", "bind", "socketpair", "sendto", "recvfrom", "sendmsg", "recvmsg",
          "getsockopt", "setsockopt", "getpeername", "getsockname"}
  \union {"set_tid_address", "set_robust_list", "rseq", "prlimit64", "getrlimit", "futex",
          "sched_yield", "sched_getaffinity"}
  \union {"ppoll", "pselect6", "epoll_create1", "epoll_ctl", "epoll_pwait"}
  \union {"clone", "clone3", "execve", "execveat", "wait4", "waitid", "exit", "exit_group",
          "tgkill", "kill"}
  \union {"statfs", "fstatfs", "fadvise64", "uname", "sysinfo", "times", "getrandom",
          "membarrier", "umask", "prctl"}
arch_extra_allow ==
  [x86_64 |-> {"open", "stat", "lstat", "fstat", "poll", "select", "access", "dup2", "pipe",
               "fork", "vfork", "readlink", "arch_prctl", "epoll_create", "epoll_wait",
               "getpgrp", "time"},
   aarch64 |-> {"fstat"}]

KNOWN_PROFILES == {"inspect"}
LocalFamilies == {"AF_UNIX", "AF_NETLINK"}
socket_rules(family) == family \in LocalFamilies
(* rules_for and the compiled filter: may this call be made? *)
permits(arch, call) ==
  \/ call.number \in common_allow \union arch_extra_allow[arch]
  \/ call.number = "socket" /\ socket_rules(call.arg0)

-----------------------------------------------------------------------------
(* CapabilitySet::resolve: every name must be one the kernel has. *)
resolvable(declared) == \A raw \in declared : to_canonical[raw] \in KnownCap
resolve(declared) == {to_canonical[raw] : raw \in declared}

(* SandboxPolicy::plan: the first failing check wins.  An Option is a      *)
(* sequence of at most one element.                                        *)
SandboxError == <<"UnknownProfile", "UnknownCapability", "InvalidLimit", "InvalidProfile">>
plan(policy) ==
  LET cpu == [i \in DOMAIN policy.cpu_max |-> parse_cpu(policy.cpu_max[i])]
      memory == [i \in DOMAIN policy.memory_max |-> parse_memory(policy.memory_max[i])]
      failed == << policy.syscall_profile \notin KNOWN_PROFILES,
                   ~resolvable(policy.capabilities),
                   <<Refused>> \in {cpu, memory},
                   \E p \in Range(policy.paths_ro \o policy.paths_rw) : ~validate_path(p) >>
      failing == {i \in DOMAIN failed : failed[i]}
  IN  IF failing # {} THEN [error |-> SandboxError[Min(failing)]]
      ELSE [error |-> "none", cpu_max |-> cpu, memory_max |-> memory,
            capabilities |-> resolve(policy.capabilities),
            net |-> policy.network # "Egress"]
=============================================================================
