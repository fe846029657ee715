------------------------------- MODULE OcallErrno -------------------------------
(***************************************************************************)
(* The ocalls that pass one call on to libc: src/sgx-urts/src/fd.rs,       *)
(* file.rs, socket.rs, asyncio.rs, pipe.rs, mem.rs, sys.rs, env.rs,        *)
(* time.rs, net.rs and thread.rs.  Each calls libc, decides from the       *)
(* result whether errno means anything, and only then reads errno, which   *)
(* belongs to the thread and may have changed in between: the handlers of  *)
(* signal.rs run on the same thread and let the enclave make ocalls.       *)
(*                                                                         *)
(* One thread is modelled, since errno and the cells an ocall writes are   *)
(* its own.  What is read, written or looked up is left out.               *)
(***************************************************************************)
EXTENDS Integers, Sequences, SequencesExt

CONSTANTS
  Errno,         \* values libc gives errno
  Einval,        \* the one u_recvmsg_ocall reports by itself
  InHandler,     \* ocalls the enclave makes while it handles a signal
  MaxDepth,      \* bound on nested frames
  Buf, BufLen    \* the buffer of u_getpwuid_r_ocall

ASSUME ErrnoAssumption ==
  /\ Errno \subseteq Nat \ {0}
  /\ Einval \in Errno
  /\ Buf \in Nat \ {0} /\ BufLen \in Nat

--------------------------------------------------------------------------------
\* The ocalls, file by file.
ReadOcalls == {"u_read_ocall", "u_pread64_ocall", "u_readv_ocall", "u_preadv64_ocall"}
WriteOcalls == {"u_write_ocall", "u_pwrite64_ocall", "u_writev_ocall", "u_pwritev64_ocall"}
CopyOcalls == {"u_sendfile_ocall", "u_copy_file_range_ocall", "u_splice_ocall"}
ControlOcalls ==
  {"u_fcntl_arg0_ocall", "u_fcntl_arg1_ocall", "u_ioctl_arg0_ocall", "u_ioctl_arg1_ocall", "u_close_ocall"}
DescriptorOcalls == {"u_isatty_ocall", "u_dup_ocall", "u_eventfd_ocall", "u_futimens_ocall"}
OpenOcalls == {"u_open_ocall", "u_open64_ocall", "u_openat_ocall"}
StatOcalls ==
  {"u_fstat_ocall", "u_fstat64_ocall", "u_stat_ocall", "u_stat64_ocall", "u_lstat_ocall", "u_lstat64_ocall"}
OffsetOcalls ==
  {"u_lseek_ocall", "u_lseek64_ocall", "u_ftruncate_ocall", "u_ftruncate64_ocall",
   "u_truncate_ocall", "u_truncate64_ocall"}
SyncOcalls == {"u_fsync_ocall", "u_fdatasync_ocall", "u_fchmod_ocall"}
NameOcalls ==
  {"u_unlink_ocall", "u_link_ocall", "u_unlinkat_ocall", "u_linkat_ocall", "u_rename_ocall",
   "u_chmod_ocall", "u_readlink_ocall", "u_symlink_ocall"}
PathOcalls == {"u_realpath_ocall", "u_fdopendir_ocall", "u_opendir_ocall"}
DirOcalls == {"u_mkdir_ocall", "u_rmdir_ocall", "u_closedir_ocall", "u_dirfd_ocall", "u_fstatat64_ocall"}
SocketOcalls ==
  {"u_socket_ocall", "u_socketpair_ocall", "u_bind_ocall", "u_listen_ocall", "u_accept_ocall",
   "u_accept4_ocall", "u_connect_ocall"}
RecvOcalls == {"u_recv_ocall", "u_recvfrom_ocall", "u_recvmsg_ocall"}
SendOcalls == {"u_send_ocall", "u_sendto_ocall", "u_sendmsg_ocall"}
SockoptOcalls ==
  {"u_getsockopt_ocall", "u_setsockopt_ocall", "u_getsockname_ocall", "u_getpeername_ocall",
   "u_shutdown_ocall"}
PollOcalls == {"u_poll_ocall", "u_epoll_create1_ocall", "u_epoll_ctl_ocall", "u_epoll_wait_ocall"}
PipeOcalls == {"u_pipe_ocall", "u_pipe2_ocall"}
MapOcalls == {"u_munmap_ocall", "u_msync_ocall", "u_mprotect_ocall"}
SysOcalls ==
  {"u_sysconf_ocall", "u_prctl_ocall", "u_sched_setaffinity_ocall", "u_sched_getaffinity_ocall"}
EnvOcalls == {"u_setenv_ocall", "u_unsetenv_ocall", "u_chdir_ocall"}
ThreadOcalls == {"u_sched_yield_ocall", "u_nanosleep_ocall"}
ClockOcalls == {"u_clock_gettime_ocall"}

\* What they take for failure: null or zero, MAP_FAILED, EAI_SYSTEM, nothing (the
\* result is the error), or, for all others, whatever is negative.
NullOrZeroOcalls == PathOcalls \cup {"u_isatty_ocall", "u_malloc_ocall", "u_getcwd_ocall"}
MinusOneOcalls == {"u_mmap_ocall"}
SystemOcalls == {"u_getaddrinfo_ocall"}
CodedOcalls == {"u_readdir64_r_ocall", "u_getpwuid_r_ocall"}
NegativeOcalls ==
  UNION {ReadOcalls, WriteOcalls, CopyOcalls, ControlOcalls, DescriptorOcalls, OpenOcalls,
         StatOcalls, OffsetOcalls, SyncOcalls, NameOcalls, DirOcalls, SocketOcalls, RecvOcalls,
         SendOcalls, SockoptOcalls, PollOcalls, PipeOcalls, MapOcalls, SysOcalls, EnvOcalls,
         ThreadOcalls, ClockOcalls}

Ocall == UNION {NegativeOcalls, NullOrZeroOcalls, MinusOneOcalls, SystemOcalls, CodedOcalls}

EAI_SYSTEM == -11

\* Whether an ocall reads errno after libc returned ret.
ReadsErrno(ocall, ret) ==
  CASE ocall \in NullOrZeroOcalls -> ret = 0
    [] ocall \in MinusOneOcalls   -> ret = -1
    [] ocall \in SystemOcalls     -> ret = EAI_SYSTEM
    [] ocall \in CodedOcalls      -> FALSE
    [] OTHER                      -> ret < 0

--------------------------------------------------------------------------------
\* What libc may answer, as its manual has it: a result, and whether it is a
\* success, a failure explained by errno, a failure the result itself explains,
\* or an answer that only looks like a failure.
Answer == {"success", "errno", "coded", "negative"}

LibcFails ==
  [null    |-> {"u_realpath_ocall", "u_fdopendir_ocall", "u_opendir_ocall", "u_malloc_ocall",
                "u_getcwd_ocall", "u_isatty_ocall"},
   coded   |-> {"u_readdir64_r_ocall", "u_getpwuid_r_ocall"},
   resolve |-> {"u_getaddrinfo_ocall"},
   limits  |-> {"u_sysconf_ocall", "u_fcntl_arg0_ocall"}]

LibcAnswers(ocall) ==
  CASE ocall \in LibcFails.null    -> {<<1, "success">>, <<0, "errno">>}
    [] ocall \in LibcFails.coded   -> {<<0, "success">>, <<1, "coded">>}
    [] ocall \in LibcFails.resolve -> {<<0, "success">>, <<-2, "coded">>, <<EAI_SYSTEM, "errno">>}
    [] ocall \in LibcFails.limits  -> {<<0, "success">>, <<1, "success">>, <<-1, "errno">>, <<-1, "negative">>}
    [] OTHER                       -> {<<0, "success">>, <<1, "success">>, <<-1, "errno">>}

VARIABLES
  stack,   \* calls in progress on the thread, the running one last
  errno,   \* errno of the thread
  report,  \* what the last ocall that is over reported, with what libc had said
  passwd   \* the pointers u_getpwuid_r_ocall left in the entry it found

vars == <<stack, errno, report, passwd>>

Field == {"pw_name", "pw_passwd", "pw_gecos", "pw_dir", "pw_shell"}

\* usize::MAX, and the entry that is not there.
MaxUsize == -1
NoEntry == [f \in {} |-> 0]
NoReport == [ocall |-> "none", answer |-> "success", error |-> 0, own |-> 0, during |-> {}]

OcallFrame ==
  [pc : {"entered", "called"}, ocall : Ocall, ret : {EAI_SYSTEM, -2, -1, 0, 1}, answer : Answer,
   own : Errno \cup {0}, during : SUBSET Errno]
HandlerFrame == [pc : {"ecall"}]

TypeOK ==
  /\ stack \in Seq(OcallFrame \cup HandlerFrame)
  /\ errno \in Errno \cup {0}
  /\ report \in [ocall : Ocall \cup {"none"}, answer : Answer, error : Errno \cup {0},
                 own : Errno \cup {0}, during : SUBSET Errno]
  /\ passwd = NoEntry \/ passwd \in [Field -> [was : Nat, is : Nat \cup {MaxUsize}]]

Init ==
  /\ stack = << >>
  /\ errno = 0
  /\ report = NoReport
  /\ passwd = NoEntry

--------------------------------------------------------------------------------
Push(frame) == Len(stack) < MaxDepth /\ stack' = Append(stack, frame)
Top(pc) == stack # << >> /\ Last(stack).pc = pc

\* The enclave makes an ocall, from its own code or while it handles a signal.
Enter(ocall) ==
  /\ stack = << >> \/ (Top("ecall") /\ ocall \in InHandler)
  /\ Push([pc |-> "entered", ocall |-> ocall, ret |-> 0, answer |-> "success", own |-> 0, during |-> {}])
  /\ report' = NoReport
  /\ passwd' = NoEntry
  /\ UNCHANGED errno

\* u_recvmsg_ocall with a null out-pointer: no call of libc, errno stays.
u_recvmsg_ocall ==
  /\ Top("entered") /\ Last(stack).ocall = "u_recvmsg_ocall"
  /\ stack' = Front(stack)
  /\ report' = [NoReport EXCEPT !.ocall = "u_recvmsg_ocall", !.answer = "errno", !.error = Einval, !.own = Einval]
  /\ UNCHANGED <<errno, passwd>>

\* Frames of ocalls that have their result and not yet read errno: they are
\* below a handler that may change it.
Overwrite(s, e) ==
  [i \in DOMAIN s |-> IF s[i].pc = "called" THEN [s[i] EXCEPT !.during = @ \cup {e}] ELSE s[i]]

\* libc runs.  It changes errno only when errno explains a failure.
Libc ==
  /\ Top("entered")
  /\ \E answer \in LibcAnswers(Last(stack).ocall), e \in Errno :
       LET fails == answer[2] = "errno"
           below == Front(stack)
       IN /\ errno' = IF fails THEN e ELSE errno
          /\ stack' = Append(IF fails THEN Overwrite(below, e) ELSE below,
                             [Last(stack) EXCEPT !.pc = "called", !.ret = answer[1], !.answer = answer[2],
                                                 !.own = IF fails THEN e ELSE 0])
  /\ UNCHANGED <<report, passwd>>

--------------------------------------------------------------------------------
\* Mutant: the address itself goes out.
Relative_raw(address) == IF address = 0 THEN MaxUsize ELSE address

\* A string of the entry by its place in the buffer; usize::MAX if it has none.
Relative(address) ==
  IF address = 0 \/ address < Buf THEN MaxUsize ELSE address - Buf

\* Where libc may put a string: nowhere or in the buffer, if it has room, at either end;
\* below the buffer is what checked_sub is there for.
Address == {0, Buf - 1} \cup ({Buf, Buf + BufLen - 1} \cap Buf .. Buf + BufLen - 1)

\* u_getpwuid_r_ocall rewrites the pointers of an entry that was found.
Entry(frame) ==
  IF frame.ocall = "u_getpwuid_r_ocall" /\ frame.ret = 0
  THEN {NoEntry} \cup {[f \in Field |-> [was |-> at[f], is |-> Relative(at[f])]] : at \in [Field -> Address]}
  ELSE {NoEntry}

\* Mutant: errno is reported without a look at the result.
Return_always ==
  LET frame == Last(stack)
  IN /\ Top("called")
     /\ stack' = Front(stack)
     /\ report' = [ocall |-> frame.ocall, answer |-> frame.answer, error |-> errno,
                   own |-> frame.own, during |-> frame.during]
     /\ passwd' \in Entry(frame)
     /\ UNCHANGED errno

\* The rest of the ocall: errno is read if the result calls for it, and goes to
\* the cell the enclave gave (that it may give none is left out).
Return ==
  LET frame == Last(stack)
  IN /\ Top("called")
     /\ stack' = Front(stack)
     /\ report' = [ocall |-> frame.ocall, answer |-> frame.answer,
                   error |-> IF ReadsErrno(frame.ocall, frame.ret) THEN errno ELSE 0,
                   own |-> frame.own, during |-> frame.during]
     /\ passwd' \in Entry(frame)
     /\ UNCHANGED errno

\* A signal: handle_signal_entry saves nothing and enters the enclave.
Interrupt ==
  /\ stack # << >> /\ ~Top("ecall")
  /\ Push([pc |-> "ecall"])
  /\ UNCHANGED <<errno, report, passwd>>

\* t_signal_handler_ecall is over.
HandlerReturns ==
  /\ Top("ecall")
  /\ stack' = Front(stack)
  /\ report' = NoReport
  /\ passwd' = NoEntry
  /\ UNCHANGED errno

Next ==
  \/ \E ocall \in Ocall : Enter(ocall)
  \/ u_recvmsg_ocall
  \/ Libc
  \/ Return
  \/ Interrupt
  \/ HandlerReturns

Spec == Init /\ [][Next]_vars

--------------------------------------------------------------------------------
\* An ocall reports 0 when libc succeeded or explains itself, whatever was left in
\* errno before; otherwise the errno of its own call, unless a handler came after
\* it and made a call that failed.  (An answer that looks like a failure, -1 of
\* sysconf for no limit, is reported with whatever errno was: nothing is said of it.)
ErrnoIsOfTheCall ==
  /\ report.answer \in {"success", "coded"} => report.error = 0
  /\ report.answer = "errno" => report.error \in {report.own} \cup report.during

\* No address of the host goes to the enclave: each string of an entry is where it
\* was, counted from the start of the buffer, or usize::MAX.
PasswdIsRelative ==
  \A f \in DOMAIN passwd :
    LET string == passwd[f]
    IN IF string.was \in Buf .. Buf + BufLen - 1
       THEN string.is \in 0 .. BufLen - 1 /\ Buf + string.is = string.was
       ELSE string.is = MaxUsize
================================================================================
