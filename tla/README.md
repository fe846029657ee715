# sgx-sdk-rs in TLA+

This directory specifies and checks the parts of sgx-sdk-rs (the Rust SDK for
Intel SGX enclaves, `src/`) that keep state and that concurrency, failure or
arithmetic can break. Modules are plain TLA+, checked with TLC and, where a
theorem is stated, proved with TLAPS.

## The system

An SGX application has two halves. The *untrusted* half (crate `sgx-urts`)
creates enclaves through Intel's runtime and serves their *ocalls*. The
*trusted* half (`sgx-trts`, `sgx-alloc`, `sgx-tcrypto`, `sgx-tse`, `sgx-tseal`)
runs inside the enclave and is mostly a safe surface over Intel's trusted
libraries. `sgx-types` declares the C interface of both; `sgx-build` and
`cargo-sgx` create and build enclave projects.

| Component | State it keeps | Operations | What is hard | What makes it correct |
|---|---|---|---|---|
| event service, `sgx-urts/src/event.rs` | a global cache from TCS pointer to `SeEvent`; per event a `Mutex<i32>` and a condition variable | set one or many events, wait with or without a timeout, set-then-wait | wake-ups before, during and after the park; spurious returns; timers; two first lookups at once | one event per TCS, no wake-up lost, a timeout leaves no debt; it behaves as permits |
| signal dispatcher, `sgx-urts/src/signal.rs` | map from signal to enclave under a mutex; process dispositions and thread masks in the kernel | register, clear, change a mask, raise, handle a signal | the handler runs on the thread it interrupts, at any instruction, and takes the same mutex | a registration is not interrupted, no thread waits for itself, an installed handler has an enclave unless a clear overtook its registration |
| enclave handles, `sgx-urts/src/enclave.rs` | the id in each handle; the native runtime's table of enclaves | create, initialise, clone, enter, exit, destroy | cloned handles, ignored results, threads still inside, drops from an ocall | no enclave without a handle, ecalls after the init (done or refused) and before the exit, a drop destroys |
| other ocalls (`fd`, `file`, `socket`, `asyncio`, `mem`, `sys`, `env`, `time`, `net`, `process`, `thread`) | none of their own; `errno` of the thread | one libc call each | which results carry an errno | an error is reported exactly when the call failed, and it is that of the call |
| aligned allocation, `sgx-alloc/src/alignalloc.rs`, `alignbox.rs` | a header word below each block | alloc, alloc with requests, dealloc | 64-bit rotations of a byte map; arithmetic with the header | protected bytes at safe offsets of a cache line, pointer aligned, free gets what malloc gave |
| sealing, `sgx-tseal` | a sealed object in the enclave, its raw form in a buffer that may be outside | seal, unseal, MAC only, to raw, from raw | `u32` lengths with `MAX` as error; a host that writes while the enclave reads | only what was sealed opens, copies stay in the buffer, what is sealed comes back |
| cryptography, `sgx-tcrypto/src/crypto.rs` | native handle and `initflag` per object | init, update, final, close; key create and free | any order of calls; failure between two native calls | no use of a closed handle, none leaked |
| exception and AEX handlers, `sgx-trts/src/veh.rs`, `aex.rs` | list of registered nodes | register, unregister | removal by function, release by node | no released node stays linked |
| layout, memory management, oom hook, `sgx-trts` | the layout table, the hook | counts of TCS pages, abort | nested groups of the table; an ecall that never returns | the counts are those of the pages loaded |
| project tools, `sgx-build`, `cargo-sgx` | the files of a project, the products of earlier builds | new, build | a step fails or is killed in the middle; products of another profile or mode | new leaves a whole project, build links what the sources say |
| `sgx-tse`, `sgx-types`, `sgx-ert`, byte helpers of `sgx-trts` | none | wrappers and declarations | - | - |

How they interact: an enclave thread in an ecall makes an ocall; the host
function runs on the same host thread. The event service is used by the mutexes
and condition variables of the trusted half, so its correctness is that of every
lock in an enclave. A signal interrupts a host thread anywhere, also inside an
ocall, and its handler makes an ecall, from which the enclave may make further
ocalls: `OcallErrno` takes the same frames as `SignalDispatch` for what they do to
`errno`. `EnclaveLifecycle` runs around all of them: threads are inside, or in
ocalls, while a handle is dropped; `AexHandlers` and `TcsLayout` are the parts of an
enclave whose state it creates and destroys. `SealedData` calls the cipher through
the checks of `CryptoCalls`.

## Modules

| Module | Models | Role |
|---|---|---|
| `ParkPermits` | what the event service promises: each TCS owns permits, a wake-up posts one, a wait takes one or times out | abstract specification |
| `TcsEvent` | `event.rs` as it is: cache, counters, parks, timers, errno | detailed specification |
| `TcsEventProofs` | theorems about `TcsEvent` | proofs |
| `MCTcsEvent` | two or three threads, symmetric heap objects, a one-sleeper restriction for liveness | model for TLC |
| `SignalDispatch` | `signal.rs` with the kernel's masks, dispositions and handler frames | specification |
| `SignalDispatchProofs` | theorems about `SignalDispatch` | proofs |
| `MCSignalDispatch` | values of `sa_mask`; a restriction to registering threads | model for TLC |
| `AlignAlloc` | `alignalloc.rs`: padding, alignment, the header word and the release | specification |
| `OwnedBlocks` | what a program that has boxes sees of them: a box has terms and a block of its own, which is given back when it is dropped | abstract specification |
| `AlignAllocProofs` | theorems about `AlignAlloc`, that it implements `OwnedBlocks`, lemmas about its padding and alignment operators | proofs |
| `MCAlignAlloc` | layouts, requests and addresses | model for TLC |
| `CryptoHandle` | the nine stateful types of `crypto.rs` and the native contexts they hold | specification |
| `ContextOwners` | what the objects promise of the native contexts: each is owned by one object until it is given back, or left when a refused drop ends its owner | abstract specification |
| `CryptoHandleProofs` | theorems about `CryptoHandle`, that it implements `ContextOwners` | proofs |
| `MCCryptoHandle` | two objects, three contexts, key sizes | model for TLC |
| `OcallErrno`, `MCOcallErrno` | the ocalls that pass one call on to libc: which results are failures, and when `errno` is read | specification, model for TLC |
| `OcallErrnoProofs` | theorems about `OcallErrno` | proofs |
| `EnclaveLifecycle`, `MCEnclaveLifecycle` | `enclave.rs` of urts: handles, ecalls, exit and destruction, composed with the next two | specification, model for TLC |
| `EnclaveLifecycleProofs` | lemmas about `AexHandlers` and `TcsLayout`, theorems about `EnclaveLifecycle` | proofs |
| `AexHandlers` | `aex.rs`: the lists of exit handlers, as operators on the state of one enclave | part of `EnclaveLifecycle` |
| `TcsLayout` | the layout table and `rsgx_get_tcs_num`, as recursive functions | part of `EnclaveLifecycle` |
| `CryptoCalls` | the argument checks and length casts of the calls in `crypto.rs` that take messages | pure operators, part of `SealedData` |
| `SealedData`, `MCSealedData` | `sgx-tseal`: sealing, the raw form, opening, and a host that shares the buffer | specification, model for TLC |
| `SealedDataProofs` | theorems about `SealedData` | proofs |
| `SgxProject`, `MCSgxProject` | `cargo sgx new`, `cargo sgx build` and the build script | specification, model for TLC |
| `SgxProjectProofs` | theorems about `SgxProject` | proofs |

Operators that begin with the name of another one and are marked *Mutant* are
plausible wrong versions of it. They are not part of the specification: each
shows that some property would notice that mistake.

### TcsEvent

| Code | Specification |
|---|---|
| `GLOBAL_TCS_CACHE`, `SgxTcsInfo` | `cache`, a set of records `[tcs, event]` |
| `SeEvent.event` (`Mutex<i32>`) | `value[e]` |
| stack of an ocall | `pc`, `toWake`, `kind`, `event`, `due` per thread |
| `*error` | `result[t]` |
| `u_thread_set_event_ocall`, `..._wait_event_ocall`, `..._set_multiple_events_ocall`, `..._setwait_events_ocall` | actions of the same name, the null list apart in `set_multiple_null` |
| `get_tcs_event` under the cache mutex | `FindToWake`, `FindToWait` with `get_event` |
| `SeEvent::wake` under the event's mutex | `Wake` |
| `SeEvent::wait`, `wait_timeout` | `BadTimeout`, `Enter`, then parks and `Recheck`s |
| `Condvar::wait*` returning without a notification | `Unpark`; the elapsed time is `Deadline` |

A step is one critical section. `notify_one` is called with the mutex held, so
the notification is part of `Wake`; the woken thread has to take the mutex again,
which is `Recheck`. `ocall`s pass the TCS of their own thread as the waiter, and a
TCS has one thread at a time: that is `OwnerAssumption`. Null pointers inside a
list are not checked by the code and are ordinary keys of the cache here too.

`ParkPermits` says what a user of the service relies on. The mapping: the permits
of a TCS are its counter, plus the one its owner took in advance if the owner is
counted; waiting threads are those between the lookup and the return.

### SignalDispatch

| Code | Specification |
|---|---|
| `signal_set` and its mutex | `signal_set`, `holder` |
| kernel dispositions, `sa_mask`s, thread masks | `disposition`, `sa_mask`, `mask` |
| call stack of a thread | `stack[t]`, a sequence of frames; only the last runs |
| `u_sigaction_ocall`, `u_signal_clear_ocall`, `u_sigprocmask_ocall` | actions of the same name |
| `register_signal` | `Block`, `Lock`, `Insert`, `Unblock`; then `Install` is the call of `sigaction` |
| `deregister_all_signals_for_eid` | `Block`, `Lock`, `Retain`, `Unblock` |
| `handle_signal_entry`, `handle_signal` | `handle_signal_entry` (arrival), `Lock`, `get_eid_for_signal`, `EcallReturns` |

The restored mask is the empty set, as in the code: `sigprocmask` writes the old mask
through `&mut oldmask.raw()`, a copy, and `oldmask` keeps the value it was created with.
`Unblock` therefore unblocks everything, before `sigaction` is called. Every ocall may be
made from the ecall of a handler (`MayOcall`), also a clear by a handler that interrupted a
registration there. Such a clear, or one of another thread, takes the entry away, and
`sigaction` then installs the handler of a signal nobody owns. `overtaken`, which is not of
the code, holds the signals this happened to: `EntryHasOwner` excepts them, and so says that
there is no other way. Left out: the errno values, the flags `SA_NODEFER` and
`SA_RESETHAND`, the enclave's own list of handlers.

### AlignAlloc

| Code | Specification |
|---|---|
| the 64-bit map of `make_bitmap`, `rol`, `ror`, `gen_alignmask`, `count_lzb` | sets of bit positions `0 .. 63` |
| `pad_align_to`, `padding_needed_for`, `align_needed_for` | operators of the same names (`calc_algn` for the alignment) |
| `AlignBox` (`ptr`, `align_layout`, `origin_layout`) | `box[b]`, with the requests it serves as a ghost |
| the word at `ptr.sub(1)` | `header[b]` |
| malloc and free | `heap`, any free 16-byte aligned place |
| `new*`, `clone`, `clone_from`, `deref_mut` and `heap_init*`, `drop` | actions of the same names |

Writes are regions: whenever a box is placed or written, every other box whose
word or contents the region touches is marked. With a padding below 8 the word
`ptr.sub(1)` lies below the block it describes (three bytes to protect get a
padding of 1). The model shows what can be said of that: the word still
reaches no other box and no other box reaches it, because a block always ends
with at least 16 unused bytes. What malloc itself keeps between blocks is not
modelled. `PointerAligned` needs a size that is a multiple of the alignment: a
layout with a larger one (`new_with_req(16, ..)` of a 4-byte type whose first
byte is not protected) gets a pointer aligned to 8 only.

`OwnedBlocks` is what is left of this for a program that has boxes: no padding, no
address computed from another, one block for each box. The mapping: the block of a box is the
one its word names, because that is what it will release; its terms are all there is
to the box but its pointer, or `Lost` once another box has written over it; the
blocks in use are those of the heap. That no step loses anything is then part of
what implementing it means.

### CryptoHandle

`SgxShaHandle`, `SgxSha384Handle`, `SgxSha1Handle`, `SgxCmacHandle`,
`SgxHmacHandle`, `SgxAesHandle`, `SgxEccHandle`, `SgxRsaPrivKey` and
`SgxRsaPubKey` have the same skeleton; one module covers them, with `kind[h]` as
the type of the object in variable `h`.

| Code | Specification |
|---|---|
| `handle` or `key` (a pointer in a `RefCell`) | `handle[h]` |
| `initflag` or `createflag` | `initflag[h]` |
| `mod_size`, `exp_size` of an RSA key | `size[h]`, one number for both |
| what the native library has allocated | `ctx[c]`, with what it was made for |
| `init`, `open`, `create*` | `init` (hashes), `init_keyed` (CMAC, HMAC, AES), `open`, `create`, all by `Open` |
| what a type is: its opening call and its operations | `SgxShaHandle`, .. `SgxRsaPubKey`, in `TypeOf` |
| `update*`, `get_hash`, `get_mac`, `decrypt_sha256`, ECC operations | `use(h, op)` |
| `close`, `free` | `close` with `Closed` |
| `Drop` | `drop` |

The library may refuse every call. Then `init` and `close` change nothing and are
no step; in `drop` the object is gone all the same, and `refused` remembers the
context. `Native` records in `misused` every context that is handed to a native
call it does not fit. Objects are not `Sync` (`Cell`, `RefCell`), so each call is
one step. What a digest contains, and what becomes of it when an update fails in
the middle, is not modelled.

`ContextOwners` says what this comes to: contexts come to an object that has none and
go back from the one they came to, and only an object that ends leaves one behind.
The mapping: an object owns the context in its handle if its flag is set; the
contexts there are, and what each was made for, are those of the library.

### OcallErrno

| Code | Specification |
|---|---|
| the ocalls of a file that report an errno | the sets `ReadOcalls` .. `ThreadOcalls`, named for what they do |
| `if ret < 0`, `is_null()`, `== MAP_FAILED`, `== EAI_SYSTEM`, no test | `ReadsErrno`, by membership in `NullOrZeroOcalls`, `MinusOneOcalls`, `SystemOcalls`, `CodedOcalls` |
| the libc call, then `Error::last_os_error()` | `Libc`, then `Return`: two steps, with signals in between |
| the early return of `u_recvmsg_ocall` | `u_recvmsg_ocall` |
| the pointer arithmetic of `u_getpwuid_r_ocall` | `Entry`, `Relative` |
| a signal, and what its handler calls | `Interrupt`, `Enter` above it, `HandlerReturns` |

What the test of an ocall should be is not taken from the code but from libc
(`LibcFails`, `LibcAnswers`), so an ocall with the wrong test is found. libc leaves
`errno` alone when it succeeds; the model relies on nothing else. Two answers only
look like failures, -1 of `sysconf` ("no limit") and of `fcntl`: they are reported
with whatever `errno` was. A handler that interrupts an ocall between its call and
its read, and makes a failing ocall itself, replaces the error that is reported;
`ErrnoIsOfTheCall` says that this is the only way it can be another's.

### EnclaveLifecycle, AexHandlers, TcsLayout

| Code | Specification |
|---|---|
| `SgxEnclave.id` | `handle[h]`, `NoHandle` where there is no value, 0 for `default()` |
| the native runtime | `enclave[id]`, and `MayEnter`, `MayBeRefused` for what it does with an ecall |
| `create*` | `create` (native call), `init` and `create_returns` around `t_global_init_ecall`, or `init_refused`; each ends in `HandleReturned` |
| `clone`, `default` | actions of the same names |
| `drop`, and `destroy`, which is one | `drop`, `exit` or `exit_refused`, `exit_returns`, `rsgx_destroy_enclave`, `destroyed` |
| an ecall of the host, with ocalls above it | `ecall`, `ecall_returns`; host code runs where `Host(t)` |
| `rsgx_oom`, `rsgx_abort` | `rsgx_abort`: the enclave is `crashed` |
| `SGX_ERROR_ENCLAVE_LOST` | `enclave_lost`: a power transition takes all enclaves that are loaded, at any moment |
| `rsgx_register_aex_handler`, `rsgx_unregister_aex_handler` | operators of the same names, in `register_aex`, `unregister_aex` |
| `rsgx_get_tcs_num`, `traversal_layout`, `SgxGlobalData::new` | operators of the same names |

Built with `global_init` and `global_exit`. The host may use an `SgxEnclave` as
Rust lets it: an ecall borrows the handle, so that handle is neither moved nor
dropped while it runs; a clone may be. The runtime's part is external: ids are not
reused, a thread inside re-enters through the TCS it has, an enclave that crashed
refuses ecalls, and destroying takes the enclave out of use at once and then waits
until no thread is inside. A thread that was inside a lost enclave comes back with the
error; here that is a call that returns, and it may go on before it does.

The code drops the result of `t_global_init_ecall` (`enclave.rs:719`), so `create` returns
the handle when that ecall was refused: no memory for the copy of the path, no TCS, the
enclave lost. `globals` is then `refused`; the host makes ecalls all the same, and `drop`
runs the exit ecall. The ecall has no result of its own, so one that comes back has
initialised. `GlobalsFollowLife` says that a refusal is the only way to an ecall before the
init, `GlobalsGoForward` that a refused init is not tried again. Three things the code
allows and the properties therefore except: dropping one of two clones ends what the other
uses (`cloned`); a thread that destroys an enclave from within one of its ocalls waits for
itself (`DropDestroys`); and a function registered twice on a thread and unregistered
through the older handle unlinks the newer node and frees the older, which is still linked
(`twice`).

`TcsCounted` compares the recursive count with the number of pages got by unrolling
the groups of the table, which is what the loader does.

### SealedData, CryptoCalls

| Code | Specification |
|---|---|
| `SgxInternalSealedData` | `object` |
| the `sgx_sealed_data_t` and the bytes behind it | `raw` |
| additional text that is outside the enclave | `outer` |
| `seal_data*` of both views, `mac_aadata*` of both views | `seal_data`, `mac_aadata` (checks), then `seal_key`, `seal_encrypt`, `seal_copy`, or `seal_fails` |
| `to_raw_sealed_data_t` | one action: nothing is read back |
| `from_raw_sealed_data_t` | `from_raw_sealed_data_t`, `read_additional_len`, `read_encrypt_len`, `check_payload`, `copy_encrypt`, `copy_additional`, `read_fields`: one step for each read of the buffer |
| `unseal_data`, `unmac_aadata`, `unseal_data_helper` | operators of the same names |
| `T` and `[T]` | `Views`: which lengths they seal, how many elements they make of bytes |
| one-shot functions of `crypto.rs` | operators of `CryptoCalls`, a record for each call with what the library is told |

The host writes the buffer between any two steps, field by field, or puts a whole
former object back. The cipher is ideal (`Encrypted`, `Opens`); the length functions
of Intel's library are external. Sums have the width of `MaxU32`, which is 7 in the
run, with a header of 4, so that every check of a length has arguments on both sides
of it and sums that wrap. What the code allows and the properties except:
additional text outside the enclave is read by the cipher and again by the copy,
so if the host writes it in between, sealing returns `Ok` with an object that does
not open (`whole` in `SealedOpens`); the HMAC functions check for `u32` and pass
`i32`; and the sizes of an RSA key are not compared with the length of its
components (`LibraryToldTruth`). Wiping of keys is left out.

### SgxProject

| Code | Specification |
|---|---|
| the ten files | `project`, each `absent`, `partial`, `own` or what was asked for |
| `run_sgx_new` and the `create_*` functions | `run_sgx_new`, then `create_file` and `file_written` for each, or `file_fails` |
| `run_sgx_build` | `run_sgx_build` (checks), `cargo_build`, `cargo_fails` |
| `SgxBuilder::build_enclave` in the build script | `edl_generate`, `compile_edl`, with `print_common_env_rerun` as what cargo compares |
| `create_enclave_so`, `build_enclave_so` | actions of the same names, `create_version_script` in between |
| `get_edl_target_dir`, one in the script and another in the command | `script_edl_target_dir`, `get_edl_target_dir` |
| cargo, rustc, `ar` | `script_noted`, `compile_lib`, `archive_lost`: external |

Every step may fail, or the command be killed there. cargo forgets the last run of a
script before it runs it again (in `cargo_build`) and notes the new one when it has
succeeded (`script_noted`), so a build killed after `compile_edl` has a new object and no
run. `SoIsFresh` is about a build
started in the enclave's directory with no `CARGO_TARGET_DIR`: elsewhere the
command links an object from the directory it is started in (`main.rs:20`) and,
with `CARGO_TARGET_DIR`, a library from an older build below the enclave
(`main.rs:214`). Debug and release put the EDL object in one directory, so after a
build of the other profile with other settings it may have the other's flags; the
property says what holds: the object is of the current interface, and of the current
flags unless the other profile compiled it last. Without `--force` a file that an
earlier command left partial is kept; `NewCompletes` promises whole files only
where none was, or with `--force`.

## Runs

| Run | Instance | Shows |
|---|---|---|
| `event_safety` | `MCTcsEventSafety.cfg`: 2 threads, 3 heap objects, `MaxPermits` 1, lists of up to `MaxBatch` 2 | one event per TCS, events in use are current, no lost wake-up, no orphan debt; and that `TcsEvent` implements `ParkPermits` |
| `event_live` | `MCTcsEventLive.cfg`: 1 sleeper, 2 wakers, `MaxPermits` 3 | a wait that has a permit returns; a timed wait ends |
| `signal_registrar` | `MCSignalRegistrar.cfg`: 1 registering thread, 3 signals of which one cannot be caught, 2 enclaves, empty `sa_mask`, `MaxDepth` 3 frames | registrations are not interrupted; a signal with the host handler has an enclave, unless a clear in a handler overtook the registration below it |
| `signal_full_mask` | `MCSignalFullMask.cfg`: 2 registering threads, 2 signals, full `sa_mask`, `MaxDepth` 2 | no self-deadlock; the mutex is always released; with two registering threads too a handler has an enclave, unless the clear of one overtook the registration of the other |
| `signal_open_mask` | `MCSignalOpenMask.cfg`: 1 thread, 2 signals, empty `sa_mask` | *violation*: the deadlock the code's comment says it avoids |
| `align_boxes` | `MCAlignAlloc.cfg`: 2 boxes, 4 types, alignments 1 to 128, up to `MaxReqs` 2 of 5 requests, 12 addresses | placement, least padding, alignment, separation and ownership; and that `AlignAlloc` implements `OwnedBlocks` |
| `crypto_objects` | `MCCryptoHandle.cfg`: 2 objects of any type, 3 contexts, 2 keys, 3 sizes | no misuse, a truthful flag, no leak but a refused close in `drop`, keys can be freed; and that `CryptoHandle` implements `ContextOwners` |
| `crypto_init_key` | `MCCryptoHandleKey.cfg`: the same | *violation*: a second `init` returns `Ok` and keeps the old key |
| `ocall_errno` | `MCOcallErrno.cfg`: every ocall, 3 values of errno, `MaxDepth` 3, three ocalls in handlers | an error is reported when the call failed, it is that of the call or of a handler, and no pointer of a passwd entry leaves the host |
| `enclave_handles` | `MCEnclaveLifecycle.cfg`: 2 threads, 2 enclaves, 2 handles, 2 layouts, `MaxDepth` 2 calls per thread, 2 nodes for one handler function | no enclave is left behind whatever is refused or lost, ecalls run between the end or refusal of the init and the exit, the global state of an enclave goes forward, handler lists fit their handles, TCS counts fit the pages, every drop destroys |
| `sealing` | `MCSealedData.cfg`: `u32` of 3 bits, texts of up to 2 bytes, 2 seals, 2 writes by the host, element sizes 0 to 2 | only what was sealed opens, copies are in bounds, what was sealed opens, the library is told the truth; no call stops half-way |
| `project_tools` | `MCSgxProject.cfg`: 3 commands, 1 edit, 3 starting directories, 3 environments, 2 profiles | a `new` that succeeds is complete, a build that succeeds is of the current sources |

### Bounds

- *Events.* With two TCSs and the null pointer there are three keys and three
  events, enough for every pair of first lookups to race. A list of two names
  the same TCS twice, two TCSs, or null. `MaxPermits` bounds the counter from
  above (the code's limit is that of `i32`); a wake-up beyond it is not modelled.
  With one permit the counter takes the values -1, 0, 1, which is every side of
  the test in `wake` and in `wait`. The liveness run has 3, so that two wakers
  may be ahead of the sleeper.
- *Signals.* `MaxDepth` bounds the frames of a thread: 3 are an ocall inside a
  handler inside a registration, or three nested handlers. The run for
  deadlocks with two registering threads has 2, which is what a deadlock on one
  mutex takes. Two signals that can be caught are enough for a handler of one to
  interrupt that of the other, the third is for a `sigaction` that fails. A clear that
  overtakes a registration on its own thread takes three frames, on another
  thread one each.
- *Allocation.* The types and requests were chosen so that a padding of zero, one
  below 8, one above 8, a refused list, and a list that fills the line all occur.
  `Heap` has every residue modulo 64 that a 16-byte aligned `malloc` can return.
  `MaxLeaked` caps the counter of bitmaps that are not released.
- *Cryptography.* Two objects are what sharing a context takes, the third context
  leaves room for one whose close was refused. A size of -1 is rejected, 2 and 3 differ.
- *Ocalls.* `MaxDepth` 3 is an ocall, a handler above it, and an ocall of the handler;
  deeper nesting repeats the pair. The passwd buffer is at 100 with 8 bytes, and
  addresses are null, just below it, its first and its last byte.
- *Enclaves.* Two handles and two threads are what clones used and dropped at the
  same time take, the second enclave what nesting one in an ocall of the other takes, and
  `MaxDepth` 2 a drop in an ocall of an ecall.
  One thread registers exit handlers in one enclave, since lists of threads
  are apart. The layouts have a single TCS, so that a second thread is refused,
  and a group that repeats a group, with static, removable and dynamic TCS pages.
- *Sealing.* A buffer has at most 2 bytes of payload besides the header. Two
  seals let the host put the object of one in place of the other's; two writes let it
  change two fields in one reading, or one and back. The host's lengths are 0, 1, 2 and
  the maximum. Slices for `CryptoCalls` have lengths around `MaxI32` and `MaxU32`
  and beyond.
- *Projects.* Three commands are a failed one, one with other settings, and the one
  judged; one edit is enough for stale products, since versions are only compared.

Heap objects, boxes and native contexts are interchangeable: symmetry is used for
them in the runs of safety properties, and in no liveness run. `RoleSpec` and
`RegisterSpec` in the MC modules restrict which thread calls what, and only that.

Deadlock checking is off where the system may stop: all threads may
wait for an event nobody sets, a process ends when an allocation fails, a thread
that waits for itself stops for good, a host has used its enclaves, the commands are
over. `crypto_objects`, `ocall_errno` and `sealing` check it: no object, ocall or
sealing call gets stuck between its steps.

### Fairness

`TcsEvent`: `WF(Run(t))`, because the host schedules every runnable thread;
`WF(Deadline(t))`, because the clock advances; `WF` of `Unpark` once the deadline has
passed, because `wait_timeout` returns then. There is none on `Call` (nobody has to set an
event) and none on spurious returns. The mutex of an event is held within one step, so no
fairness of the mutex is assumed. `SignalDispatch`: `WF(Run(t))` only. Mutexes are not fair,
so nothing says that a thread gets one; `MutexIsReleased` is about the holder. It needs a
bounded number of nested handlers: a thread that a storm of signals interrupts forever
releases nothing. With the full mask no handler runs on top of a holder at all.
`EnclaveLifecycle`: `WF` of the steps of a create or a drop that has begun (a refused init
is one of them), since the thread is scheduled and they call nothing but the runtime; `SF`
of the return of an ecall at each depth, which is a promise of the trusted code (it may make
ocalls that make ecalls, but comes back). Nothing is assumed of the host, which need never
drop a handle, nor of `enclave_lost`, which need never happen. `DropDestroys` excepts the
thread that waits for itself.

### What the violations say

1. `signal_open_mask`. `register_signal` blocks every signal "to avoid deadlock"
   (`signal.rs:133`), because the handler locks the same mutex. `get_eid_for_signal`
   (line 153), which runs in the handler, does not: with a `sa_mask` that leaves
   another registered signal open, that signal may arrive between lock and unlock
   and the thread waits for itself. `signal_full_mask` shows that a full `sa_mask`
   is enough to exclude it.
2. `crypto_init_key`. `init(&key)` of an initialised CMAC, HMAC or AES object
   returns `Ok` without a look at `key` (`crypto.rs:1410`); the documentation
   calls it the key to be used (line 1389).

## Proofs

Eight modules, `*Proofs`, are checked by TLAPS for every value of the constants that
satisfies the assumptions named below. All have one shape: an inductive invariant
with `Init => Inv`, `Inv /\ [Next]_vars => Inv'` by one lemma for each action, and
`Inv => P` for each property `P`. Every invariant of the passing runs is proved,
and so are the three refinements, the action property, and a type invariant for each
module but `SgxProject`; those of `TcsEvent`, `AlignAlloc`, `CryptoHandle` and `OcallErrno` are
proved only, since no run would show more. The bounds of the runs (permits,
depth of handlers, commands, leaked bitmaps) are constants here, and arbitrary.

*TcsEvent.* Proved: `TypeOK`, `OneEventPerTcs`, `EventIsCurrent`, `NoLostWakeup`,
`DebtHasDebtor`, and that `TcsEvent` implements `ParkPermits`. Assumed:
`OwnerAssumption` (threads have different TCSs, none of them null: the SDK binds a
TCS to the thread that entered with it), that bounds are natural numbers, and
that "no event" is not an event. `NoLostWakeup` alone is not inductive: after a
wake-up that brings the counter to 0 the notified thread must be *the* parked
thread, which takes `OneEventPerTcs`, `EventIsCurrent` and the owner assumption;
and that a set at -1 reaches exactly 0 takes the lower bound in `DebtHasDebtor`.
`IInv` is the conjunction of these with the types. The refinement maps each step to
a step of `ParkPermits` or to none; it needs the invariant, since a permit that is
posted is a counter that goes up or a parked thread that is let go, and it needs
that a thread is in the kind of wait it asked for (`KindFits`).

*CryptoHandle.* Proved: `TypeOK`, `NoMisuse`, `FlagMeansContext`, `NothingLeaks`,
`KeyCanBeFreed`, from the assumption that the null pointer is no context and that
sizes are numbers. A native call fits its context because the flag tells the truth
(`FlagMeansContext`) and because the sizes an object remembers are those of its key
(`SizesFit`, not a run's property, part of `IInv`). That a close takes no context from
another object is the second half of `FlagMeansContext`. `CryptoHandle` implements
`ContextOwners`: a refused call is no step, a `close` gives back what the object owns
because a flag that is set names a context nobody else's flag names, and an
`init` of an object whose flag is set takes none.

*SealedData.* Proved: `TypeOK`, `CopyInBounds`, `OpensOnlySealed`, `SealedOpens`,
`LibraryToldTruth`. Assumed: that the widest `u32` is twice the widest `i32` and one,
that the header of a raw object leaves two bytes of the `u32` range, and that texts
are sequences of bytes. What opens depends on what the object holds, and that on five
earlier reads of a buffer the host may write. `IInv` follows them: `Typed` bounds each
length that a call has kept, which is all `CopyInBounds` takes, whatever the
host wrote; `Intact` says that the object, the copy of a seal, the buffer and what has
been read of it are what the library gave a tag to, as long as nobody else wrote them;
`Results` are the properties of the answers. The sum that is compared with the length
of the buffer cannot have wrapped, since a wrapped one is refused as `u32::MAX` before.

*SignalDispatch.* Proved: `TypeOK`, `RegistrationUninterrupted`, `EntryHasOwner`, for any
threads that register, and `NoSelfDeadlock` if every `sa_mask` is full. That hypothesis is
needed: with an open mask `signal_open_mask` finds the deadlock. Assumed: there is a
signal, and the values that stand for "no enclave" and "free mutex" are neither. A
property of a frame that others run on top of is not inductive, because its mask is
not in force then. The invariant says that a frame which must not be interrupted
(`Closed`) has every signal blocked while it is on top, hence never has anything on
top of it, hence is never what a returning handler restores a mask for. For
`EntryHasOwner` the invariant says that a frame which is about to call `sigaction` has its
entry in `signal_set` or is overtaken: only an insertion and a clear write the map, and a
clear marks the registrations it finds pending, on whatever thread and below
whatever handlers.

*EnclaveLifecycle, with AexHandlers and TcsLayout.* Proved: `TypeOK`, `OwnedEnclave`,
`GlobalsFollowLife`, `GlobalsGoForward`, `AexListsSound`, `TcsCounted`. Assumed: ids are
positive, threads are finitely many, layouts are lists of entries and groups, and the groups
are nested (`GroupsNest`): the code panics on others, since the slice of an inner group
would begin before that of the outer one. The invariant has three parts. `Sound`: a create
that is under way has a handle of its own that is still empty, and an ecall borrows a handle
that has its id. `Kept`: an enclave that is there is in a handle or in a call that is not an
ecall, and one that is closing is in the call that waits for it. `Life`: an enclave none of
whose handles was cloned is in one place only, and the place tells how far its life has got.
From the last follows that the exit of an enclave that was initialised is not refused for
want of a TCS: its initialisation took one, and nobody else is inside. An enclave whose init
was refused may have none, and its exit may be refused as well. A cloned enclave is
excepted, because the drop of one clone ends what the other uses. What holds with clones too
is an action property, `GlobalsGoForward`: the global state of an enclave is set up once or
refused once, shut down after that, never revived by the exit of another clone after an
abort or a loss, and does not change once the enclave is gone. Its invariant `Once` adds to
the others that an enclave which is being created has no clones, that the init of one which
has clones is over, that one whose globals are `down` is not loaded, and that whoever is
inside is in an enclave that is not gone; the last is why destroying has to wait. The list
of handlers is sound as long as no function is registered twice on a thread: then the node
`unregister` unlinks is the one its handle frees, because there is as many of a function in
the list as there are handles for it. `TcsCounted` is about two recursive functions of a
layout, the counter and the pages. Each is first shown to exist (a choice that fits up to
one end of a slice is extended to the next), and then that one counts the other, by
induction on the end of the slice. The induction theorems of the library take a predicate as
a parameter, which the provers cannot instantiate; an induction is therefore written as the
least counterexample (`LeastNatural`, from the library's `WFMin`).

*OcallErrno.* Proved: `TypeOK`, `ErrnoIsOfTheCall`, `PasswdIsRelative`. Assumed: errnos
are positive, `EINVAL` is one, the passwd buffer is not at address 0. `Explained` says
of each ocall that has its result what libc answered, and that errno is its own or of
a later call of a handler: an error of a call above is written into every frame below.
The report then follows from the tables of the ocalls. The proof corrected the model:
in a buffer with no room libc had been allowed to put a string at its first byte.

*AlignAlloc.* Proved: `TypeOK` and all six properties of its run. Assumed: alignments are
powers of two up to a page (the products and quotients are decided power by power), malloc's
addresses are multiples of 16, types have a size. The rotations of the 64-bit map are proved
to give the least padding that serves the requests, and to refuse them only if none does,
for every list of requests of any length. A box is then always where the allocator would put
it for its own layout, whichever layout its block was made for: the size of a padded layout
tells its padding and its alignment, so comparing only sizes in `clone_from` is right
(`SizeTells`). What is written for a box lies between the word below its block and the word
that its block ends with in excess, and two blocks that do not overlap do not do so when
both are moved down by a word: that is why a word below its block reaches no other box.
`AlignAlloc` implements `OwnedBlocks`: each operation leaves the image of every other box as
it was (`OthersKeepTerms`, `OtherBlocks`), and the image of its own box is what a fresh
block (`MoveIs`) or the old one (`KeepIs`) makes of it. For `clone_from` that is the point:
with a source of the same padded size it keeps block, pointer and word and takes over only
the source's layouts, and those would have led to the same pointer.

*SgxProject.* Proved: `NewCompletes`, `SoIsFresh`. Assumed: environments are modes,
mitigations and target directories, and no mitigation has the name of a state of a file.
`new` has finished the files before the one it is at and not touched those after it. For
`build`, the object that the profiles share is no older than the interface any of them last
ran the script with, and has that run's flags unless another profile compiled it later.
While a script runs its profile has no run noted, so that an object that is replaced and a
build that is then killed do not break this; so a run that is skipped because nothing
changed leaves a current object.

Only model-checked: liveness (`PermitIsTaken`, `TimedWaitEnds`, `MutexIsReleased`,
`DropDestroys`), since TLAPS does not handle fairness and `ENABLED`. `InitUsesKey` and the
violation of `NoSelfDeadlock` under an open mask are counterexamples of TLC.

## Not modelled

- Weak memory: `event.rs` and `signal.rs` communicate under mutexes only.
- The data an ocall passes to libc, an algorithm of the native library, and the
  protocol of `malloc` with its own metadata.
- Signals that stay registered for an enclave that is destroyed: the entry names an id
  that is not used again and the ecall of the handler fails (`signal.rs:188`).
  Termination of the process.
- `simulate.rs`: it rewrites instructions of an enclave file before it is loaded, one
  pass with a disassembler as its input.
- `veh.rs`, `emm.rs`, `trts.rs`, `rsrvmem.rs`, `system.rs`, `se.rs`: each function is one
  native call with its arguments checked or passed through, and keeps no state of
  its own. The refusals of the key service and of the random source are choices
  of `SealedData`.
- Options of `cargo sgx` that name other files, `build_app`, `setup_enclave_linker` and the
  detection of the version of gcc.
- Overflow of an event's counter at 2^31 sets.
- The components with no module in the table of `PROJECT.json`, each with its reason.

## Plan

Done, in this order: `TcsEvent` with `ParkPermits` and its proofs, `SignalDispatch`,
`AlignAlloc`, `CryptoHandle` and its proofs, `OcallErrno`, `EnclaveLifecycle` with
`AexHandlers` and `TcsLayout`, `SealedData` with `CryptoCalls`,
`SgxProject`; then the refinement proof of `TcsEvent` and the proofs about the
other modules; then `TcsCounted` by induction on the layout, the abstract specifications of
the boxes and of the crypto objects, and the action property of `EnclaveLifecycle`.

What is left:

1. Steps of the other proofs as action properties, such as that a frame below another one is
   never changed (`SignalDispatch`).
2. An abstract specification of a sealed object (a value that opens or does not), with
   `SealedData` shown to implement it from the invariants that are proved.
