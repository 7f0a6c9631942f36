# A verification project for the Goodix 27c6:5125 driver

This directory models the host side of the fingerprint driver in TLA+: what it keeps on disk, what it says to the reader
over USB, and how it behaves under libfprint. TLC checks the models on small instances; TLAPS proves the results listed under
*What is proved* for every value of the constants. All paths below are relative to `src/`; `driver/` is short for
`libfprint-driver/`.

Contents: [the system](#the-system) · [modules and their correspondence to the code](#modules) · [runs](#runs) ·
[fairness](#fairness) · [proofs](#what-is-proved) · [disagreements found](#disagreements-between-the-code-and-its-documents) ·
[not modelled](#what-is-not-modelled-and-why) · [plan](#plan) · [how to run](#how-to-run)

## The system

The driver runs inside `fprintd`, on one GLib main loop, under a libfprint 1.94.100 that the project modifies. A session with
the reader goes through six protocol stages, each an engine of its own; one of them makes a persistent change to the reader.

```
  client (fprintd)
     | open / verify, identify, enroll / cancel / close
  FpImageDevice  (reference/.../fpi-image-device.c)          the framework's states
     | activate, deactivate            ^ activate_complete, image, finger, session_error, deactivate_complete
  device context (driver/goodix_fpimage_device.c)            epochs, fence, poison, deactivation, hand-over of engines
     | arm, submit, cancel             ^ drained
  protocol engines: live preflight -> (pairing) -> secure session -> post-TLS lifecycle -> (enrollment graph)
     |                                 ^ frames, OUT completions
  USB router (driver/goodix_usb_router.c)                    receive token, frames out of chunks
  USB backend (driver/goodix_fpi_usb_backend.c)              one bulk IN, one bulk OUT, generations, fence, drain
     |
  reader

  runtime coordinator / pairing activation -> self state (driver/goodix_self_state.c): two slots of two files on disk
  enrollment graph / lifecycle -> image -> ChicagoHS engine (driver/goodix_chicago.c): subtemplates of the touches so far
  installer and removal commands (deployment/) -> PAM entry, systemd drop-in, libraries, SELinux mapping; systemd beside them
```

Everything on this picture is re-entrant: a completed transfer calls the router, which calls an engine, which reports a finger
to the context, which tells the framework, which may deactivate the device, which fences the backend, which cancels the
engine that is running.

| Component | State it keeps | Operations | What makes it correct |
|---|---|---|---|
| Pairing store, `driver/goodix_self_state.c` | a directory with slots a and b; per slot a secret and a receipt file and their temporaries | load, write_prepared, promote_active | an acknowledged record survives any crash of any later write; one answer to a load; never wedged once written |
| Pairing activation and provisioning, `goodix_pairing_activation.c`, `goodix_pairing_provision.c` | the reservation, the request in flight, what was read back | begin, next_request, handle frame, OUT complete, promote | the PSK is durable before E0 is sent; one E0 per reservation; ACTIVE only after TLS proved the PSK |
| Runtime coordinator, `goodix_runtime_coordinator.c` | the decision for this session | evaluate live evidence, promote after a retried TLS | legacy material only while the reader holds it; fail closed otherwise; another reader's record is left alone |
| USB backend, `goodix_fpi_usb_backend.c` | the two transfers, generation, fence, drain notification, pre-session drain | begin generation, arm, submit, cancel, completions | one transfer of each kind; no transfer crosses an epoch; the drain is told once |
| USB router, `goodix_usb_router.c` | generation, fence, one receive token, a partial frame | request, complete, cancel | a late completion reaches no consumer; a failed router is noticed |
| Device context, `goodix_fpimage_device.c` | epoch, fence, poison, pending deactivation, action and its outcome, licence for the next epoch | open, close, activate, cancel, deactivate, callbacks of all engines | every operation and deactivation ends exactly once; poison is final; no second epoch after a match, an error or a cancellation |
| Live preflight, `goodix_live_preflight.c` | phase, ACK seen, OUT pending | start, frame, OUT complete | ACK, result and OUT completion in any order |
| Secure session, `goodix_secure_session.c`, `goodix_tls_server.c` | TLS state, queue of records, pacing timer | start, frame, OUT complete, timer, cancel | records keep their order and their pace; nothing is sent after a cancellation |
| Post-TLS lifecycle, `goodix_post_tls_lifecycle.c` | phase, ACK seen, OUT pending, FDT tables, IRQ0080 count | frame, plaintext, OUT complete, cancel, timeout | one command in flight; events only in their slot; two first-contact retries at most |
| Enrollment graph, `goodix_enrollment_*.c` | phase of the touch, deferred stage, FDT tables, zero-mask recovery | events, commands, ACKs | a stage is delivered once per accepted touch, and never after the end |
| ChicagoHS engine, `goodix_chicago.c`, `production/chicago-native/chicago/` | during an enrollment: policy, subtemplates with relations, match order and group, the deferred sample | start, enroll, clear; match | no touch is lost or kept twice; the template can be packed and read back at any time |
| Image decoding, SIGFM | none across calls | decode, extract, match | numerical; SIGFM is historical, the Chicago RAW path is production (12 stages, synchronous match) |
| Installer and recovery, `deployment/install.py`, `deployment/recovery/remove.py` | installed files, the SELinux mapping and its owner, the service's mask | install, update, roll back, remove, force removal | a failed step restores what was there; software can always be removed; a running service keeps its libraries |
| Manager, package helper, login gate (`packaging/`, `deployment/plasma-login-opt-in/`) | none of their own | status, install, remove; authenticate | they call the installer, and the fingerprint only under the conditions of the gate |

**What is hard here.** Crashes and power losses between two file operations and between two steps of pairing (E0 is
persistent in the reader and cannot be taken back); replies that overtake their command's OUT completion or never come; a
second operating system that pairs the same reader; cancellation at any callback; idle callbacks that outlive the operation,
or the context, that queued them; and re-entrance, which makes "after this call returns" mean "after anything may have
happened". `PROJECT.json` lists each such place under `hazards`, at its line, with the properties that cover it.

## Modules

| Module | Models | Checked by | Proved in |
|---|---|---|---|
| `PairingRegister` | what the store promises its callers (abstract) | with `SelfState`, `Pairing` | `SelfStateProofs`, `PairingProofs` |
| `SelfState` | the store: `goodix_self_state.c` | `MCSelfState` | `SelfStateProofs` |
| `Pairing` | sessions, reservation, E0, readback, TLS, promotion, the reader and the other system | `MCPairing` | `PairingProofs` |
| `SecureSession` | the secure session with its TLS server, and the reader's side of it | `MCSecureSession` | `SecureSessionProofs` |
| `Capture` | what a lifecycle tells the framework (abstract) | with `PostTlsLifecycle` | `PostTlsLifecycleProofs` |
| `PostTlsLifecycle` | the lifecycle after TLS in its four uses, and the reader's side of it | `MCPostTlsLifecycle` | `PostTlsLifecycleProofs` |
| `Enrollment` | what an enrollment tells the framework (abstract) | with `EnrollmentGraph` | `EnrollmentGraphProofs` |
| `EnrollmentGraph` | the enrollment's objects, composed with `ImageDevice`, and the reader's side | `MCEnrollmentGraph` | `EnrollmentGraphProofs` |
| `ChicagoEnrollment` | what the engine keeps of the touches of an enrollment | `MCChicagoEnrollment` | `ChicagoEnrollmentProofs` |
| `Deployment` | installer, rollback and removal, step by step, with systemd | `MCDeployment` | `DeploymentProofs` |
| `UsbBackend` | the backend and router, as operators on a record | `MCDeviceContext` | with `DeviceContext` |
| `ImageDevice` | the framework's image device, as operators on a record | `MCDeviceContext`, `MCEnrollmentGraph` | with `DeviceContext`, `EnrollmentGraph` |
| `DeviceContext` | the device context, composed with the two above | `MCDeviceContext` | `DeviceContextProofs` |

Definitions named *Mutant* in a comment are small bugs; each stands next to the definition it perverts and shows that a
property can fail. No specification uses them.

### SelfState: the store, one file operation at a time

`dir` is the directory as the kernel shows it, `survivors` the directories a power loss now may leave, `writer` the position
of the one `write_state()` in progress, `acked` the last record for which it returned TRUE (a history variable).

| Action | Code |
|---|---|
| `BeginWrite(r)` | `write_state()` up to its first file operation: the early returns (`WriteAllowed`) and the slot to overwrite (`Target`) |
| `Unlink`, `Create`, `FsyncFile`, `Rename`, `SyncDirectory` | `write_component()`, for the secret and then the receipt |
| `Interrupt` | an operation fails, or the process dies; the kernel keeps what was done |
| `PowerLoss` | the machine restarts with a member of `survivors` |

A directory operation adds its result to `survivors`, a directory sync reduces `survivors` to `dir`, and a file renamed
without its fsync adds a survivor with that file `Spoiled`. Encoding and the HMAC are represented by what they decide: a slot
is `Valid` when both files are whole, of the same generation, and the receipt was keyed by the PSK in the secret. What a
record carries besides generation, PSK and binding is one `Payload`.

Assumed: directory operations reach the disk in order (a journaling file system), there is one writer at a time, and
the state directory exists.

### Pairing: sessions across crashes and another system

The store is `INSTANCE PairingRegister` — the abstract register that `SelfState` is proved to implement — so that the sessions
may meet every answer a crash can make the store give, without its files. A session runs
`closed -> preflight -> (preparing -> e0 -> read_bb -> read_validator) -> tls -> (promoting) -> ready`.

| Action | Code |
|---|---|
| `Open` | the pre-session receive sync: earlier replies are discarded |
| `UseMaterial`, `FailClosed`, `PrepareNewPsk`, `PrepareRestore` | the coordinator's decision and `goodix_self_state_reconcile()` (`Decision`, `Reconcile`), the reservation |
| `StoreStep`, `WriteDone` | the write of the reservation or of the promotion, as its caller sees it |
| `Submit`, `OutComplete`, `HandleReply` | `next_request()`, the OUT completion and `handle_a0()`; `Advance` is `maybe_advance()` |
| `TlsSucceeds`, `TlsFails` | the handshake, and the promotion it proves |
| `SessionDies`, `PowerLoss` | any failure, time-out, cancellation or death; a power loss |
| `ReaderExecutes`, `WireLoses`, `ForeignPairing`, `ForeignBb`, `SwapReader` | the environment: reader, cable, the other system, the user |

A validator is derived from its PSK, so it is modelled by it. E0 may be accepted and change nothing: the readback is what the
code relies on. BB010002 is compared and never written by this host.

### SecureSession: commands, handshake and pacing

`session` is the C structure with its OUT endpoint and the context's fence; `reader` is what the reader executed (`commands`),
the chunks it received (`got`) and its frames under way (`due`); `errors` counts what reader and cable did wrong. As in
`DeviceContext`, an operator named for a C function maps the session to the session after that function returned.

| Action | Code |
|---|---|
| `Start`, `Renew` | `goodix_secure_session_start()`; `_free()` and `_new()` for a later epoch |
| `OutCompletes`, `OutFails` | `backend_out_complete()`, without and with an error |
| `ReceiveA0`, `ReceiveB0` | `goodix_secure_session_handle_a0()` and `_handle_b0()`, with the TLS server's `push` and `tls_output()` |
| `PacingReady` | the 10 ms timer, `goodix_secure_session_pacing_ready()` |
| `Fence` | `goodix_device_context_set_terminal_fence()`, which cancels the session unless it has stopped |
| `ReaderTakes`, `ReaderErrs` | the environment: a transfer arrives; a frame is invented, repeated, delayed or lost |

Commands are numbered from 1; D1, TLS, STOP and TERMINAL are the next four numbers. A command frame is its control byte, so
that commands that share one (the three A2, the four DAC writes) are told apart by nothing else, as in the code. A reply whose
bytes fail any check is `Garbage`. The handshake is the order of its records: the server puts out one flight on the whole
ClientHello, the other on the client's last record, and rejects any record but the next. A promotion that fails at STOP is
`promotes = FALSE`, chosen when the session is made. Left out: what happens at STOP to application data, which goes on to the
lifecycle, and a session without a lifecycle (test seams).

### DeviceContext: one reader under libfprint

The state is `fw` (the framework's device), `ctx` (the context between open and close), `usb` (backend and router) and `left`
(idle callbacks that outlive what queued them, and whether a context was ever leaked). **An action is one callback of the main
loop with all it calls.** An operator named for a C function maps `s = [fw, ctx, usb, left]` to the state after that
function returned; nesting of operators is nesting of calls, so their order is the code's order — for instance
`DriverDeactivate` writes `nonquiescent` after `SetFence`, which may already have completed the deactivation.

| Action | Code |
|---|---|
| `Open`, `Close` | `img_open`, `img_close` with `goodix_device_context_free()` |
| `Start(a)` | the framework's start of an operation and `img_activate`: the licence of the epoch, claim, generation, pre-session drain |
| `InCompletes`, `OutCompletes` | the backend's two completion callbacks, down through router, engine, context and framework, and the drain notification |
| `Cancel` | the client's cancellable, with the driver's own handler during an activation |
| `CancelIdle`, `ActivationCancelIdle`, `DeactivationIdle` | the three idle callbacks |

Engines are reduced to what the context sees: `ctx.sub` is the engine the next frame goes to, `ctx.reply` what a request of
preflight or pairing has been answered so far, and `Frames(s)` what the next frame may mean to that engine. Reductions: a
transfer carries one frame, a part of one, or an error (several frames behave as several transfers); the timer that paces the
secure session's records is part of the frame or completion that started it; a promotion that fails is a `"bad"` frame; the
zero-mask recovery and the IRQ0080 retries of the engines are `"step"` and `"send"` frames. The client may cancel at any
callback into it, which is indistinguishable from cancelling just after it. Test seams, audits and the operator epoch are
left out. `RawImage` needs no cancellation check of its own: in one callback it can only follow the one in `DeliverImage`.

Consequences of the code that no property states, because nothing of weight contradicts them: a failed activation leaves the
framework's state at ACTIVATING, so that the next activation logs upstream's "should not happen" warning and goes on;
the historical SIGFM path, which production does not build, could wait for an asynchronous match that was cancelled; and a
cancelled operation may be reported INACTIVE, although the comment at `driver/goodix_fpimage_device.c:2830` says that this path
is never advertised as safely inactive, because a fence over idle transfers completes the deactivation before `nonquiescent`
is written — `EpochIsLicensed` shows that no epoch is begun on the strength of it.

### PostTlsLifecycle: one contact, two, a prepared login, or the way to an enrollment

`life` is the C structure with its OUT endpoint, the context's fence and what the framework was told; `reader` is the sensor
with the finger on it and its frames under way; `blame` says that somebody gave the lifecycle a reason to fail.

| Action | Code |
|---|---|
| `Start`, `Renew` | `goodix_post_tls_lifecycle_start()`; `_free()` and `_new()` for a later epoch |
| `OutCompletes`, `OutFails` | the completion of a command, without and with an error |
| `Receive` | `goodix_post_tls_lifecycle_handle_a0()` and `_handle_plaintext()`, with the callbacks into the framework and what these do before they return |
| `AwaitFinger`, `AuthorizeLogin`, `VerifyAgain` | the framework's requests: another contact, the first Verify of a prepared login, a later one |
| `Fence`, `Timeout` | the context's cancellation; `goodix_post_tls_lifecycle_timeout()` |
| `ReaderTakes`, `FingerDown`, `FingerUp`, `StrayEvent`, `ReaderErrs` | the environment: sensor, finger, IRQ0080, and a frame invented, repeated or lost |

An image comes whole or in two pieces, the tail image in one. FDT tables and the statistics of the samples are the choice of
what a sample says. The sensor that reported a stray IRQ0080 is disarmed until it is armed again.

### EnrollmentGraph: touches, lifts and the touches that vanish

One record holds model, pipeline, command plan, FDT state, events, outbound transaction, USB binding, the context's
enrollment fields and the framework's device; a layer that refuses fails all above it, up to the fence of the context.

| Action | Code |
|---|---|
| `Receive` | the context's A0 and plaintext handlers down through events, model and plan, the delivery of a stage (`verdict` is the engine's: accepted, refused, broken) and the command that follows |
| `OutCompletes`, `OutFails` | `goodix_enrollment_fpi_usb_binding.c`: the completion of a command |
| `Fence`, `Renew` | cancellation or failure elsewhere; the next enrollment |
| `ReaderTakes`, `FingerDown`, `FingerUp`, `ReportLift`, `StrayEvent`, `ReaderErrs` | the environment |

The late lift is the point: after a scan that found no finger the touch is over for the host, and the lift which the reader
may still report is let pass once, whether it comes before the new arm, under it, or among strays. Assumed of the reader: it
reports a lift before the next touch or never, and nothing between the two `32` of the navigation after the first touch.

### ChicagoEnrollment: a touch that is taken out and put back

`template` is the store of subtemplates with the base of each row of relations, match order, groups and anchor; `policy` the
counters of tips; `deferred` the probe taken out. `Admit` is the whole of `goodix_chicago_enroll()` with
`context_chicago_image()`: the policy's verdict, the insertion, `drop_last` of the first tip, and its restoration after the
next touch, with each of the checks that make the call fail (`sound`, `told`). Whether a touch is far off, and which
subtemplate it overlaps best, are choices. One consequence is worth knowing: a group that the deferred sample founded stays
when the sample is dropped (`drop_last` does not undo it), and its anchor is then a member of an older group; `GroupFits` holds
all the same.

### Deployment: programs that may stop at any step

`host` is the machine: each file or directory absent, in part, or whole and of a release; the SELinux mapping and what the
receipt says of its owner; the legacy policy; the mask of the service, what systemd has loaded, and whether fprintd runs.
`op` is the process: a program of steps still to do, what failed so far, and what it found at the start.

| Action | Code |
|---|---|
| `BeginInstall`, `BeginRemoval` | `apply()` up to the lock, `main()` of `remove.py`; `Preflight` is `normal_preflight()` |
| `Succeed`, `Skip`, `Refuse` | the next step of `EnterSteps`, `InstallSteps`, `RemoveSteps`, `RollbackSteps`, `LeaveSteps`; one left alone because of what failed before (`RemovalSkips`, `RollbackSkips`); one whose check fails |
| `Fail` | a file operation, `semanage`, `semodule` or `systemctl` fails, having done all, some or nothing (`Partly`); `Raised` is what the code does then: `attempt()` goes on, an installation rolls back |
| `Interrupt`, `Kill`, `PowerLoss` | SIGTERM as `KeyboardInterrupt` (`Interrupted`), a kill, a power loss |
| `Restart`, `ServiceStarts`, `ServiceStops`, `Reload` | systemd and its other users |

Assumed: what was done before a power loss is on disk (the files are synced, their directories are not), and nobody else
changes the project's files or its mask while the lock is held.

## Runs

All passing runs explore their state space exhaustively, without state constraints; every bound is a constant named in the
module.

| Run | Bounds | Asks |
|---|---|---|
| `self_state` | 2 PSKs, 2 bindings, 1 payload, `MaxGeneration` 3 | Does the store keep what it acknowledged (`AckedDurable`), stay unambiguous (`OneAnswer`) and writable (`NeverWedged`), and implement the register (`ImplementsRegister`)? |
| `pairing` | 2 readers, 4 host and 2 foreign PSKs, 2 values of BB010002, `MaxGeneration` 5, `MaxTrouble` 5 | Is a reader ever left with a PSK this host lost (`NoOrphan`), a record called ACTIVE that no handshake proved (`ActiveIsProven`), an E0 repeated (`OneE0PerReservation`), a reservation written over or an active PSK replaced (`RecordSticks`)? |
| `pairing_live` | 2 readers, 3 host and 2 foreign PSKs, 1 BB010002, `MaxGeneration` 4, `MaxTrouble` 3 | When trouble ends, do sessions succeed again, unless the state is one documented to need explicit recovery (`Recovers`)? |
| `secure_session` | 3 commands, 2 of them ACK-only with one control byte; a ClientHello in 2 records, 3 in all; flights of 2 records of 1 and 2 chunks; `MaxErrors` 2 | Is something always under way that will do what is left, does the timer run only with a record to send, is the hand-over never refused (`NeverStalled`)? Does the reader get the stream in order and complete, and every command (`InOrder`)? Does every session end (`SessionEnds`)? |
| `post_tls` | `Irq80Limit` 2, `AttemptLimit` 3, `MaxStrays` 3, `MaxErrors` 2 | Does a lifecycle fail only if it was failed (`FailsOnlyForCause`), command the sensor only as asked (`SensorIsAsked`), hand over to an enrollment with nothing under way and the sensor armed (`HandsOverArmed`)? Is what it tells a capture (`ImplementsCapture`), and does it end (`CaptureEnds`)? |
| `enrollment_graph` | 4 stages, `Irq80Limit` 2, `MaxRetries` 2, `MaxStrays` 3, `MaxErrors` 1 | The same of an enrollment (`FailsOnlyForCause`, `ImplementsEnrollment`, `EnrollmentEnds`), and do its counts, FDT tables, framework and transfers stay in step (`InStep`)? |
| `chicago_enrollment` | 7 samples, tips from the 4th, at most 4, 2 in a row; capacity 11 | Is every touch in the template once, or deferred (`NothingLost`)? Are rows, match order and group always consistent (`Unpackable`)? |
| `device` | `MaxGen` 3, `MaxDiscards` 1, `Stages` 2, `MaxStale` 1 | Do framework, context, backend and router agree whatever is cancelled, fails or comes late (the properties below)? Does every cancelled operation and every deactivation end, even if the reader stays silent (`OperationsEnd`)? |
| `deployment` | 2 releases, `MaxTrouble` 3 | May every step of installation, update and removals fail, be interrupted or be the last, without an entry left for what is not there, software left without its removal command, or libraries changed under a running service (`SafeSteps`)? Is what is reported at the end true (`Outcome`)? |
| `device_close`, `device_overtake`, `deployment_rollback` | `MaxGen` 1, `MaxStale` 0; `MaxTrouble` 2 | Three statements of the documents and tests that the code does not keep; see below. |

The `device` run checks, besides the types: `NoBreach` (no assertion or `g_return_if_fail()` of framework or driver is
tripped, and the driver deactivates exactly when the framework waits for it), `Listening` (a live operation always has a
transfer under way), `EpochsApart` (no transfer crosses an epoch, and nothing is sent before the old bytes were drained),
`EpochIsLicensed` (poison is final, and a second epoch follows only a clean capture without a match), `ReleasedFromIdle` (an
engine is never freed from inside a transfer's completion), `OkMeansDone` (an operation that succeeds has given back its
transfers, has its outcome, and has all its images).

**Why the bounds are enough.** *Store:* three generations let the third write reuse the slot of the first after any crash of
the second, which is the first time an acknowledged record's neighbour is overwritten; more writes meet the same directories
up to renaming, and the proofs do not need the bound. Two PSKs and two bindings give every "same" and "different".
*Pairing:* five generations are two reservations, two promotions and one more reservation at the limit, where the code must
refuse; two readers and two foreign PSKs give "ours, theirs, someone else's"; five troubles allow a crash in each of the
stages of a pairing in one history. *Secure session:* the code has thirteen commands, but a command knows only
its predecessor; three give a first, a typed one before an ACK-only one, and two in a row with one control byte. Two flights
of two records give the first record of all (not paced), a paced one, one of several chunks, and one queued while another is
under way; two errors allow a frame out of turn and a lost one, or a repeated one twice. *Device:* three generations are two reopened epochs (identify, identify, enroll);
`MaxDiscards` 1 in place of 16 already separates "quiet", "discarded, then quiet" and "too many"; two stages separate an accepted image
from the last one (12 in production); one stale idle callback is one more than a context can own. *Lifecycle:* the
code's own limit of two re-arms; three strays exceed it; three contacts are a login of the code's own size; two errors allow
a frame out of turn with a later one lost. *Enrollment:* four stages are the first touch (which has commands of its own), two
of the repeated kind, so that a late lift can fall into either, and the last; two refusals put one on a first and one on a
repeated touch. *Engine:* seven samples with tips from the fourth on leave a first tip with touches before and behind it, two
tips in a row, and tips in the last touches; the code has 12, tips from the fifth, 8 and 2, and the proofs do not need the bound.
*Deployment:* two releases tell the new from the restored; three troubles are one that starts a rollback, one that breaks it,
and one in the removal that has to clean up. Symmetry is used only in
`self_state` and `pairing`, over values that are only compared, and never under a liveness property.

CHECK_DEADLOCK is on everywhere: in each model some step is always enabled (a new call, a power loss, a new session).

## Fairness

- `Pairing!FairSpec` (for `Recovers`): weak fairness on the host's steps, the store's steps, the reader's execution and the
  loss or delivery of what is on the wire. It says that user and daemon try again after a failed session. It is justified
  because every stage of a session is bounded: it advances on a completion, or the session dies, which is `SessionDies` and is
  counted as trouble. No fairness is put on trouble; `trouble` is bounded, so it ends.
- `SecureSession!LiveSpec`: weak fairness on completions, frames and the timer (the main loop dispatches them) and on the
  reader taking a transfer. `SessionEnds` claims nothing once an error happened: a session whose reply is lost waits until
  somebody cancels it; the code has no timer for it.
- `PostTlsLifecycle!LiveSpec`: weak fairness on completions and frames (the main loop), on the reader taking a command, on a
  finger that comes and goes, and on the client asking for the contact it prepared. `CaptureEnds` claims nothing once
  somebody is to `blame`.
- `EnrollmentGraph!LiveSpec`: the same, with weak fairness on the reading of the next frame (`WF_reader(Reads)`: a step that
  takes it off is `Receive`, or the cable lost it) and on the report of a lift the reader was armed for. That the engine
  refuses only `MaxRetries` touches is a bound of the model; for tips the code has a bound of its own, which
  `ChicagoEnrollment` shows to be kept.
- `DeviceContext!LiveSpec`: weak fairness on the return of transfers **of a fenced epoch** (libusb completes a cancelled
  transfer) and on the three idle callbacks (the GLib main loop runs them). That a transfer returns by itself is not assumed: a
  receive may wait for a finger for ever. Fairness is not put on the client either.

## What is proved

| Theorem | Statement |
|---|---|
| `SelfStateProofs!TypeCorrect` | `Spec => []TypeOK` |
| `SelfStateProofs!AcknowledgedSurvives` | `Spec => []AckedDurable`: a record whose write returned TRUE is never lost to a power loss, at any step of any later write |
| `SelfStateProofs!LoadIsUnambiguous` | `Spec => []OneAnswer` |
| `SelfStateProofs!WriteNeverRefused` | `Spec => []NeverWedged` |
| `SelfStateProofs!StoreImplementsRegister` | `Spec => Register!RegisterSpec`: the two slots implement the abstract register |
| `PairingProofs!AlwaysTypeOK` | `Spec => []TypeOK` |
| `PairingProofs!AlwaysNoOrphan` | `Spec => []NoOrphan`: whatever fails, a reader that holds a PSK drawn here finds it in every record a power loss may leave |
| `PairingProofs!AlwaysActiveIsProven` | `Spec => []ActiveIsProven`: nothing is called ACTIVE before a handshake with it succeeded |
| `PairingProofs!AtMostOneE0` | `Spec => OneE0PerReservation`: a generation that had its E0 is never reserved again |
| `PairingProofs!RecordsStick` | `Spec => RecordSticks`: a reservation is only promoted, an active PSK never replaced |
| `PairingProofs!SessionsUseRegister` | `Spec => Store!RegisterSpec`: the sessions use the store as the register that `SelfState` implements |
| `PairingProofs!AcknowledgedIsKept` | `Spec => []Store!KeepsAcknowledged`: what a session was told is durable is never taken back, wherever a later power loss falls |
| `SecureSessionProofs!AlwaysTypeOK` | `Spec => []TypeOK` |
| `SecureSessionProofs!AlwaysNeverStalled` | `Spec => []NeverStalled`: what is left to do has something under way that will do it |
| `SecureSessionProofs!AlwaysInOrder` | `Spec => []InOrder`: commands and chunks reach the reader once and in order, all of them before the stop |
| `PostTlsLifecycleProofs!AlwaysTypeOK` | `Spec => []TypeOK` |
| `PostTlsLifecycleProofs!AlwaysFailsOnlyForCause` | `Spec => []FailsOnlyForCause`: the lifecycle never fails by itself |
| `PostTlsLifecycleProofs!AlwaysSensorIsAsked` | `Spec => []SensorIsAsked`: the sensor arms and captures only what was asked for, also after errors |
| `PostTlsLifecycleProofs!AlwaysHandsOverArmed` | `Spec => []HandsOverArmed`: an enrollment takes over an armed sensor with nothing under way |
| `PostTlsLifecycleProofs!CaptureIsKept` | `Spec => ImplementsCapture`: what the framework is told is a capture as `Capture` specifies it |
| `EnrollmentGraphProofs!AlwaysTypeOK` | `Spec => []TypeOK` |
| `EnrollmentGraphProofs!AlwaysInStep` | `Spec => []InStep`: counts, FDT tables, framework and transfers agree, and something is listening for the event that is expected |
| `EnrollmentGraphProofs!AlwaysFailsOnlyForCause` | `Spec => []FailsOnlyForCause`: no order of touches, lifts, late lifts, empty scans and strays fails an enrollment by itself |
| `EnrollmentGraphProofs!Implements` | `Spec => ImplementsEnrollment`: what the framework is told is an enrollment as `Enrollment` specifies it |
| `DeviceContextProofs!AlwaysMatching` | `Spec => []IInv`: framework, context and backend are always in one of seven matching modes |
| `DeviceContextProofs!AlwaysTypeOK` | `Spec => []TypeOK` |
| `DeviceContextProofs!AlwaysNoBreach` | `Spec => []NoBreach`: no assertion is tripped, and both sides agree on a deactivation |
| `DeviceContextProofs!AlwaysListening` | `Spec => []Listening`: an operation that is not fenced has a transfer under way |
| `DeviceContextProofs!AlwaysEpochsApart` | `Spec => []EpochsApart`: no transfer or token crosses an epoch |
| `DeviceContextProofs!OnlyLicensedEpochs` | `Spec => EpochIsLicensed`: poison is final, a second epoch is licensed |
| `DeviceContextProofs!OnlyReleasedFromIdle` | `Spec => ReleasedFromIdle`: a completion never frees the engine it runs in |
| `DeviceContextProofs!AlwaysOkMeansDone` | `Spec => OkMeansDone`: what succeeded is complete and has given back its transfers |
| `ChicagoEnrollmentProofs!AlwaysTypeOK` | `Spec => []TypeOK`: the counters and the store stay within the engine's limits |
| `ChicagoEnrollmentProofs!AlwaysNothingLost` | `Spec => []NothingLost`: no touch is lost, doubled or miscounted, and no legal sequence of touches makes the engine fail |
| `ChicagoEnrollmentProofs!AlwaysUnpackable` | `Spec => []Unpackable`: rows, match order and group are consistent at any time |
| `DeploymentProofs!AlwaysTypeOK` | `Spec => []TypeOK` |
| `DeploymentProofs!AlwaysOutcome` | `Spec => []Outcome`: how an operation says it ended is how things are, whatever failed and wherever it was cut short |
| `DeploymentProofs!OnlySafeSteps` | `Spec => SafeSteps`: no step leaves an entry for what is not there or software without its removal command, or changes the libraries of a running service |

Those of the store hold for every set of PSKs, bindings and payloads and any `MaxGeneration`. The assumptions are `GenerationAssumption`
(`MaxGeneration` is a natural number) and `MarkAssumption` (the marks None, Spoiled and Partial are not files or
records), which TLC evaluates in every run of the store. Those of pairing hold for every set of readers, PSKs and bindings, any positive `MaxGeneration` and any amount of
trouble (`PairingAssumption`: the foreign PSKs and the host's are apart, and none is a mark). Those of the session hold for every
number of commands, any of them answered by an ACK only, and every division of the handshake into flights, records and chunks
(`CommandAssumption`, `HandshakeAssumption`); those of the lifecycle for every limit on strays and contacts (`LimitAssumption`), and
both for any number of errors. Those of the enrollment hold for two stages or more (the first touch has commands of its own, so one
alone would not be an enrollment of this code), every limit on strays and every bound on retries and errors (`RequiredAssumption`,
`BoundAssumption`). Those of the device context hold for every number of generations, discards, stages (at least one)
and stale idle callbacks (`DeviceAssumption`). Those of the engine hold for every number of samples, every position of the first tip and every
bound on tips, if the capacity is not less than samples and tips together (`ConstantsAssumption`; 12 + 8 of 50 in the code).
Those of the installer hold for every set of releases and any number of failures, interruptions, kills and power losses
(`DeploymentAssumption`: an absent and a partial item are told apart, and neither is of a release).

**The argument.** `AckedDurable` is not inductive: from a state in which the writer is about to rename the receipt over the
only valid slot, one step breaks it. `IInv` adds what excludes such states:

- `Sound(d)` of every directory a power loss may leave: no file is spoiled; no receipt is newer than the newest valid slot; two
  valid slots differ in generation and agree on the binding; some valid slot is at least as new as `acked`;
- `WriterSound`: while a write is in progress and its receipt is not yet in place, the target is not the slot a load would
  select, the other slot is older than the record being written, and what was already written to the target is the record's;
- `TargetClean`: a write into a store without a valid slot begins in a slot without files.

The proof that a step preserves `IInv` has one lemma per action. A power loss is the simplest: the survivor it picks is already
`Sound`, and the writer is gone. The refinement maps `visible` to what a load of `dir` returns, `possible` to what a load of
each survivor would, and `pending` to the writer's record; a rename of the receipt is the abstract `Publish`, a directory sync
`Harden` or `Acknowledge`, an interruption `Abandon`, a first file in an empty store `Disturb`; all else stutters.

*The engine.* Its `IInv` is `TypeOK`, `NothingLost`, and `Sound(template)`, which says more than `Unpackable`: the match order is
the identity on the subtemplates there are (so that a new one is always tried last, and dropping it moves nothing), and the
anchor is a member. To these it adds what the policy owes the store: a touch is deferred only once it was a tip
(`pending => tipped >= 1`), so that no touch is deferred while another is; it has been touched; and an open enrollment still
lacks a sample. `InsertSound` shows that an insertion keeps `Sound`, `InsertThenDrop` that an insertion and a drop give back
the same subtemplates, rows and order (all but a group the insertion founded), `AdmitKeepsIInv` composes them in the order of
the code, with one case per verdict of the policy.

*Pairing.* `NoOrphan` speaks of the store after a power loss and of the reader; between them are the session and the wire.
`IInv` has a part for each: `StoreInv` (all records the store has, may get or is about to get name one reader and one PSK, drawn here;
what is ACTIVE cannot be lost), `KeyInv` (a reader's PSK is foreign, legacy or drawn), `SessionInv` (at each stage, how the session's
reservation lies to `visible`, `possible` and `pending`; from E0 on, `possible` is exactly the reservation), `WireInv` (one command at
a time, and no reply left over for the next) and `ReservedInv` (each generation that had its E0 is behind every record a power loss
may leave). `OneE0PerReservation` and `RecordSticks` are then facts about one step. The store's steps come from the register, so
that no file is mentioned. `AcknowledgedIsKept` is a fact about the register alone (`StoreKeeps`: a write publishes only what
follows the visible record, a power loss takes only what is possible) and holds of the sessions because they use it as one.

*The secure session.* The invariant is a case distinction, `Sound`: the session has not begun, is at a command, sends the records of the
server, has stopped, or has failed. Each case says what is under way, what the reader already took, and what is left in the
queue as an interval of record numbers (`Rest(a, b)`), so that pushing a flight, sending a chunk and taking a record off are
steps from one interval to another; `NeverStalled` and `InOrder` follow from each case. The operators of the C functions call each
other (`PushSound` uses `QueueSound`, that uses `AdvanceSound` and `ChunkSound`), and so do their lemmas.

*The lifecycle.* `FailsOnlyForCause` is about what does not happen: every frame finds the phase that accepts it. `IInv` therefore describes
the frames as well. `Sound` holds of every state, errors or not: `Transport` (the OUT endpoint, its owner and the command of the phase),
`Contact` (what the framework was told and asked for) and `Counts` (how often the sensor was armed and read). `Script` says, as
long as nothing was lost or invented, exactly which frames are due in a phase and what the sensor is armed for. `Clean` says,
as long as nobody is to blame, that the due samples are usable, that the strays seen and due are those counted, and that the lifecycle
has not failed. One lemma for each handler shows that it takes a `Heard` frame to a state that `Holds` again and `Tells` the
framework no more than one thing; `Tells` is also what the implementation of `Capture` is proved from. `RepliesFit` ties the
reader's answer to a command to the frames that the phases of the command wait for.

*The enrollment.* There are two invariants here. `Sound` is about the graph alone and holds whatever happened: the touches are
counted (`Counted`), and, as long as nothing failed, an event is expected only in its turn (`Ordered`) and the host listens or has
the command under way that is next (`Connected`). The state of a touch is one of four: `Fresh` before its image, `Taken` while the
image waits to be judged, `Judged` until its lift, `Lifted` until the next; each says which touch the FDT tables are of and what
the framework awaits, and `Turn` says which command may come in it. A handler is followed from the event up through model,
pipeline and context in two steps: the event makes the graph `Ready` for what comes next, and a ready graph is `Settled` by the
submission of the next command and the next receive. `InStep` follows from `Sound`, and the refinement from what each step
`Tells` the framework. `Script` is about graph and reader as long as nobody is to blame. By the event that is expected it says
what the reader is armed for and the very frames that are still to be read: of a command under way (`Before`), of one
the reader took (`Owing`), of one whose ACK was read (`Answering`). The late lift of an empty scan is what makes it long: it may be
anywhere among the frames of the wait for the next touch, but there is one at most, and while there is one the window that lets it pass is open
(`OneLate`). So the frame that is read first is always one that its handler takes. `Script` is not inductive without
`Sound`, and `FailsOnlyForCause` is not without `Script`: a graph that has not failed and expects a lift, with a touch in front, fails in one step.

*The device context.* A step is one callback with everything it calls, so the invariant has to say what holds in the middle of a
step, too: `Core` (the transfers and the token are the backend's, the framework's device is one it can be in between two
callbacks) holds after every single operator, the modes of `IInv` at the end of a step. A state is `Activating`,
`Active`, `Giving` (an activation that was cancelled and is told so by an idle callback), `Doomed` (an operation that was
poisoned and cancelled, whose framework has not yet reacted), `Deactivating`, `Idle` or `Absent`. `InStep` ties the engine that the next frame
goes to to the framework's state and stage; without it a frame could report a finger the framework does not wait for. `Hears` is
not part of a mode, because an operation listens again only after its engine consumed the frame; `Leads` says that it
does in the end, or that the operation `Ends`. `Over` is common to the modes without an epoch: fences up, and no more
idle callbacks queued than the context may own. There is a lemma for each operator that models a function, following the calls:
`FinishDeactivation`, `SetFence`, the driver's and the framework's deactivation, the failure of an engine, `Listen` and `Send`,
the frames of preflight, session, lifecycle and binding, the drain notification, and then one for each action, which ends
in `Good(Now, Now')`: the invariant again, and the bodies of the three action properties (`Epochs`, `Released`, `DoneIfOk`).

*The installer.* What an operation that was cut short leaves depends on how far its program had come, so the invariant ties the
two together. `Going` says that the operation is at the k-th step of one of its programs and what the steps behind it have done:
`Entering` (before anything is changed), `Erasing` (a removal: what is behind is gone, or its step is among the errors),
`Building` (what is behind is of the new release, the rest absent), `Undoing` (a rollback without errors has restored what is
behind), `Departing` and `Over` (`Holds`: what the verdict means). `Proper` is about ownership: a receipt that claims the
mapping never claims an administrator's. `Outcome` alone is not inductive, since it says nothing of an operation under way; three
things carry it through. A service that was stopped is masked and stays so until the mask is released (`Quiet`, `MaskIsOurs`),
although clients start it and anyone may reload systemd at any time. A removal drops `goodix-force-remove` last, and only
without an error. A rollback copies nothing back over what it could not remove. There is a lemma for what each kind of step does
to the host and to the facts of each program (`DropUndoes`, `PutBuilds`, ...), one for the end of each program (`LeftGoes`),
and one for being cut short (`CutShortLeaves`); a step that fails is treated as the step of an operation that is in trouble
already, since noting the trouble commutes with the step (`TroubledOnward`). `SafeSteps` then follows from where in its
program each step is: an entry is removed before what it refers to and written after it.

**Only model-checked:** the liveness properties (`Recovers`, `SessionEnds`, `CaptureEnds`, `EnrollmentEnds`, `OperationsEnd`):
TLAPS does not prove properties under fairness, nor ENABLED. Every invariant and every other action property of the passing runs,
and every refinement, is proved. Recursive operators and induction over data are not used.

## Disagreements between the code and its documents

1. *Closing may abandon a context* (`device_close`, `CloseDrains`). `TECHNICAL_MANUAL.md:270` says that closing drains the
   host-side callbacks and clears context and secret state. When the activation failed or was cancelled a moment before,
   transfers are still under way; `img_close` fences, and `goodix_device_context_free()` returns at its
   `g_return_if_fail (is_drained)`: the context with its key material stays behind.
2. *A reply that overtakes its command fails the activation* (`device_overtake`, `ReplyMayOvertake`).
   `driver/tests/test_goodix_live_preflight.c:256` exercises a reply before the OUT completion. For the last preflight
   command, the context re-arms the receive on that reply, and then `start_secure_session()` cannot arm its own.
3. *A failed rollback may leave no command to clean up with* (`deployment_rollback`, `BrokenIsRemovable`).
   `docs/UNINSTALL.md:90` says that an installation error that reports incomplete rollback can be cleaned up with
   `goodix-force-remove`. The rollback of an update restores the software, and then removes each recovery command before it
   copies the old one back (`deployment/install.py:317`): if that copy fails, the restored driver has no such command, and a
   new installation refuses to start because the commands do not match their receipt. It is the same when the update had
   removed the old commands, could not write the new ones, and then fails to restore the software: the exchange, which
   would put them back, is skipped "to keep current rescue commands". Everywhere else, `SafeSteps` and `Outcome` show that
   installed software can be removed.

## What is not modelled, and why

- *Numerical code*: image decoding, SIGFM, the Chicago engine's preprocessing, features, overlap and matching, the vendored
  image library. Values are the point there. The engine's adaptive study is not called by the driver.
- *Byte layouts and pure validation*: A0 framing, key derivation, target and runtime material.
- *Login preparation and series*: a private interface; stock fprintd and the greeter do not call it
  (`TECHNICAL_MANUAL.md:1060`), and the tests of the production seam see it refused.
- *The installer's checks*: validation of the payload, the bundle and the system, staging, receipts byte by byte; and the
  Manager with its helper, which call the installer and keep no state. The login gate decides from one conversation and
  keeps nothing.
- *Not yet*: the seven phases of live preflight (`DeviceContext` has its outside: requests, replies and completions in any order).

## Plan

Done, in this order: `PairingRegister`, `SelfState` and its proofs, its refinement, `Pairing`, `UsbBackend`, `ImageDevice`,
`DeviceContext`, `SecureSession`, `Capture` with `PostTlsLifecycle`, `Enrollment` with `EnrollmentGraph`, `ChicagoEnrollment` and
its proofs, `Deployment`, and the proofs of the others.

Next modules, most important first:

1. `LivePreflight` — seven phases, ACK / result / OUT in any order; an abstract exchange that it and pairing provisioning
   both implement.
2. The composition of `Capture` and `Enrollment` with `DeviceContext`, in place of its `"step"` frames: what the context
   assumes of an engine is then what the engines were shown to implement.
3. `LoginGate` and the package helper, if their state warrants a model.

Proofs done: the store, its refinement and the register; the engine; `Pairing`, `SecureSession` and `PostTlsLifecycle` with the
implementation of `Capture`; `EnrollmentGraph` with the implementation of `Enrollment`; `DeviceContext` with the backend and the
framework's image device; `Deployment`.

Next proofs:

1. With the composition of `Capture` and `Enrollment` with `DeviceContext`: that the context needs no more of an engine than these
   two promise.
2. With `LivePreflight`: that it implements the exchange.

## How to run

```
tlc -workers 2 -config MCSelfState.cfg MCSelfState        (and the other .cfg files, see PROJECT.json "runs")
tlapm SelfStateProofs.tla
tlapm ChicagoEnrollmentProofs.tla
tlapm PairingProofs.tla
tlapm SecureSessionProofs.tla
tlapm PostTlsLifecycleProofs.tla
tlapm EnrollmentGraphProofs.tla
tlapm DeviceContextProofs.tla
tlapm DeploymentProofs.tla
```
