# Formal models of swpasskeyd

swpasskeyd is a FIDO2 authenticator in software: a daemon that presents itself
to the operating system as a USB HID security key, keeps passkeys in an
encrypted file (their private keys in the Secure Enclave, a TPM or that file),
and asks its user for presence before it signs. This directory holds TLA+
models of its core, configurations with which TLC checks them on small
instances, and proofs that TLAPS checks for every value of the constants.
`PROJECT.json` lists the runs, the source lines each definition stands for, the
hazards, the findings and the theorems.

To repeat a check, in this directory:

    tlc -workers 2 -config MCLoop.cfg MCLoop      # a run of PROJECT.json
    tlapm LoopProofs.tla                          # the proofs of a module

## 1. Inventory

Paths are relative to the repository.

### CTAPHID framer: `src/ctap/hid_framer.cpp`

*State*: at most one partial message (`assembly_`). *Operations*: `ingest`,
`frame`, `cancel`, `on_timeout`. *Hard*: packets of several hosts interleave on
one buffer; a host's length field and 7-bit sequence number decide when a
message is complete. *Correct when*: what `ingest` returns is exactly what one
host sent, and a message sent undisturbed is returned.

### CTAPHID device: `src/ctap/hid_device.cpp`

*State*: the table of channels (at most four, least recently used is reaped),
the framer, the time a partial message was begun. *Operations*: `ingest`
(broadcast INIT, resynchronising INIT, PING, WINK, CANCEL, and hand-over of CBOR
and MSG), `poll_timeout`. It is called by the HID thread, which tells it which
channel is in flight. *Hard*: a channel can be reaped while its request is being
handled; CANCEL must reach the request it is meant for.

### HID loop and worker: `src/daemon/loop.cpp`

*State*: under `mu_` the in-flight slot with its `CancelToken` and the outbox of
responses; the atomic `stop_`. *Threads*: `run()` (reads, writes, keepalives),
`worker_main()` (calls the authenticator, which may wait 30 s for the user), and
whoever calls `stop()` (control socket, menu bar) or `request_stop()` (signal
handler). *Hard*: this is where the threads meet. *Correct when*: each request
is answered once, no keepalive follows a response, a CANCEL never hits the next
request, no wake-up is lost, and shutdown completes.

### Authenticator: `src/ctap/authenticator.cpp`, `make_credential.cpp`, `get_assertion.cpp`, `u2f.cpp`

*State*: `next_state_` (rows copied for getNextAssertion), metrics; it works on
the store, the key backends, the PIN manager and the presence prompt, under
`op_mu_`, which the worker and the control socket compete for. *Hard*: rows are
copied and used later; a command changes several durable things one after the
other and the process may die in between. *Correct when*: the counters a relying
party sees only grow; a user has one credential per relying party; every row has
its private key.

### Client PIN: `src/ctap/client_pin.cpp`, `pin_state.hpp`

*State*: PIN hash and retries (in the store), the key-agreement key, the
pinUvAuthToken with its permissions, relying party and idle time, and the
failure delay. *Operations*: setPIN, changePIN, getPinToken (two forms),
getKeyAgreement, getRetries, `verify`, `set_pin_local`. *Hard*: a crash or a
failed write must not give a free guess; the token must go when the PIN goes.

### Credential store and its file: `src/store/credential_store.cpp`, `file_store.cpp`, `keychain*.{cpp,mm}`

*State*: the rows, the PIN state, TPM seeds and U2F attestation in memory; the
sealed file; the data encryption key (DEK) in the OS keychain or in a fallback
file. *Operations*: open, `put`, `update_count_and_used`, `erase`, `set_pin`,
`tpm_state_or_create`, `set_u2f_attestation`, `factory_reset`. *Hard*: crashes
between the steps of a mutation or reset; two keychains that can each fail.
*Correct when*: what was reported as done survives, and the file opens with the
key the keychain gives.

### Key backends: `src/crypto/*_key_backend.*`, `probe.cpp`, `tpm2_templates.hpp`

*State*: which backend the daemon runs with (chosen at every start by
`probe_key_backend`), the TPM backend's primary, made from seeds that the store
keeps, and the permanent items of the Secure Enclave in the keychain.
*Operations*: probe, `generate`, `load`, `wrap_secret`, `unwrap_secret`,
`destroy`, `destroy_secret`, `reinit_after_reset`. *Hard*: seeds are created,
flushed and thrown away by the store while the backend goes on with what it
derived from older ones; a restart may bring another backend. *Correct when*: a
stored key can be used, now and after a restart; no key of before a reset can.

### User presence: `src/ui/presence.cpp`, `presence_linux.cpp`, `presence_macos.mm`

*State*: the open question (decided or not, and how), whether its prompt is
withdrawn, the notification or the modal panel. *Operations*: `confirm` on the
asking thread; callbacks on a GLib loop thread (Linux) or blocks on the main
queue (macOS); reading a line (terminal). *Hard*: the thread that asks, the one
that shows and the user act in any order, the notification server or the main
thread may hang, and the question may be cancelled, time out, or be overtaken by
shutdown. *Correct when*: Allow means that the user approved this question;
nothing is left on the screen; `confirm` returns.

### Control server and tool: `src/ctl/server.cpp`, `src/ctl/main.cpp`

*State*: the listening socket, one connection, the stop flag. *Operations*:
serve one line per connection (`stats`, `list`, `delete`, `reset`, `set-pin`,
`log-level`, `quit`); `start`, `stop`; the client's `request`. *Hard*: one thread
serves everybody, waits for `op_mu_` behind somebody else's prompt, and is
joined at shutdown.

### Others

| component | state and operations | hard behaviour |
|---|---|---|
| HID transports (`src/hid`) | uhid, IOKit (inbox of 32 reports), socket | overflow drops the oldest report |
| Daemon start and shutdown (`src/daemon/main.cpp`, `paths.cpp`) | wiring, signals | order of shutdown, with questions open |
| Menu bar (`src/ui/menubar*`, `keys_model.cpp`) | list of keys; deletes one | calls the authenticator from the main thread |
| CBOR, authData, getInfo, hmac-secret, OpenSSL wrappers, logging | none | byte layout |

### How they interact

    host -- report --> transport -> Loop::run -> HidDevice -> HidFramer
                                       | slot, token        ^ outbox, keepalives
                                       v                    |
                                    Loop::worker_main -> Authenticator
                                                 |-> PinManager  -> store
                                                 |-> key backend
                                                 |-> presence prompt (polls the token)
                                                 `-> CredentialStore -> FilePersister -> file
                                                                     `-> keychains
    swpasskeyctl -> control server -> Authenticator (op_mu_), Loop::stop

The hazards this code is exposed to are listed in `PROJECT.json` with the
properties that would catch them.

## 2. Plan

Modules are ordered by what matters most to the user of a security key.

| | module | source | status |
|---|---|---|---|
| 1 | HidFramer, HidBus | framer, and the framer with hosts | checked and proved |
| 2 | HidDevice, Loop, Broker | device, both threads around it, and what hosts may expect of them | checked, safety and refinement proved |
| 3 | DurableStore, FileStore | abstract store, and its file and keychains | checked, refinement proved |
| 4 | ClientPin | PIN, retries, token | checked and proved |
| 5 | Authenticator, CredentialLife | credentials, counters, keys, and what a relying party may expect | checked, refinement proved |
| 6 | Keys | seeds, primary, Enclave items over restarts and resets | checked and proved |
| 7 | Presence, NotifyPresence, AlertPresence | `confirm` and its three prompts | checked, safety proved |
| 8 | CtlServer, Desktop | control socket; prompts, server and shutdown together | checked, safety proved |

Composition: HidDevice is built from HidFramer's operators and Loop from
HidDevice's, so Loop contains all three. Three abstract specifications say what
a component promises to the outside, and each is implemented by a detailed one:
Broker by Loop, DurableStore by FileStore, CredentialLife by Authenticator. ClientPin and Authenticator rest on the
promise of DurableStore, which FileStore is shown to implement; Loop's worker
abstracts Authenticator to the status it returns, the prompt it may show and the
token it polls. Keys takes over where Authenticator has one unchanging backend.
Desktop is composed of Presence, its two desktop prompts and CtlServer, with the
worker and the HID loop reduced to asking, holding `op_mu_` and ending.

## 3. Modules and runs

### HidFramer and HidBus

`HidFramer` has the methods of the framer as operators on the optional
`Assembly`: `Ingested`, `Canceled`, `TimedOut`, and `Frame`. The bytes of a
packet are one value of `Data`; how many bytes it contributes is kept. `HidBus`
is a framer with hosts that send any packets on any channel, with timeouts and
cancels; the ghost `run[c]` is what host c sent undisturbed.

* run `framer` (payloads of 2 and 3 bytes, sequence numbers 0..2, two hosts and
  the invalid channel 0, lengths around every boundary including one beyond the
  largest message): `MessageIsWhatOneHostSent`, `IntactMessageDelivered` and
  `TypeOK` with the bound on what is buffered. The scaled sizes keep the
  relation 57 + 128 * 59 = 7609 as 2 + 3 * 3 = 11. `IntactMessageDelivered`
  is an equivalence: an undisturbed message is returned exactly when it has at
  most `RecvLimit` bytes, and that is less than `kMaxMessage` (7550 of 7609, in
  the run 8 of 11), because the framer refuses the packet with the last
  sequence number.

### HidDevice and Loop

The device's methods are operators; `Loop` has a program counter per thread and
a step per critical section, write, read, or observable step of the handler.
Clock readings are abstracted: whenever the code asks whether an interval has
passed, both answers are possible. The order of channels by `last_used` is a
sequence. Every accepted request gets a number (a ghost), by which reports are
traced; a response, however many packets long, is one report.

* run `loop` (two hosts, a table of one channel so that every allocation reaps,
  messages of one and two packets, two requests): `KeepaliveNeverAfterResponse`,
  `EachRequestInOnePlace`, `CancelHitsOnlyItsOwn`, `NoLostWakeup`, and under
  fairness `RequestAnswered` and `StopCompletes`; and the refinement
  `ImplementsBroker`. Two requests are what a stale token, a late keepalive, a
  doubled response or one that overtakes another needs to show.
  `Broker` is the loop as its hosts see it: the requests taken so far, whether
  the last is still being handled, which were answered, and whether the loop is
  open. The slot maps to `busy`; the loop is open until `run()` leaves its
  main loop. That responses leave in the order of their requests is not in
  one place of the code: a second request may be accepted and handled while the
  first response is still in the outbox, or in the batch the HID thread took.
* run `loop_cancel` finds `CancelSetsToken` (DESIGN.md:224) violated: a CANCEL of
  the busy channel can be refused.

*Fairness*: weak fairness of the HID thread's steps and of the worker's. Both
are threads the operating system schedules; a wait for the user is ended by
`kUserActionTimeout`, whose expiry is a step of the worker. No user, no failing
transport and no stop is assumed.

### DurableStore and FileStore

`DurableStore` is what the daemon expects of a store: one document, replaced as
a whole; a restart sees the durable one. `FileStore` is the code: sealed file,
install id, DEK in two keychains, every mutation with its rollback or lack of
one, the five steps of a factory reset, crashes anywhere, and the faults that
`Faults` names. Encryption is by what it does: a file opens with the DEK it was
sealed under.

* run `store` (two credentials of which one fits, two values per row, one PIN,
  two installations, three DEKs; writes and the OS keychain's load and store may
  fail): `StoreReadable`, `RowsKeepPromise`, `CapacityRespected`, and the
  refinement `ImplementsDurableStore`. `OnlyResetLosesKey` is about every fault,
  which this run's bounds leave out (some violate `StoreReadable`); it was tried
  with TLC under all of them and is stated by theorem `FileStoreKeyKept`.
* run `store_reset_keychain` lets the OS keychain's delete fail too and finds
  `StoreReadable` violated.

Left out: power loss (only the process dies; rename is atomic), failing zero-fill
and unlink, `set_serial`, `clear_tpm_state`, and the byte format of the file.

### ClientPin

Requests that change nothing are not actions; a guess is several steps, because
the crash between them matters. `tries` counts, over all restarts, the wrong
guesses a PIN was compared with; `issue` records what a token was issued and
accepted for.

* run `pin` (two PINs, two relying parties, the code's eight retries, failing
  flushes): `NoFreeGuess`, `TokenForOneRp`, `NoTokenAfterChange`.
* run `pin_token_revocation` finds `TokenOfPresentPin` (DESIGN.md:1119) violated:
  the error return of a failed flush or reset skips `invalidate_token()`.

Left out: the failure delay, which only takes time, and the encoding.

### Authenticator

One command at a time, as `op_mu_` makes it, in a step per thing made durable.
`op` is the command under way with its local variables, `pending` is
`next_state_`, `keys` the private keys that exist; `Enclave` says which of them
are permanent items outside the store. Rows are ordered by clock times that can
be set, so any order is allowed and the pending list is a function on what is
left. `OtherCommand` stands for all commands that only clear the pending list:
getInfo, clientPIN, authenticatorSelection, unknown ones, and every refusal.

* run `authenticator` (three credentials with permanent keys, one relying party,
  two users, room for two rows, counters up to 2, failing flushes, keys and destroys;
  symmetric in credentials and users): `CountersGrow`, `PendingFresh`,
  `OnePerUser`, `RowsHaveKeys`, and the refinement
  `ImplementsCredentialLife`. Three credentials let one be replaced and another
  be pending, and a counter up to 2 can be sent, sent twice or go back; the
  theorems are for every bound. A second relying party would only split the rows.
  `CredentialLife` is what a relying party may expect of a credential: it is
  made once or never, answers only while it is stored and with growing counters,
  and once removed it stays removed. Where a credential stands (`Standing`) is
  read off the disk, so the refinement is about what a restart would find: a row
  that memory still or already has, because a flush failed, must not reach the
  disk with a later one. `seen` maps to `sent`, so a counter that U2F made go
  out twice (see below) does not show in it; `CountersGrow` is about that.
* run `u2f_stale_counter` finds `NoCounterReused` violated: U2F commands do not
  clear the pending list, so a counter is sent twice.

The properties name their exceptions by ghosts: `raced` (U2F used a pending
credential), `doomed` (a deletion was begun: keys go before rows, so a crash or
a failed flush leaves a row without a key). `destroy_key` ignores the results of
its calls, so the key of an erased row may stay (`DestroyKeys`); what becomes of
such keys is in Keys. Left out: parsing, attestation formats, a primary backend that differs
between restarts (see Keys), and the counter's wrap-around (`MaxCount`).

### Keys

`rows` and `tpm` are the store in memory, `disk` the document in the file,
`primary` the seeds the TPM backend's primary was made from (0 when it is shut
down), `items` the permanent items of the Enclave: a key and a secret per
credential, and the probe's own key. Seeds are numbers, drawn once; a TPM key
or secret is usable under the primary of the seeds it was made under. `op` is
the start, command or reset under way, one step per thing made durable or
destroyed; the process may end at every step and start with another preference,
or fall back to software keys. Cryptography is by what it does, and TPM templates, sessions
and persistent handles are left out.

* run `keys` (three credentials, four sets of seeds, every backend, build and
  preference; flushes, hardware calls and deletions may fail):
  `SessionKeysUsable`, `KeysSurviveRestart`, `OldSeedsDead`, `ItemsAccounted`,
  `OrphansStay`.
  Three credentials let one be replaced, one stay and one be new; four sets of
  seeds are two resets with a failed one between.

Exceptions are ghosts again: `doomed` (its deletion began), `leaked` (items whose
owner was given up by a failing call, a crash, or a daemon without the Enclave)
and `astray`. A key is astray when it was made after a reset that failed in the
store or in flushing the new seeds: the backend then still has the primary of
the old seeds, and the key works until the daemon ends and is lost then.

`leaked` is permanent because the leak is: `OrphansStay` says that no step of any
later process deletes an Enclave item that has no row. `cmd_reset` destroys by the
rows of the store (`authenticator.cpp:222`), while DESIGN.md:685 says "Factory
reset iterates all tags with label `swpasskey` in our access group". A reset that
did so (the defective variant `SeDestroyByLabel`) would violate `OrphansStay`.

### Presence, NotifyPresence, AlertPresence, CtlServer and Desktop

`Presence` has what the prompts share: the question (`req`, `decided`,
`decision`), the waiting thread (`wpc`) and what ends its wait, the terminal
prompt, and the stages of shutdown (`ending`). `NotifyPresence` adds the GLib
loop thread with its queue of idle callbacks and the notifications that exist;
a call to the notification server is two steps, so it may take any time.
`AlertPresence` adds the main thread: its queue, the modal sessions, which
service that queue and can nest, the timer that ends the main loop, and the
deletion of the menu bar. `CtlServer` adds the serving thread, its connections
and clients. `Desktop` joins them; the prompt is chosen in the initial state as
`make_presence` does.

Clock readings are abstracted as in Loop. The text of a prompt is the number of
its question, so that `by`, a ghost, tells which question the user meant.

* run `presence` (both desktop prompts and the terminal, two questions of the
  worker and one call of a control client): `AllowAnswersOwnPrompt`,
  `OnePromptAtATime`, `NothingLeftBehind`, and under fairness `ConfirmReturns`,
  `ControlThreadFree`, `ShutdownCompletes`, `MenuNotStuck`. Two questions and
  one of the client are what a late answer needs; a second client adds only
  waiting. Deadlock is not checked, since the daemon ends.
* run `presence_late_prompt` (the panel, two questions) finds `OwnPromptDecides`
  violated: the end of a panel that outlived its question decides the next one.
  With `Desktops = {"notify"}` it is violated as well.

`presence_macos.mm:254` says that a late block can never decide a newer request.
The check of `generation_` is made when the block begins; if its panel is still
open when `confirm` gives up after `kTeardownTimeout`, the end of that panel
decides the next question. The Linux prompt is in the same position when the
notification server holds the loop thread for more than `kTeardownTimeout`: the
notification is still shown and its callbacks are those of the next question,
against `presence_linux.cpp:275`. `AllowAnswersOwnPrompt` says what is left: an
approval is for the question asked unless that question began with an earlier
prompt still to be seen, or with a line waiting on the terminal (`excused`). Both
ghosts are set anew by every question: `late`, which `OnePromptAtATime` and
`NothingLeftBehind` except, says that something of an earlier prompt was left
when it began, or that its own was not withdrawn in time. A callback that is
only queued, or a notification being closed, excuses no wrong approval.

*Fairness*: weak fairness of the asking thread (all its waits have a deadline),
the control thread, the HID threads at shutdown, and the main thread's share of
it (its timer, the end of a panel, the return of `ctl_delete`). Not fair: the
user, the host, the clients, the notification server and the main queue, so
`ConfirmReturns` holds though nobody ever reacts. `ShutdownCompletes` has two
parts. Whatever the server does, `main()` gets past the HID loop, its own loop
and the control thread. The end of the process needs more, since
`~NotifyPresence` joins the GLib thread, which may be in a call to the
notification server: it follows if the calls end, and is stated under weak
fairness of that thread (`NotifyServed`), which D-Bus gives by ending a call
that is not answered. Without that assumption TLC finds the join never to end.

What holds only with the exceptions the properties name, and is worth knowing:

* The terminal prompt does not drain its input: a line typed earlier answers.
* A deletion from the menu bar blocks the main thread while a question is open,
  so the panel cannot be shown or answered; only the deadline ends this.
* A client of the control socket gives up after 60 s; what it asked for is
  carried out all the same when its turn comes.

Left out: a client that sends one byte every few seconds, or never reads a reply
larger than the socket's buffer, can hold the serving thread; clients here send a
line or nothing. The error of `notify_notification_close` is ignored by the code;
then the notification may stay visible, but its object is gone and it cannot
call back, so `screen` is the notifications that can still answer. That a modal session services the main queue, and that idle
callbacks of one priority run in order, is taken from AppKit and GLib as the
comments in the source state it.

## 4. Findings

| run | what the code does |
|---|---|
| `framer` (`IntactMessageDelivered`) | refuses messages of 7551 to 7609 bytes, whose last packet has sequence number 127 |
| `loop_cancel` | refuses a CANCEL of the busy channel while another channel's message is partial, or when the busy channel was reaped |
| `store_reset_keychain` | after a reset with a failing OS keychain, a restart finds the old DEK and cannot open the store |
| `pin_token_revocation` | keeps a token over a PIN change or reset that failed half way |
| `u2f_stale_counter` | sends a counter twice when a U2F command comes between getAssertion and getNextAssertion |
| `keys` (`OrphansStay`) | leaves Enclave items that have no row in place over every factory reset |
| `presence_late_prompt` | lets a panel or notification that outlived its question decide the next one |

Two of them are stated in a passing run, by a property that says what the code
does where a comment or document says otherwise; the others are runs in which
the documented property is violated.

## 5. Proofs

Every module of proofs extends its component's module. The theorems hold for
all values of the constants that meet the named assumptions, which say that
sizes are natural numbers, sets of special values are disjoint, and `Faults`
contains known faults; TLC evaluates them in the runs.

| module | theorems | inductive invariant, and why |
|---|---|---|
| HidFramerProofs | lemmas on `Ingested`, `Frame` and `Capacity` | used by the next two |
| HidBusProofs | `HidBusTypeOK`, `HidBusReassembly`, `HidBusDelivery` | the partial message, framed again, is its host's run so far and lacks bytes; a run yet to be completed is the partial message |
| LoopProofs | `LoopTypeOK`, `LoopOnePlace`, `LoopKeepalive`, `LoopCancel`, `LoopNoLostWakeup`, `LoopImplementsBroker` | the slot is taken exactly while the worker has the request; a cancelled token belongs to the request in the slot or to a stop; keepalives under way are for requests in the slot or the outbox; for the refinement `OrderInv`: every answered request is earlier than those in the batch being written or dropped, these are earlier than those in the outbox, each list ascends, and nothing is dropped while the loop is open |
| FileStoreProofs | `FileStoreRows`, `FileStoreTypeOK`, `FileStoreCapacity`, `FileStoreKeyKept` for all faults; `FileStoreReadable`, `FileStoreRefines` if no keychain delete, fallback file or CSPRNG fails | memory keeps the promise too, the DEK a process writes with is the one a restart would load, and unused install ids have no DEK; for `FileStoreKeyKept`, `DrawnInv`: an install id that was not drawn yet is in no file and has no DEK in the OS keychain |
| ClientPinProofs | `ClientPinTypeOK`, `ClientPinNoFreeGuess`, `ClientPinTokenForOneRp`; `ClientPinTokenFresh` if no reset fails | wrong guesses plus retries left never exceed the maximum, in memory and on disk, and are one less before a comparison |
| AuthenticatorProofs | `AuthenticatorTypeOK`, `...CountersGrow`, `...PendingFresh`, `...OnePerUser`, `...RowsHaveKeys`, `AuthenticatorImplementsLife` | memory and disk hold the same rows but for counters; copied rows equal stored ones; what was sent is covered on disk and a waiting response is ahead of it; the ids of new credentials are new; before a row is put its user's other rows are doomed; for the refinement `Answerable`: a response about to be sent with user presence is for a row on disk |
| KeysProofs | `KeysTypeOK`, `KeysRestart`, `KeysOldSeedsDead`, `KeysItemsAccounted`, `KeysOrphansStay`, `KeysUsable` | `KeysInv`: memory and disk agree but for seeds not flushed yet; the primary is that of the store's seeds, or a reset failed and every TPM row was made under it; a key under way has its items and an unused id; items that outlive their row are leaked |
| DesktopProofs | `DesktopTypeOK`, `DesktopAllow`, `DesktopOnePrompt`, `DesktopClean` | `PromptInv`: the idle callbacks are alternating shows and closes and a notification exists only between the two; a decision names the prompt it was given to, which is that of the open question unless an earlier one was still to be seen; `CtlInv`: the serving thread has a connection while it serves, and holds `op_mu_` only while it asks |

The invariants were first checked with TLC on the instances of the runs.

A refinement is proved in three parts: the initial states map to initial
states; under the inductive invariant every action maps to a step of the
abstract specification or a stutter, one lemma per action or group of actions;
and temporal logic puts them together. `FileStoreKeyKept` needs no fault to be
excluded: outside a reset a DEK is stored, and reported as stored, for a newly
drawn install id before anything is sealed under it, and none is deleted.

Only model-checked: liveness under fairness (`RequestAnswered`, `StopCompletes`,
`ConfirmReturns`, `ControlThreadFree`, `ShutdownCompletes`, `MenuNotStuck`), which
is out of the prover's reach. No module uses a RECURSIVE operator.

## 6. Not modelled

HID transports: I/O on descriptors and IOKit callbacks; Loop has what it sees of
them. The IOKit inbox drops the oldest of 32 reports; in HidBus a host may leave
packets out, and the framer refuses the gap where the sequence numbers show it,
but packets lost from the middle of one message to the middle of another, with
numbers that fit, are not modelled. Start of the process (options, paths,
serial number) and the menu bar's windows: wiring and display. The control
server's JSON and the texts of its replies. CBOR, authData, getInfo, hmac-secret and the
cryptography are functions of bytes without state; the repository tests them
with golden values. Metrics and logs are left out everywhere. A response larger
than `kMaxMessage`, for which `frame` returns nothing, is not modelled: `Loop`
takes every response to be framed.
