# A TLA+ model of ppp-pam

ppp-pam logs users in with one-time passcodes that they read off printed cards.
It is a PAM module (`ppp/pam_ppp.c`) and a command line tool, `pppauth`
(`ppp/pppauth.c`), over one library (`ppp/ppp.c`, `ppp/keyfiles.c`), and they
meet in three small files of the user's home directory.  Under them are a big
integer library (`mpi`), AES (`rijndael`) and SHA-2 (`sha2`).  This directory
holds the TLA+ modules that model them, the TLC configurations that check the modules
on small instances, and the TLAPS proofs of what holds on every instance.

Paths below are relative to the repository's root, and to `ppp/` for the C files.

## The system

| part | state | operations |
|---|---|---|
| state files (`keyfiles.c`) | `key`, `cnt` (next passcode number), `gen` (last card printed), `lock` | `readKeyFile`, `writeState`, `writeKeyFile`, `doLocking`, `doUnlocking` |
| PPP core (`ppp.c`) | process statics: `d_seqKey`, `d_currPasscodeNum`, `d_reserved`, `d_reservedPasscodeNum`, `d_lastCardGenerated`, `_ppp_flags`, `_key_ver` | `reservePasscodeNum`, `pppAuthenticate`, `currPrompt`, `getPasscode`, `getPasscodeBlock`, `pppWarning`, key generation |
| PAM module (`pam_ppp.c`) | options `enforced`, `nolock`, `secure`, `show`, `noshow` | `pam_sm_authenticate`, `pam_sm_open_session` |
| `pppauth` (`pppauth.c`, `cmdline.c`) | the options of the command | `--key`, `--passphrase`, `--skip`, `--next`, `--text`, `--latex`, `--html` |
| card printers (`print.c`, `latex.c`, `http.c`) | none; `http.c` a socket | `printCard`, `latexCard`, `httpServe` |
| `mpi` | numbers: sign, digits in use, storage | arithmetic, comparisons, conversions |
| `rijndael`, `sha2` | round keys; the context of a digest | key schedules, blocks, digests |

Every login is a process: it loads the files into the statics of `ppp.c`, moves
the counter, and writes the files back.  `pppauth` does the same.  No process
talks to another one; they interact through the files and, for logins, through
the POSIX lock on `lock`.

What is hard here, and what the properties are about:

* **interleaving**: logins of one user run in parallel, and `pppauth` beside
  them without the lock.  The passcode must be reserved (the counter written)
  before the prompt is shown;
* **faults**: the lock is given up after twenty tries, files may fail to open,
  a process may be killed between the truncation of a file and the write;
* **formats**: files of three generations are read into one buffer that is not
  cleared between files, and upgraded one file at a time;
* **two flavours of counting**: with a reservation, and with `--dontSkip`
  without one, through the same `pppAuthenticate`;
* **arithmetic**: sixteen passcodes out of three cipher blocks, cards that
  begin anywhere in such a group, a plaintext that wraps;
* **bookkeeping**: which cards are on paper, what the user is warned of;
* **a library in a long-lived process**: the PAM functions share static
  variables, and none of them knows what the calls before it left;
* **numbers in place**: results of big integer calls may be their operands, and
  every call relies on the zeroes that the calls before it left in storage.

`PROJECT.json` lists each of these at its line (`hazards`), with the properties
that cover it or the reason why none does.

## The modules

| module | models |
|---|---|
| `StateFiles` | the formats of the files; what `readKeyFile` makes of its buffer (`PppVersion`, `PppFlags`, `ReadData` for `_ppp_version`, `_ppp_flags`, `_read_data`) |
| `PamSession` | logins in parallel: `pam_sm_authenticate` from its start to its verdict |
| `OneTimeCounter` | what logins promise, without files, locks or faults |
| `MCPamSession` | instances of `PamSession` |
| `Passcards` | numbers, cells, cards, groups and bytes of the key stream; the remaining count and the thresholds of the warnings |
| `Pppauth` | `pppauth --skip` and `--next` with `--text` and `--latex`, over `Passcards`, with logins in between or beside |
| `MCPppauth` | instances of `Pppauth` |
| `PamModule` | the PAM entry points called one after another in one process |
| `CommandLine` | the options of `pppauth` and which combinations are accepted |
| `KeyTool` | runs of `pppauth` from the command line to the exit, over `CommandLine` and `StateFiles`: keys, temporary keys, skips, paper, the HTML server, kills |
| `CardBook` | what the tool and the logins promise to whoever carries the cards, without files |
| `MCKeyTool` | instances of `KeyTool` |
| `MpiDigits` | the `s_mp_` functions of `mpi.c`: magnitudes, digit by digit |
| `MpiNumbers` | signed arithmetic on named numbers, any of which may be the result |
| `MpiDivision` | squares, long division, residues, arithmetic modulo a number |
| `MpiConversions` | conversions from and to machine integers, bytes and text |
| `MpiTheory` | powers, roots, powers modulo a number, greatest common divisors, inverses |
| `MpiCalls` | sequences of the calls of the first four of these |
| `Mpi`, `MCMpi` | sequences of all calls on shared numbers, and their instance |
| `Words`, `Sha2`, `Rijndael` | words as bytes; the four digests; the cipher |
| `KeyStream`, `MCKeyStream` | passcodes from passphrase to paper, over all of those; test vectors |
| `Loops` | C loops as operators |
| `PamSessionProofs` | proofs about `PamSession` |
| `PppauthProofs` | proofs about `Passcards` and `Pppauth` |
| `PamModuleProofs` | proofs about `PamModule` |
| `KeyToolProofs`, `KeyToolBookProofs` | proofs about `KeyTool`; that it implements `CardBook` |
| `MpiProofs` | proofs about `MpiDigits` and `MpiNumbers` |
| `MpiDivisionProofs` | proofs about `MpiDivision` |
| `MpiCallsProofs` | proofs about `MpiConversions` and `MpiCalls` |

The same code is seen at different distances.  `PamSession` and `Pppauth` are
about what several processes do to the files, and take integers for numbers and
names for bytes.  `KeyTool` takes a card for one thing.  `KeyStream` and `Mpi`
look at the numbers and bytes themselves, in one process.

### PamSession

One session is one process that authenticates once.  Its steps are the stretches
of code between two operations on shared state:

| action | code |
|---|---|
| `NotConfigured`, `Begin` | the existence checks of `readKeyFile`, and the opening of the key file |
| `TryLock`, `LockBusy`, `GiveUpLock`, `OpenLockFails` | `doLocking` |
| `ReadKey`, `ReadCnt`, `ReadGen` | the three `fread`s; `ReadGen` goes on through the `secure` option and `reservePasscodeNum` up to `writeState` |
| `Inconsistent`, `OpenReadFails` | the `error` label of `readKeyFile` |
| `TruncKey`, `FlushKey` | the upgrade of a key file without flags in `writeState` |
| `TruncCnt`, `TruncGen`, `FlushCnt`, `FlushGen` | `writeState`; `fopen` truncates, `fclose` writes |
| `OpenKeyFails`, `OpenCntFails`, `OpenGenFails` | its failing `fopen`s; its result is ignored by the callers |
| `Unlock`, `UnlockFails` | `doUnlocking`, then `currPrompt` |
| `Answer`, `NoResponse` | the conversation, `pppAuthenticate` and the `writeState` it may start |
| `Crash` | the process is killed; the kernel drops the lock, stdio's buffer is lost |

`mem[s]` holds the statics and the locals of `readKeyFile`, `prompt[s]` what
`currPrompt` put into `d_prompt`, `verdict[s]` the return value.  `lockless` is
a history variable.  A file is a record of format, version, flags and number.
Answers are abstracted to "the passcode of the number asked for" and "anything
else": two different numbers are taken to have different passcodes, though in
the code they collide with probability 2^-24.

The options of the module and the classes of faults are constants, so a run or a
theorem says which ones it is about.  `Disciplined` names the ones under which
the reservation is promised: the lock is on and is obtained, I/O does not
fail, no session is killed inside `writeState`, the user has files and either
the option `secure` or no `dontSkip` flag in the key.

### Pppauth

A run reads both counters (`Open`), may skip (`Skip`, `SkipRefused`), and prints
page after page (`StartCard`, `NextPasscode`, `PrintCard`), calling `writeState`
after the skip and after each page (`WriteCnt`, `WriteGen`).  `paper` collects
the printed cells with the bytes that make up their passcodes.  The bytes are
named by their place in the key stream (plaintext block and index), which is
what AES, a permutation, lets one say about them.  A login is a read of both
counters and, later, a write of both.  `Concurrent` says whether logins
overlap runs of the tool.  Truncation windows are left to `PamSession`.

### PamModule

One process, many calls, several users.  `conf[u]` is what user `u` has in
`~/.pppauth`: how far `readKeyFile` gets with it, flags, version, and how many
printed passcodes are left.  The other variables are the static variables of
`ppp.c` and `keyfiles.c`: `fname` (whose file names are cached), the four
buffers, each `null`, `allocated` or `freed` (`ptr`), the big integers, the flags,
the key's version, `warnNum`.  `broken` is a history variable: what `free` was
given that it must not be; from then on the process may die (`Abort`) or go on.

| action | code |
|---|---|
| `Enter` | `pppInit`, `setUser` |
| `ReadMissing`, `ReadBadHeader`, `ReadBadCounter`, `ReadWhole` | `readKeyFile`, by how far it gets |
| `Reserve`, `Prompt`, `Answer` | the rest of `pam_sm_authenticate` |
| `Warn` | one turn of the loop over `pppWarning` |
| `Cleanup` | `pppCleanup` |
| `UserEdits` | users run `pppauth`, or log in elsewhere, between two calls |

### KeyTool

A run of `pppauth` starts with any command line that `CommandLine` accepts and goes
through `main` in its order: key, passphrase, skip, print, serve.  `m` is what
the process has in memory.  The files are written one `fopen` and one `fclose`
at a time (`todo`, with `back` for where the run goes on), so a `Kill` leaves
what the code would leave.  `paper` holds the cards people have, each named by the
key and the alphabet it was made with; `sent` are the pages of the run so far, in order, each
by its first card.

What a run sends is worked out in `main` and in `httpProcess` from two numbers: the
last card on record, which each page moves and each `writeState` saves, and `cardNum`
of the command line.  `PrintsWhatWasNamed` compares `sent` with the options and the
*files*: the pages start at the card named by `--card`, or with `--next` at the first
that was not on record, follow each other without gap or repetition, are of the
key in the key file (or of the passphrase) and in the alphabet asked for, and are all
there when the run ends by itself.  It holds after every accident but one: after a declined
overwrite the pages are of a key that is not in the file, which is the
subject of `tool_declined`.

Some things a user may do break the agreement of paper and counters by design or
by the code's fault.  They are `accidents`: declining to overwrite the key in a
command that goes on, skipping with a temporary key, printing with an alphabet
of one's own, a browser that loses the page, a kill.  The properties about paper
and numbers are stated for behaviours without one, the others for all.

`CardBook` is the same without files: one key, the next number, the last card on
record, the cards on paper, and steps that change them together.  Under the
mapping `Book` the tool's memory stands for the files while it rewrites them, so a
step of `CardBook` is taken when `writeState` or `writeKeyFile` is called, or when
a page is printed that is not recorded, and every `fopen` and `fclose` is a stutter.

### The big integers

A number is a record of sign, digits in use, storage and digits.  `MpiDigits`
translates the functions on magnitudes digit by digit: a recursive function over the
digits carries what the C loop carries.  In `MpiNumbers` a call is an operator
from a memory (a function from names to numbers) to a memory, so that every
choice of operands and results, equal ones included, is a call, and each
function's own rule for copies is kept.  `MpiCalls` makes the calls of `MpiNumbers`,
`MpiDivision` and `MpiConversions` in
sequence, from numbers as `mp_init_size` leaves them (`ArithmeticSpec`); `Mpi` makes
those of `MpiTheory` too, from numbers as `mp_set_int` leaves them (`Spec`).  `val` holds the
integers that the comments of `mpi.c` promise.  A C loop that runs until
something happens is a recursive function on a number of turns that is enough, which after
the end of the loop changes nothing: in `Divide` the digits of the dividend, in `BackOff` the
guess, in `RadixDigits` the bits of the number.  That it is enough is part of the proofs.
`MpiTheory` has recursive operators instead, and those of `Loops`.

The storage of a number is part of the model.  `s_mp_mul_d` may write one digit
beyond it; `overrun` records that, and nothing is said of what follows.
Multiplication of 16-bit digits is taken to wrap around, as all builds do it.

Where a function does not keep its comment for some arguments, the guard of
its action leaves them out: quotients of negative numbers by a digit that is
no power of two (`mp_div_d`), signs of powers (`mp_expt`, whose test
for the sign of the result is the wrong way round, and `mp_exptmod_d`), powers
modulo 1, `mp_xgcd` and `mp_invmod` with negative numbers or zero, results that
are the modulus.  None of these is called by `ppp` with such arguments.

### The key stream

`KeyStream` makes a sequence key of a passphrase, and cards of the key, as
`ppp.c` does it: with the numbers of `MpiNumbers`, the digests of `Sha2` and the
cipher of `Rijndael`, all computed in TLA+ on words that are sequences of bytes.
The tables of AES are stated as the substitution and its products; they were
compared with those in `rijndael.c`, as were the constants of `sha2.c`.

## What TLC checks

| run | instance | properties |
|---|---|---|
| `pam_locked` | three sessions, one may be killed, all three legacy formats, `secure`, no I/O faults | `TypeOK`, `NoSharedReservation`, `ShownIsSpent`, `QuietFilesAgree`, `ConfiguredUserIsAsked`, `WritesUnderLock`, `ImplementsOneTimeCounter` |
| `pam_faults` | two sessions, every fault, all formats and none, `dontSkip` or not; one session may stop for good | `LockNeverLeaks`, `ReservedOnlyWhenSkipping`, `FailureSpendsNothing`, `EveryLoginProceeds` |
| `pppauth_text` | runs of the tool and logins around the edge between card 1 and card 2 | `TypeOK`, `PrintedOrWarned`, `NumbersAskedOnce` |
| `pppauth_latex` | one page of six cards, after a skip or not, over the wrap of the plaintext | `PaperAnswersPrompts`, `NoByteTwice` |
| `pam_module` | one process, two users, two calls, one change of a user's files, `secure` | `TypeOK`, `SessionIsTold`, `KeyLeavesMemory`, `SecureAlwaysReserves`, `FreesOnceInACall`, `SessionEnds` |
| `tool` | two runs with any command line, from no files or files of each older release, two keys, a temporary one, logins, one kind of accident | `TypeOK`, `PaperOrWarning`, `AskedOncePerKey`, `TemporaryKeyNotSaved`, `PrintsWhatWasNamed`, `RecordedWhenSent`, `KeySurvivesCounterWrites`, `ImplementsCardBook` |
| `mpi` | digits of two bits; one call on every pair of six numbers with a third one, in full or spare storage; two calls in a row on small numbers | `TypeOK`, `Values`, `Canonical`, `CleanAbove`, `OverrunOnlyTimesDigit`, `Comparisons`, `Answers` |
| `key_stream` | twelve cards of the test vectors, four digests in pieces, six blocks | `PassesTestVectors`, `PrintedAsVerified`, `PrimitivesRight` |

Bounds, and why they are enough.

* Three sessions: the lock has an owner, a waiter, and a session that was
  prompted earlier, which is what a shared number needs; sessions are alike, so
  `pam_locked` uses symmetry.  `pam_faults` checks liveness and uses none, and
  two sessions.
* `MaxTries = 2` for the code's 20: a first try, after which the session is
  known to have opened the lock file, and a last one.  More tries only repeat
  `LockBusy`.
* `MaxCrashes = 1`: what matters about a killed session is what it leaves
  behind for the others.
* `StartCnt = 5`, `StartGen = 0`, `KeyNum = 1000` are different numbers, and
  different from the flag words 0 to 3, so that a number taken from the wrong
  file or the wrong column shows.
* `Modulus = 256` for 2^128, `KeyOffset = 200`: a card takes about fourteen
  blocks, so a page of six wraps in the middle; 256 blocks hold 1,365 passcodes,
  more than any instance prints, as 2^128 blocks do.
* `SkipTargets = {69, 140}`: the last cell of a card and the first one of
  another.  `MaxCnt` stops the logins one or two past the edge.
* `pam_module`: two calls are what a second free, flags left behind and a
  cached file name need; `StartLeft = {0, 15, 71}` are the counts on either side of a threshold
  once a login has spent one.  The theorems hold for any number of calls.
* `tool`: two runs, the second of which reads what the first left; one
  kind of accident at a time, as two of them explain each other's effects;
  targets at the first and second cell of card 2, and logins to just before and
  onto it.
* `mpi`: two bits to a digit and 0 to 63 for most values give one to three digits, and
  all the carries, borrows and wrong guesses of a division that there are; the third
  number is longer than both.  `CharBit = 1` keeps two characters to a digit, as
  the build has with 16-bit digits.  The build's 16 bits are not needed for any case
  in the code.
* `key_stream`: digits of 8 bits where the build has 16, so that TLC, whose integers
  have 32 bits, can multiply them.  The cards are the ones the repository has
  vectors for, whole for the first and three rows for those around 2^16, 2^32,
  2^64, 2^96 and 2^112.  The sizes of the pieces (1, one word, and the longest
  that still has its padding in the same block) put the end of a message on both
  sides of each boundary.

`CHECK_DEADLOCK FALSE` in all configurations: sessions end, the tool exits, a
sequence of calls is over.

Fairness: `WF_vars(Run(s))` for the sessions in `Running`.  `Run(s)` are the
steps a process takes by itself, without waiting for a user or for another
process (`F_SETLK` does not block), so the scheduler alone justifies it.
Nothing makes a user start a login or answer a prompt.  In `pam_faults`
only one of the two sessions is in `Running`: the other may stop with the lock in its
hands, and the first gets to its prompt all the same.  In `pam_module`,
`WF_vars(Warn)`: a turn of the loop of `pam_sm_open_session` shows a message and
waits for nobody.

Each property has a mutant of the code that breaks it in its run; the mutated
definitions stand before the real ones and are marked "Variant".

### What the code does not keep

Four runs check a sentence of the repository against the code, and TLC finds
it violated.

* `pam_no_warning`: `keyfiles.c:488` stores the result of `doLocking` (1 for
  success) in `lockingFailed`.  A session without the lock does not show
  "(no lock)".
* `pam_torn_upgrade`: a session killed while it rewrites a legacy key file
  leaves an empty key file; later logins return `PAM_IGNORE`, which the README
  promises only for users without `~/.pppauth`.
* `pppauth_race`: `pppauth` writes back a counter it read before printing; the
  login in between is undone and its number asked for again.
* `tool_declined`: whoever answers "no" to the question before a new key is
  told that the old passcards can be used on; the same command may then write the new
  key's counters over the old one's.

Others came up while modelling, and are in `PROJECT.json` (`findings`) or here,
without a run of their own.

* `reservePasscodeNum` (`ppp.c:558`) ignores a failing `writeState`: two users
  are asked for the same number.
* `--next --latex` prints six cards and records one (`pppauth.c:196`).  Without
  `--card` or `--next`, `--latex` prints cards 1 to 6.
* `pppCleanup` keeps pointers it freed, and a later call in the process frees
  them again; a second user in one process gets the first one's files
  (`keyfiles.c:82`); `open_session` returns without cleaning up when the files
  cannot be read.
* `--passphrase` with `--skip` writes counters that belong to the temporary key,
  with `--useVersion` in files whose versions then disagree.  `--alphabet` has no
  effect with `--key`, and without it prints cards that nobody can log in with.
* A request to the HTML server that is not a GET, or for a path of the wrong length, gets
  two status lines.
* Killed between truncation and writing, a new key leaves files that read as a zero
  key of version 1, and not as "invalid" (`pppauth.c:57`).
* `s_mp_mul_d` may write one digit beyond the storage (`mpi.c:3204`): reading a
  384-bit key in radix 62 gets there.  `mp_div_d`, `mp_mod_d`, `mp_expt`,
  `mp_exptmod`, `mp_exptmod_d`, `mp_xgcd` and `mp_invmod` do not keep their
  comments for the arguments named above; a quotient digit may be backed off up to
  RADIX - 2 times, not once or twice (`mpi.c:3660`); `mp_set_int` takes `abs` of
  a `long`; `mp_read_radix` in radix 64 takes a leading "+" for a sign although
  it is the digit 62; `mp_radix_size` rounds, and may be one short where its caller adds
  to it.

One fault is left out of these runs because no sentence of the repository is
about it: a session killed between `TruncCnt` and `FlushCnt` leaves an empty
counter file.  The next login decodes what its buffer holds, the text of the
key file, and the counter jumps to the number of the sequence key, which no card
answers; the user needs `--key`.  `TornWrites` is the constant that admits
this, and `Disciplined` excludes it.

## What TLAPS proves

For every set of sessions, every option, fault and bound:

* `TypeCorrect`: `TypeOK`.
* `FaultTolerant`, `ReservationStands`, `WrongAnswersSpendNothing`:
  `LockNeverLeaks`, `ReservedOnlyWhenSkipping`, `FailureSpendsNothing`.  `LockNeverLeaks` alone is not inductive: that
  `AfterWrite` goes back to `unlock`, and not to the end with the lock held,
  depends on the owner having no verdict.  `FaultInv` adds that the owner has
  none, and that a session that has not read all files holds no reservation.

For every set of sessions under `Disciplined`:

* `SessionInvariant`: `SessionInv` is an invariant.  It is the conjunction of
  `LockIsCritical` (the lock is held exactly in the critical section),
  `FilesAtRest` (while nobody rewrites them the files agree), `NothingMissing`,
  `ReadsWhole`, `Reserves`, `Rewrites` and `Prompted` (what a session remembers at each
  position, and how the files look under its hands), `ShownBelowReserved` (a
  number shown is below every reservation not yet shown), and the two
  properties.  `NoSharedReservation` needs the order: a new reservation is the
  counter's value, which is above everything shown (`ShownIsSpent`), and the counter is
  above everything shown because reservations are made one at a time.
* `ReservationsAreDistinct`, `ShownNumbersAreSpent`, `QuietFiles`,
  `UsersAreAsked`, `OwnersWrite`: the properties of `pam_locked`, from it.
* `SessionsImplementCounter`: the sessions implement `OneTimeCounter`.  A
  number is spent at `TruncCnt`, asked at `Unlock`, judged at `Answer` or
  `NoResponse`; every other step is a stutter.

About passcards, for every modulus and offset:

* `CodesNameCells`: numbers and cells name each other; `RemainingCountsCards`:
  the remaining count is positive exactly up to the last recorded card;
* `KeyStreamUsedOnce`: different numbers below `MaxPasscodes` are made of
  different bytes of the key stream.  A passcode is three consecutive bytes of
  the stream (`PasscodeBytes`), and the stream has no byte twice before it wraps;
* `PppauthTypeCorrect`, and `PaperIsRight`: what is printed in a cell is the
  passcode the prompt for that cell expects, by the loop invariant `LoopInv` of
  `getPasscodeBlock` and `Position`;
* `StreamPrintedOnce`: while the printed cards stay within `MaxPasscodes`
  (`WithinStream`), `NoByteTwice`.  It needs `PaperIsRight` to turn what is on paper
  into places of the stream, and then `KeyStreamUsedOnce`;
* `AskedOnce` and `PaperOrWarned`: without `Concurrent`, `NumbersAskedOnce` and
  `PrintedOrWarned`.  The strengthening ties the counter in the tool's memory to
  the one in the files: they differ only between a skip and its `WriteCnt`,
  and then the one in memory is ahead; and the last card recorded, in memory
  or in the files, is on paper or before the card of the counter.

About the module in one process, for any users, options, calls and edits
(`PamModuleProofs`):

* `ModuleTypes`, `AuthenticateLeavesNoKey`, `SecureReserves`;
* `SessionsAreTold`: `SessionIsTold`.  The invariant says what was said after
  each turn, `warnNum` turns being done, and that `warnNum` is 0 outside the loop, which
  is where it would fail if one path left the loop early;
* `CallsFreeOnce`: `FreesOnceInACall`.  No buffer is
  `freed` in a first call, nor in one after calls that all failed to read:
  buffers come to exist in `ReadWhole` and later.

About `pppauth`'s runs, with kills and accidents (`KeyToolProofs`), from
`ToolInv`, the conjunction of `Shape` (what each position of a run says about its
options), `KeysApart` (random keys and the temporary one differ), `KeySpared` (a key file
with flags is among the files to write only if a new key was asked for), `Asked` and
`KeysCounted`:

* `TemporaryStaysTemporary`: the key file never holds a temporary key.
  `writeState` writes the key in memory when the flags in memory lack
  `present`; a run with a temporary key has set them with the key;
* `KeyFileSpared`, and `RecordsWhatItSends`, which needs
  that the server is reached by a request for the secret path only (`Served`).

About the same runs, what they leave on paper (`KeyToolBookProofs`), from `Typed`
(types, and `Excused`: a run whose options excuse something is of an instance that admits
the accident) and `BookInv`:

* `ToolTypeCorrect`: `TypeOK`.
* `AskedOnce` and `CardAtHand`: `AskedOncePerKey` and `PaperOrWarning`.  Neither is
  inductive, because both speak of the files and a run may have half of them written.
  `BookInv` says, as long as there is no accident: `Agree`, the files agree
  when nobody writes; `Loaded`, memory is what the files say when a run is about to skip or print;
  `Writing`, while they are written, the operations left over will make the files what
  is in memory; `Unasked`, a new key has no numbers and no cards behind it; `Below` and
  `OnPaper`, all numbers asked are below the next one, and the cards
  from that of the next number to the one on record are on paper.
* `ToolImplementsBook`: `ImplementsCardBook`, that until there is an accident every
  step is one of `CardBook`.  `StepKept` goes through the actions once, and shows for
  each of them both that `BookInv` is kept and which step of `CardBook` it is.
* `AccidentFree`: behaviours without an accident implement `CardBook` whole.
* `OnlyWhatWasNamed`: `PrintsWhatWasNamed`, with every accident.  `SentInv` strengthens
  it from the ends of pages and writes to every step: `InOrder`, the pages so far are
  those up to the last card in memory, or from the card named on; `Counted`, they and those left are as
  many as were asked for; `Chosen`, key and alphabet in memory are those named from
  where they are first used; `Kindred`, the memory is in the files, or will be when the
  operations left over are done, also when the files are of another release.  `Kindred` does
  not ask for agreement of the files, so that no kill or short reading breaks it.

About big integers (`MpiProofs`, `MpiDivisionProofs`, `MpiCallsProofs`), for every radix, precision, length of the numbers and
number of calls, for every choice of operands and results among the numbers:

* `NumbersTyped`, `CallsCompute`, `ResultsCanonical`, `StorageClear`,
  `StorageSuffices`, `ComparedRight`, `AnswersRight`: `TypeOK`, `Values`, `Canonical`,
  `CleanAbove`, `OverrunOnlyTimesDigit`, `Comparisons` and `Answers` of `ArithmeticSpec`.

None of them is inductive alone.  `s_mp_cmp` looks at the count of digits first, so it needs
leading digits that are not zero (`Top`); `s_mp_sub` takes what `s_mp_cmp` says is
the smaller; `s_mp_pad` and `s_mp_lshd` take what is above a number to be zero (`Clean`);
the sign rules compare with a zero that must be positive.  `Good(m, n)` is their
conjunction with "`m` is worth `n`", `Holds` that all numbers are good, and
`NumbersInv` that they are before each call.  After `mp_mul_d`
the number may lie beyond its storage (`Right`), and so after `mp_read_radix`, which multiplies
by the radix in place; then there is no further call.
What a number is worth is `Above(m, 0)`, a recursive function from the last digit
down, and loops over digits are recursive functions; both are reasoned about by
induction on the naturals (`Induction`, `Upwards`, `Downwards`), which is derived from
the library's theorem that they are well-founded.  From there: the carry loops
of addition and subtraction, the row by row product, comparison from the leading digit,
and each call with each way in which its operands may coincide.

For the shifts each digit is cut into the bits that stay and those that move to its
neighbour (`Parts`, `ShiftedUpIs`, `ShiftedDownIs`, `BitsBelowIs`); that `s_mp_mod_2d` keeps what
is below a place is `LowAlike`.  The powers of 2 of the model
are counts of subsets, so the lemma `TwoTo` is about cardinalities.  The digits
of a quotient by a digit are those of the running remainders (`RemaindersRun`).  Division by a
digit is promised for a number that is not negative, or a power of two:
elsewhere `mp_div_d` does not do as its comment says, and `DivD` has these calls only.

Long division, squaring and the conversions are loops whose state is a record of numbers.
`LoopRuns` says once for all that a loop which keeps an invariant and is a recursive
function of its turns has a value in it at each turn (`Turning`, `Turned`).  In
`s_mp_div` the invariant is the one of division by hand: what has been taken of the dividend is
the quotient so far times the divisor plus the remainder, the remainder is less than the
divisor after a turn, and the storage of each local is enough for the digits still to come.
The guess of a digit is never too small when the divisor is normalized, and
backing off ends at the digit.  In `s_mp_sqr` a turn adds the square of a digit and twice
its products with those above; the doubled product plus carry does not fit an
`mp_word`, and `DoubleSum` and `DoubleCarry` together are what was meant; the
carry that goes up "by one" stops before the end of the storage, because the sum of all turns
is a square of so many digits.  `mp_mod` and the arithmetic modulo a number follow, for each
way in which results and operands may coincide.

Bytes are digits of radix `2^CharBit` (`CharOfDigit`, `ReadIs`).  The digits of a text are
those of the number in its radix (`Numeral`, `TextIs`), as many as it takes, in any radix
below that of the numbers; reading them back gives the number (`TextRight`) unless the first is
taken for a sign.  `AnswersRight` needs two counts: `mp_count_bits` is as many bits as the
number takes (`BitsCounted`), and `s_mp_outlen`, which rounds the logarithm to the nearest
integer, is at most one digit less than the text has (`OutlenIs`), where the NUL
that `mp_radix_size` counts makes up for it.

The assumptions are those on the constants (`SessionsAssumption`,
`OptionsAssumption`, `BoundsAssumption`, `StartAssumption`, `CipherAssumption`,
`PppauthAssumption`, `PamModuleAssumption`, `CommandLineAssumption`,
`KeyToolAssumption`, `AccidentsAssumption`, `MpiAssumption`, `MpiConversionsAssumption`,
`MpiCallsAssumption`); TLC evaluates them in the runs.

Only model-checked:

* `EveryLoginProceeds` and `SessionEnds`: liveness is out of the prover's reach;
* `Mpi` beyond `ArithmeticSpec` (powers, roots, powers modulo a number, gcd and inverses, none of
  which `ppp.c` calls), and the numbers that `mp_set_int` makes, from which the run `mpi`
  starts.  These loops are recursive operators, which the prover does not handle;
* everything about `KeyStream`, whose properties are about given vectors: to prove them would be to compute.

## What is not modelled

* `PPP_TIME_BASED` (nothing sets it: the option is commented out of the usage),
  `PPP_SHOW_PASSCODE` and the options `show`/`noshow` (echo only), `PAM_SILENT`
  (a message only), a PAM conversation that returns no user.
* Damaged headers (`_ppp_version` below 0) in `PamSession` and `KeyTool`
  (`PamModule` has them), digits outside the radix, and reads of a file that stop
  half way.  A counter of a "versioned" file is taken to be below 62^4, so that its
  digits end before offset 20 of the buffer.
* The device random keys come from.
* The texts: prompts, cards, messages, pages, and the grouping of decimal numbers.
* A conversation that returns no response at all (`pam_ppp.c:202`), a key file without a
  flags word in `PamModule` (`keyfiles.c:257`), a `~/.pppauth` without a key file in `KeyTool`
  (`keyfiles.c:574`), machines that are not little-endian (`ppp.c:125`), and the
  tables of `rijndael.c` as they stand: `Rijndael` derives them.
* Running out of memory in `mpi`; `s_mp_kmul`, which is not compiled in.
* `mpi/primes.c` and `mpprime.c` (linked, never called), `mplogic.c`, `mpi/utils`
  (not built).
* `examples/`, `tests/`: no part of the installed system.

## Plan

Done: all modules above and their proofs.  Next, in this order:

1. Proofs about `MpiTheory`: powers first, then Barrett reduction and the greatest common
   divisors, once their loops are recursive functions.
2. `Shared`: `PamSession` and `KeyTool` composed on the files, so that a login
   may fall into the truncation windows of the tool and the tool into those of a
   login.
3. `PamModule` as an implementation of an abstract buffer (allocated once,
   freed once) for processes of one call.
