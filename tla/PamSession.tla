---------------------------- MODULE PamSession ----------------------------
(***************************************************************************)
(* Logins of one user through pam_sm_authenticate (src/ppp/pam_ppp.c),     *)
(* running side by side.  Each session is a process of its own: it takes   *)
(* the lock file, reads the three state files, reserves a passcode number  *)
(* by writing the successor back, releases the lock, and only then asks    *)
(* the user.  The sessions meet in the files and the lock, nowhere else.   *)
(*                                                                         *)
(* A step is what a session does between two operations on shared state.   *)
(* readKeyFile is cut at each fread, writeState at each fopen(..., "w")    *)
(* and each fclose, because a file is empty from the one to the other.     *)
(***************************************************************************)
EXTENDS StateFiles, FiniteSets

CONSTANTS
    Sessions,       \* the logins, each a process that authenticates once
    NoSession,      \* owner of the free lock
    Running,        \* the sessions the scheduler does not stop for good
    Locking,        \* no "nolock" among the module's options
    Secure,         \* "secure" among the module's options
    Enforced,       \* "enforced" among the module's options
    Patient,        \* a lock holder is done before another's last try
    IOErrors,       \* open, fopen and releasing the lock may fail
    TornWrites,     \* a crash may hit a session in the middle of writeState
    MaxTries,       \* tries of doLocking (20 in the code)
    MaxCrashes,     \* bound on the sessions killed
    KeyNum,         \* the user's sequence key, as a number
    StartCnt,       \* the counter before the first session
    StartGen,       \* the last card generated
    StartFormats,   \* the formats the files may have before the first session
    StartFlags      \* the flag sets a "flagged" file may start with

ASSUME SessionsAssumption == NoSession \notin Sessions /\ Running \subseteq Sessions

ASSUME OptionsAssumption ==
    /\ Locking \in BOOLEAN /\ Secure \in BOOLEAN /\ Enforced \in BOOLEAN
    /\ Patient \in BOOLEAN /\ IOErrors \in BOOLEAN /\ TornWrites \in BOOLEAN

ASSUME BoundsAssumption == MaxTries \in Nat \ {0} /\ MaxCrashes \in Nat

ASSUME StartAssumption ==
    /\ KeyNum \in Nat /\ StartCnt \in Nat /\ StartGen \in Int
    /\ StartFormats \subseteq {"missing", "raw", "versioned", "flagged"}
    /\ StartFlags \subseteq {fl \in SUBSET Flags : "present" \in fl}

VARIABLES
    keyFile, cntFile, genFile,   \* the files
    lock,       \* the process that holds the POSIX lock on the lock file
    pc,         \* where each session is
    mem,        \* the process's static variables and readKeyFile's locals
    prompt,     \* d_prompt: the number the user was asked for, and the warning
    verdict,    \* retval of pam_sm_authenticate
    crashes,    \* sessions killed so far
    lockless    \* history: sessions to which doLocking returned 0

files == <<keyFile, cntFile, genFile>>
vars == <<keyFile, cntFile, genFile, lock, pc, mem, prompt, verdict, crashes, lockless>>

-----------------------------------------------------------------------------
(* State.                                                                  *)

ReadPcs == {"readKey", "readCnt", "readGen"}
WritePcs == {"truncKey", "flushKey", "truncCnt", "truncGen", "flushCnt", "flushGen"}
Pcs == {"start", "lock", "unlock", "prompt", "done", "crashed"} \cup ReadPcs \cup WritePcs

\* Between getting the lock and giving it back.
CriticalPcs == ReadPcs \cup WritePcs \cup {"unlock"}

\* Where a session has a file truncated, or a mix of formats, behind it.
MidWritePcs == WritePcs \ {"truncKey"}

Memory ==
    [tries : Nat, lockingFailed : BOOLEAN, flags : SUBSET Flags, buf : Buffers,
     verKey : Versions, verCnt : Versions, seqKey : Int, cur : Int, last : Int,
     d_reserved : BOOLEAN, reserved : Int]

Prompts == [shown : BOOLEAN, num : Int, noLock : BOOLEAN]
Verdicts == {"none", "ignore", "auth_err", "success"}

\* A process just started: statics zeroed, then pppInit.
FreshMemory ==
    [tries |-> 0, lockingFailed |-> FALSE, flags |-> {}, buf |-> ZeroedBuffer,
     verKey |-> 1, verCnt |-> 1, seqKey |-> 0, cur |-> 0, last |-> 0,
     d_reserved |-> FALSE, reserved |-> 0]

NoPrompt == [shown |-> FALSE, num |-> 0, noLock |-> FALSE]

StartFile(fmt, ver, flags, num) ==
    [fmt |-> fmt, ver |-> ver, flags |-> flags, num |-> num]

Init ==
    /\ \E fmt \in StartFormats, ver \in Versions, fl \in StartFlags \cup {{}} :
          /\ fmt \in {"raw", "missing"} => ver = 1
          /\ fmt = "flagged" <=> fl # {}
          /\ keyFile = StartFile(fmt, ver, fl, KeyNum)
          /\ cntFile = StartFile(fmt, ver, fl, StartCnt)
          /\ genFile = StartFile(fmt, ver, fl, StartGen)
    /\ lock = NoSession
    /\ pc = [s \in Sessions |-> "start"]
    /\ mem = [s \in Sessions |-> FreshMemory]
    /\ prompt = [s \in Sessions |-> NoPrompt]
    /\ verdict = [s \in Sessions |-> "none"]
    /\ crashes = 0
    /\ lockless = {}

Goto(s, label) == pc' = [pc EXCEPT ![s] = label]

Remember(s, memory) == mem' = [mem EXCEPT ![s] = memory]

\* retval when the user has no usable configuration.
Unconfigured == IF Enforced THEN "auth_err" ELSE "ignore"

-----------------------------------------------------------------------------
(* readKeyFile(lock): existence, lock, then the three files.               *)

\* A file is missing, or the key file cannot be opened.
NotConfigured(s) ==
    /\ pc[s] = "start"
    /\ IOErrors \/ ~ (Exists(keyFile) /\ Exists(cntFile) /\ Exists(genFile))
    /\ verdict' = [verdict EXCEPT ![s] = Unconfigured]
    /\ Goto(s, "done")
    /\ UNCHANGED <<keyFile, cntFile, genFile, lock, mem, prompt, crashes, lockless>>

Begin(s) ==
    /\ pc[s] = "start"
    /\ Exists(keyFile) /\ Exists(cntFile) /\ Exists(genFile)
    /\ Goto(s, IF Locking THEN "lock" ELSE "readKey")
    /\ UNCHANGED <<keyFile, cntFile, genFile, lock, mem, prompt, verdict, crashes, lockless>>

\* "lockingFailed = doLocking()": the variable gets the return value, which is
\* 1 when the lock was obtained.
GotLock(s) ==
    /\ lock' = s
    /\ Remember(s, [mem[s] EXCEPT !.lockingFailed = TRUE])
    /\ UNCHANGED lockless

NoLock(s) ==
    /\ Remember(s, [mem[s] EXCEPT !.lockingFailed = FALSE])
    /\ lockless' = lockless \cup {s}
    /\ UNCHANGED lock

\* Variant: fcntl is not asked, or its result is not looked at.
TryLockBlind(s) ==
    /\ pc[s] = "lock"
    /\ GotLock(s)
    /\ Goto(s, "readKey")
    /\ UNCHANGED <<keyFile, cntFile, genFile, prompt, verdict, crashes>>

TryLock(s) ==
    /\ pc[s] = "lock"
    /\ lock = NoSession
    /\ GotLock(s)
    /\ Goto(s, "readKey")
    /\ UNCHANGED <<keyFile, cntFile, genFile, prompt, verdict, crashes>>

OpenLockFails(s) ==
    /\ IOErrors
    /\ pc[s] = "lock"
    /\ mem[s].tries = 0
    /\ NoLock(s)
    /\ Goto(s, "readKey")
    /\ UNCHANGED <<keyFile, cntFile, genFile, prompt, verdict, crashes>>

LockBusy(s) ==
    /\ pc[s] = "lock"
    /\ lock # NoSession
    /\ mem[s].tries + 1 < MaxTries
    /\ Remember(s, [mem[s] EXCEPT !.tries = @ + 1])
    /\ UNCHANGED <<keyFile, cntFile, genFile, lock, pc, prompt, verdict, crashes, lockless>>

\* Variant: the last try starts over, as F_SETLKW would.
GiveUpLockNever(s) ==
    /\ ~Patient
    /\ pc[s] = "lock"
    /\ lock # NoSession
    /\ mem[s].tries + 1 = MaxTries
    /\ Remember(s, [mem[s] EXCEPT !.tries = 0])
    /\ UNCHANGED <<keyFile, cntFile, genFile, lock, pc, prompt, verdict, crashes, lockless>>

\* The last try fails: the session goes on without the lock.
GiveUpLock(s) ==
    /\ ~Patient
    /\ pc[s] = "lock"
    /\ lock # NoSession
    /\ mem[s].tries + 1 = MaxTries
    /\ NoLock(s)
    /\ Goto(s, "readKey")
    /\ UNCHANGED <<keyFile, cntFile, genFile, prompt, verdict, crashes>>

ReadKey(s) ==
    LET buf == Fread(ZeroedBuffer, keyFile) IN
    /\ pc[s] = "readKey"
    /\ Remember(s, [mem[s] EXCEPT !.buf = buf,
                                  !.verKey = PppVersion(buf),
                                  !.flags = PppFlags(buf),
                                  !.seqKey = ReadData(buf, PppFlags(buf))])
    /\ Goto(s, "readCnt")
    /\ UNCHANGED <<keyFile, cntFile, genFile, lock, prompt, verdict, crashes, lockless>>

ReadCnt(s) ==
    LET buf == Fread(mem[s].buf, cntFile) IN
    /\ pc[s] = "readCnt"
    /\ Remember(s, [mem[s] EXCEPT !.buf = buf,
                                  !.verCnt = PppVersion(buf),
                                  !.cur = ReadData(buf, mem[s].flags)])
    /\ Goto(s, "readGen")
    /\ UNCHANGED <<keyFile, cntFile, genFile, lock, prompt, verdict, crashes, lockless>>

\* The versions of the three files agree.
Consistent(s) ==
    /\ mem[s].verKey = mem[s].verCnt
    /\ mem[s].verCnt = PppVersion(Fread(mem[s].buf, genFile))

\* Variant: the error label forgets the lock.
InconsistentKeepsLock(s) ==
    /\ pc[s] = "readGen"
    /\ ~Consistent(s)
    /\ Remember(s, [mem[s] EXCEPT !.buf = ZeroedBuffer])
    /\ verdict' = [verdict EXCEPT ![s] = Unconfigured]
    /\ Goto(s, "done")
    /\ UNCHANGED <<keyFile, cntFile, genFile, lock, prompt, crashes, lockless>>

\* readKeyFile's error label: the lock is released, the module returns.
FailRead(s) ==
    /\ Remember(s, [mem[s] EXCEPT !.buf = ZeroedBuffer,
                                  !.lockingFailed = @ /\ lock # s])
    /\ lock' = IF lock = s THEN NoSession ELSE lock
    /\ verdict' = [verdict EXCEPT ![s] = Unconfigured]
    /\ Goto(s, "done")
    /\ UNCHANGED <<keyFile, cntFile, genFile, prompt, crashes, lockless>>

Inconsistent(s) ==
    /\ pc[s] = "readGen"
    /\ ~Consistent(s)
    /\ FailRead(s)

\* The counter or the gen file cannot be opened for reading.
OpenReadFails(s) ==
    /\ IOErrors
    /\ pc[s] \in {"readCnt", "readGen"}
    /\ FailRead(s)

\* Variant: writeState without the upgrade of the key file.
WriteStartNoUpgrade(flags) == "truncCnt"

\* First step of writeState: a key file without flags is rewritten first.
WriteStart(flags) == IF "present" \in flags THEN "truncCnt" ELSE "truncKey"

\* Whether the counter is moved before the answer: not with --dontSkip.
SkipsAlways(flags) == TRUE  \* variant: without the test of PPP_DONT_SKIP_ON_FAILURES
Skips(flags) == "dontSkip" \notin flags

\* The rest of readKeyFile, the "secure" option, and reservePasscodeNum up to
\* its writeState.  With PPP_DONT_SKIP_ON_FAILURES nothing is reserved.
ReadGen(s) ==
    LET buf == Fread(mem[s].buf, genFile)
        flags == IF Secure THEN mem[s].flags \ {"dontSkip"} ELSE mem[s].flags
        read == [mem[s] EXCEPT !.buf = ZeroedBuffer,
                               !.flags = flags,
                               !.last = ReadData(buf, mem[s].flags)]
    IN
    /\ pc[s] = "readGen"
    /\ Consistent(s)
    /\ \/ /\ Skips(flags)
          /\ Remember(s, [read EXCEPT !.d_reserved = TRUE,
                                      !.reserved = read.cur,
                                      !.cur = read.cur + 1])
          /\ Goto(s, WriteStart(flags))
       \/ /\ ~Skips(flags)
          /\ Remember(s, read)
          /\ Goto(s, "unlock")
    /\ UNCHANGED <<keyFile, cntFile, genFile, lock, prompt, verdict, crashes, lockless>>

-----------------------------------------------------------------------------
(* writeState.  It runs before the prompt (reservePasscodeNum) or after    *)
(* the answer (pppAuthenticate); its result is ignored by both.            *)

AfterWrite(s) == IF verdict[s] = "none" THEN "unlock" ELSE "done"

TruncKey(s) ==
    /\ pc[s] = "truncKey"
    /\ Remember(s, [mem[s] EXCEPT !.flags = @ \cup {"present"}])
    /\ keyFile' = Empty
    /\ Goto(s, "flushKey")
    /\ UNCHANGED <<cntFile, genFile, lock, prompt, verdict, crashes, lockless>>

OpenKeyFails(s) ==
    /\ IOErrors
    /\ pc[s] = "truncKey"
    /\ Remember(s, [mem[s] EXCEPT !.flags = @ \cup {"present"}])
    /\ Goto(s, "truncCnt")
    /\ UNCHANGED <<keyFile, cntFile, genFile, lock, prompt, verdict, crashes, lockless>>

FlushKey(s) ==
    /\ pc[s] = "flushKey"
    /\ keyFile' = Written(mem[s].verKey, mem[s].flags, mem[s].seqKey)
    /\ Goto(s, "truncCnt")
    /\ UNCHANGED <<cntFile, genFile, lock, mem, prompt, verdict, crashes, lockless>>

TruncCnt(s) ==
    /\ pc[s] = "truncCnt"
    /\ cntFile' = Empty
    /\ Goto(s, "truncGen")
    /\ UNCHANGED <<keyFile, genFile, lock, mem, prompt, verdict, crashes, lockless>>

\* The counter cannot be opened.  The gen file still is, and if that succeeds
\* it is closed again without a write.
OpenCntFails(s) ==
    /\ IOErrors
    /\ pc[s] = "truncCnt"
    /\ genFile' \in {genFile, Empty}
    /\ Goto(s, AfterWrite(s))
    /\ UNCHANGED <<keyFile, cntFile, lock, mem, prompt, verdict, crashes, lockless>>

TruncGen(s) ==
    /\ pc[s] = "truncGen"
    /\ genFile' = Empty
    /\ Goto(s, "flushCnt")
    /\ UNCHANGED <<keyFile, cntFile, lock, mem, prompt, verdict, crashes, lockless>>

\* The gen file cannot be opened: the truncated counter is closed unwritten.
OpenGenFails(s) ==
    /\ IOErrors
    /\ pc[s] = "truncGen"
    /\ Goto(s, AfterWrite(s))
    /\ UNCHANGED <<keyFile, cntFile, genFile, lock, mem, prompt, verdict, crashes, lockless>>

\* Variant: the two counters go to each other's file.
FlushCntSwapped(s) ==
    /\ pc[s] = "flushCnt"
    /\ cntFile' = Written(mem[s].verKey, mem[s].flags, mem[s].last)
    /\ Goto(s, "flushGen")
    /\ UNCHANGED <<keyFile, genFile, lock, mem, prompt, verdict, crashes, lockless>>

FlushCnt(s) ==
    /\ pc[s] = "flushCnt"
    /\ cntFile' = Written(mem[s].verKey, mem[s].flags, mem[s].cur)
    /\ Goto(s, "flushGen")
    /\ UNCHANGED <<keyFile, genFile, lock, mem, prompt, verdict, crashes, lockless>>

FlushGen(s) ==
    /\ pc[s] = "flushGen"
    /\ genFile' = Written(mem[s].verKey, mem[s].flags, mem[s].last)
    /\ Goto(s, AfterWrite(s))
    /\ UNCHANGED <<keyFile, cntFile, lock, mem, prompt, verdict, crashes, lockless>>

-----------------------------------------------------------------------------
(* doUnlocking, the prompt and pppAuthenticate.                            *)

\* Variant: the reservation is not looked at.
AuthNumUnreserved(m) == m.cur

\* currAuthPasscodeNum.
AuthNum(m) == IF m.d_reserved THEN m.reserved ELSE m.cur

\* currPrompt, with the value lockingFailed has by then.
ShowPrompt(s, noLock) ==
    /\ prompt' = [prompt EXCEPT ![s] = [shown |-> TRUE, num |-> AuthNum(mem[s]), noLock |-> noLock]]
    /\ Goto(s, "prompt")

Unlock(s) ==
    /\ pc[s] = "unlock"
    /\ \/ /\ lock = s
          /\ lock' = NoSession
          /\ Remember(s, [mem[s] EXCEPT !.lockingFailed = FALSE])
          /\ ShowPrompt(s, FALSE)
       \/ /\ lock # s
          /\ ShowPrompt(s, mem[s].lockingFailed)
          /\ UNCHANGED <<lock, mem>>
    /\ UNCHANGED <<keyFile, cntFile, genFile, verdict, crashes, lockless>>

\* fcntl reports an error: closing the file releases the lock all the same.
UnlockFails(s) ==
    /\ IOErrors
    /\ pc[s] = "unlock"
    /\ lock = s
    /\ lock' = NoSession
    /\ ShowPrompt(s, mem[s].lockingFailed)
    /\ UNCHANGED <<keyFile, cntFile, genFile, mem, verdict, crashes, lockless>>

\* Variants: the reservation is not looked at; nor is the flag.
CounterStepUnreserved(m, match) == IF match \/ "dontSkip" \notin m.flags THEN 1 ELSE 0
CounterStepUnflagged(m, match) == IF m.d_reserved THEN 0 ELSE 1

\* How pppAuthenticate moves the in-memory counter.  A step of 0 writes nothing.
CounterStep(m, match) ==
    IF match \/ "dontSkip" \notin m.flags
    THEN IF m.d_reserved THEN 0 ELSE 1
    ELSE IF m.d_reserved THEN -1 ELSE 0

\* The user types the passcode of number "typed", or something else entirely.
Answer(s, typed) ==
    LET match == typed = AuthNum(mem[s])
        step == CounterStep(mem[s], match)
    IN
    /\ pc[s] = "prompt"
    /\ verdict' = [verdict EXCEPT ![s] = IF match THEN "success" ELSE "auth_err"]
    /\ Remember(s, [mem[s] EXCEPT !.cur = @ + step, !.d_reserved = FALSE])
    /\ Goto(s, IF step = 0 THEN "done" ELSE WriteStart(mem[s].flags))
    /\ UNCHANGED <<keyFile, cntFile, genFile, lock, prompt, crashes, lockless>>

\* The conversation function hands back no response.
NoResponse(s) ==
    /\ pc[s] = "prompt"
    /\ verdict' = [verdict EXCEPT ![s] = "auth_err"]
    /\ Goto(s, "done")
    /\ UNCHANGED <<keyFile, cntFile, genFile, lock, mem, prompt, crashes, lockless>>

\* The process is killed.  The kernel drops its lock; what stdio had buffered
\* is lost.
Crash(s) ==
    /\ crashes < MaxCrashes
    /\ pc[s] \notin {"start", "done", "crashed"}
    /\ TornWrites \/ pc[s] \notin MidWritePcs
    /\ crashes' = crashes + 1
    /\ lock' = IF lock = s THEN NoSession ELSE lock
    /\ Goto(s, "crashed")
    /\ UNCHANGED <<keyFile, cntFile, genFile, mem, prompt, verdict, lockless>>

-----------------------------------------------------------------------------

\* What a started session does by itself.
Run(s) ==
    \/ TryLock(s) \/ OpenLockFails(s) \/ LockBusy(s) \/ GiveUpLock(s)
    \/ ReadKey(s) \/ ReadCnt(s) \/ ReadGen(s) \/ Inconsistent(s) \/ OpenReadFails(s)
    \/ TruncKey(s) \/ OpenKeyFails(s) \/ FlushKey(s)
    \/ TruncCnt(s) \/ OpenCntFails(s) \/ TruncGen(s) \/ OpenGenFails(s)
    \/ FlushCnt(s) \/ FlushGen(s)
    \/ Unlock(s) \/ UnlockFails(s)

\* The number the user was asked for, and one that no prompt ever names.
Typed(s) == {prompt[s].num, -1}

\* What the outside does to it: the login, the user, the kernel.
Outside(s) ==
    \/ NotConfigured(s) \/ Begin(s)
    \/ \E typed \in Typed(s) : Answer(s, typed)
    \/ NoResponse(s) \/ Crash(s)

Next == \E s \in Sessions : Run(s) \/ Outside(s)

\* A process that can run does run, unless it is stopped for good (a signal, a
\* hung file server).  Nothing makes users log in or answer.
Spec == Init /\ [][Next]_vars /\ \A s \in Running : WF_vars(Run(s))

-----------------------------------------------------------------------------
(* Properties that hold whatever the options and faults.                   *)

\* The values of the variables, and the counts within their bounds.
TypeOK ==
    /\ keyFile \in Contents /\ cntFile \in Contents /\ genFile \in Contents
    /\ lock \in Sessions \cup {NoSession}
    /\ pc \in [Sessions -> Pcs]
    /\ mem \in [Sessions -> Memory]
    /\ prompt \in [Sessions -> Prompts]
    /\ verdict \in [Sessions -> Verdicts]
    /\ crashes \in 0 .. MaxCrashes
    /\ lockless \subseteq Sessions

\* readKeyFile and pam_sm_authenticate return with the lock released, on every
\* path: no session owns it while its user is thinking, or after its end.
LockNeverLeaks ==
    \A s \in Sessions : lock = s => pc[s] \in CriticalPcs

\* ppp.c:428: the branch that takes a reservation back "will never happen, as
\* pam module doesn't reserve passwords if dontSkip is enabled".
ReservedOnlyWhenSkipping ==
    \A s \in Sessions : mem[s].d_reserved => "dontSkip" \notin mem[s].flags

\* --dontSkip (cmdline.c:136): a failed login does not use up its passcode.
\* Only a session that answered right ever rewrites the user's files.
FailureSpendsNothing ==
    \A s \in Sessions :
        pc[s] \in WritePcs /\ "dontSkip" \in mem[s].flags => verdict[s] = "success"

\* Why the three hold: an inductive invariant under all options and faults.
\* The lock goes with a session that has no verdict yet; a session that has not
\* read all files holds no reservation.
EarlyPcs == {"start", "lock"} \cup ReadPcs

FaultInv ==
    /\ \A s \in Sessions : lock = s => pc[s] \in CriticalPcs /\ verdict[s] = "none"
    /\ \A s \in Sessions :
          pc[s] \in EarlyPcs => mem[s].d_reserved = FALSE /\ verdict[s] = "none"
    /\ ReservedOnlyWhenSkipping
    /\ FailureSpendsNothing

\* Whatever becomes of the others, and be it that one of them stops for good
\* with the lock in its hands, a login that began and keeps running gets as far
\* as its prompt, and one that was answered comes to its verdict: doLocking
\* gives up in the end (keyfiles.c:407, "Any working ppp-pam session shouldn't
\* lock it for so long").
EveryLoginProceeds ==
    \A s \in Running :
        pc[s] \in {"lock"} \cup CriticalPcs ~> pc[s] \in {"prompt", "done", "crashed"}

-----------------------------------------------------------------------------
(* Properties of a configured user's sessions that all lock, get the lock,  *)
(* reserve, and are not killed in the middle of writeState.                 *)

Disciplined ==
    /\ Locking /\ Patient /\ ~IOErrors /\ ~TornWrites
    /\ Secure \/ \A fl \in StartFlags : "dontSkip" \notin fl
    /\ "missing" \notin StartFormats

\* ppp.c:555, "so parallel sessions won't reserve the same passCode": no two
\* users are asked for the same number, however their sessions interleave.
NoSharedReservation ==
    \A s, t \in Sessions :
        s # t /\ prompt[s].shown /\ prompt[t].shown => prompt[s].num # prompt[t].num

\* The number after the last one handed out: it is in the counter file, or,
\* while that is truncated, in the memory of the session that rewrites it.
NextNum == IF cntFile.fmt = "empty" THEN mem[lock].cur ELSE cntFile.num

\* A prompt appears only after the number it names is spent in the counter
\* file, so a session killed at its prompt, or later, costs no reuse.
ShownIsSpent ==
    \A s \in Sessions : prompt[s].shown => prompt[s].num < NextNum

\* With a reservation made before the prompt and the lock around it, the files
\* change only while their writer owns the lock.
WritesUnderLock ==
    [][files' # files => \E s \in Sessions : lock = s /\ pc[s] \in WritePcs]_vars

\* Whenever nobody holds the lock the three files agree on format and version,
\* the key is the user's, and the last card is the one printed: an upgrade of
\* legacy files is over or has not begun.
QuietFilesAgree ==
    lock = NoSession =>
        /\ keyFile.fmt = cntFile.fmt /\ cntFile.fmt = genFile.fmt
        /\ keyFile.ver = cntFile.ver /\ cntFile.ver = genFile.ver
        /\ keyFile.num = KeyNum
        /\ cntFile.num >= StartCnt
        /\ genFile.num = StartGen

\* A user with a configuration is asked for a passcode, of the user's own key:
\* no session mistakes files in mid-rewrite for a missing configuration (and
\* returns PAM_IGNORE), or for a different key.
ConfiguredUserIsAsked ==
    \A s \in Sessions :
        /\ verdict[s] # "none" => prompt[s].shown
        /\ prompt[s].shown => mem[s].seqKey = KeyNum

-----------------------------------------------------------------------------
(* Why they hold: an inductive invariant of disciplined sessions.           *)

Whole(file) ==
    /\ file.fmt \in {"raw", "versioned", "flagged"}
    /\ file.fmt = "raw" => file.ver = 1

Alike(f, g) == f.fmt = g.fmt /\ f.ver = g.ver

\* The flags a session loads from the key file.
LoadedFlags(file) == IF file.fmt = "flagged" THEN file.flags \cup {"present"} ELSE {}

\* The lock is held exactly in the critical section.
LockIsCritical == \A s \in Sessions : lock = s <=> pc[s] \in CriticalPcs

\* While nobody rewrites them the files are whole and agree.
FilesAtRest ==
    (\A s \in Sessions : pc[s] \notin MidWritePcs) =>
        /\ Whole(keyFile) /\ Alike(keyFile, cntFile) /\ Alike(cntFile, genFile)
        /\ keyFile.num = KeyNum /\ cntFile.num >= StartCnt /\ genFile.num = StartGen

KeyAllowsSkipping == Secure \/ "dontSkip" \notin keyFile.flags

\* A session under the lock remembers what is in the files.
ReadsWhole(s) ==
    /\ pc[s] \in {"readCnt", "readGen"} =>
          /\ mem[s].verKey = keyFile.ver
          /\ mem[s].flags = LoadedFlags(keyFile)
          /\ mem[s].seqKey = KeyNum
    /\ pc[s] = "readGen" => mem[s].verCnt = cntFile.ver /\ mem[s].cur = cntFile.num

\* From its reservation to its answer.
Reserves(s) ==
    pc[s] \in WritePcs \cup {"unlock", "prompt"} =>
        /\ mem[s].d_reserved
        /\ mem[s].cur = mem[s].reserved + 1
        /\ mem[s].reserved >= StartCnt
        /\ mem[s].last = StartGen
        /\ mem[s].seqKey = KeyNum
        /\ "dontSkip" \notin mem[s].flags

\* The files under the hands of the session that rewrites them.
Rewrites(s) ==
    /\ pc[s] = "truncKey" =>
          "present" \notin mem[s].flags /\ mem[s].verKey = keyFile.ver
    /\ pc[s] \in MidWritePcs => "present" \in mem[s].flags
    /\ pc[s] \in MidWritePcs \ {"flushKey"} =>
          keyFile.fmt = "flagged" /\ keyFile.ver = mem[s].verKey /\ keyFile.num = KeyNum
    /\ pc[s] \in {"truncKey", "flushKey", "truncCnt"} =>
          cntFile.fmt # "empty" /\ cntFile.num = mem[s].reserved
    /\ pc[s] \in {"truncGen", "flushCnt"} => cntFile.fmt = "empty"
    /\ pc[s] = "flushGen" => cntFile.fmt = "flagged" /\ cntFile.ver = mem[s].verKey
    /\ pc[s] \in {"flushGen", "unlock"} => cntFile.num = mem[s].cur

\* The files all exist, and each is never empty but while it is rewritten.
NothingMissing ==
    /\ Exists(keyFile) /\ Exists(cntFile) /\ Exists(genFile)
    /\ cntFile.fmt = "empty" => \E s \in Sessions : pc[s] \in {"truncGen", "flushCnt"}

Prompted(s) ==
    /\ pc[s] \in {"start", "lock"} \cup CriticalPcs => ~prompt[s].shown
    /\ pc[s] \in {"prompt", "done"} => prompt[s].shown
    /\ pc[s] = "prompt" => prompt[s].num = mem[s].reserved
    /\ verdict[s] # "none" => pc[s] = "done"
    /\ prompt[s].shown => prompt[s].num >= StartCnt /\ mem[s].seqKey = KeyNum

\* A number shown is below every reservation still to be shown.
ShownBelowReserved ==
    \A s, t \in Sessions :
        prompt[s].shown /\ pc[t] \in WritePcs \cup {"unlock"} =>
            prompt[s].num < mem[t].reserved

SessionInv ==
    /\ LockIsCritical
    /\ FilesAtRest
    /\ KeyAllowsSkipping
    /\ NothingMissing
    /\ \A s \in Sessions : ReadsWhole(s) /\ Reserves(s) /\ Rewrites(s) /\ Prompted(s)
    /\ ShownBelowReserved
    /\ ShownIsSpent
    /\ NoSharedReservation

-----------------------------------------------------------------------------
\* Abstractly, the sessions share a counter that hands out each number once.
\* NoNum stands for "not asked": no counter value is negative.
NoNum == -2

Abstract == INSTANCE OneTimeCounter WITH
    Sessions <- Sessions,
    Start <- StartCnt,
    None <- NoNum,
    next <- NextNum,
    asked <- [s \in Sessions |-> IF prompt[s].shown THEN prompt[s].num ELSE NoNum],
    outcome <- verdict

\* The sessions implement the one-time counter, while every one of them runs
\* readKeyFile, reservePasscodeNum, writeState and pppAuthenticate step by step.
ImplementsOneTimeCounter == Abstract!Spec

-----------------------------------------------------------------------------
(* Properties the repository states and the code does not have.            *)

\* README.md:52: OTP is ignored for a user who "does not have ~/.pppauth".  A
\* session that returns PAM_IGNORE found one of the files missing.
IgnoresOnlyTheUnconfigured ==
    \A s \in Sessions :
        verdict[s] = "ignore" => \E f \in {keyFile, cntFile, genFile} : ~Exists(f)

\* "Warn about some locking issues" (ppp.c:392), "Locking failed in current
\* approach" (keyfiles.h:34): a prompt after a failed doLocking carries the
\* "(no lock)" warning.
WarnsWithoutLock ==
    \A s \in lockless : prompt[s].shown => prompt[s].noLock

=============================================================================
