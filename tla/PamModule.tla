----------------------------- MODULE PamModule -----------------------------
(***************************************************************************)
(* The PAM module as a library in one process (src/ppp/pam_ppp.c): login   *)
(* and su call pam_sm_authenticate, perhaps again for another user, and    *)
(* then pam_sm_open_session, and all calls share the static variables of   *)
(* ppp.c and keyfiles.c.  PamSession looks at many processes with one call *)
(* each; this module looks at one process with many calls.                 *)
(*                                                                         *)
(* What a user has in the files is one record: how far readKeyFile gets,   *)
(* the flags and version of the key, the printed passcodes left.           *)
(*                                                                         *)
(* Freeing a block twice, or one that was never allocated, is undefined:   *)
(* the process dies at some later point, or goes on as if nothing happened.*)
(***************************************************************************)
EXTENDS Integers, Sequences, FiniteSets

CONSTANTS
    Users,          \* the users that calls are about
    Nobody,         \* no user
    Secure,         \* "secure" among the module's options
    StartLeft,      \* printed passcodes that a user may have left
    MaxCalls,       \* bound on the calls in the process
    MaxEdits        \* bound on the changes users make to their files

ASSUME PamModuleAssumption ==
    /\ Nobody \notin Users
    /\ Secure \in BOOLEAN
    /\ StartLeft \subseteq Int
    /\ MaxCalls \in Nat /\ MaxEdits \in Nat

Cards == INSTANCE Passcards WITH Modulus <- 1, KeyOffset <- 0

VARIABLES
    conf,           \* what each user has in ~/.pppauth
    fname,          \* whose files the static file names point to
    ptr,            \* alphabet, d_prompt, d_code, d_buf
    numbers,        \* the four mp_ints of pppInit: whether they hold storage
    seqKey,         \* whose key is in d_seqKey
    flags,          \* _ppp_flags
    keyVer,         \* _key_ver
    left,           \* (d_lastCardGenerated + 1) * 70 - d_currPasscodeNum
    d_reserved,
    warnNum,        \* static variable of pppWarning
    pc, call,       \* where the process is, and in which call
    said,           \* messages shown in this call
    served,         \* history: calls for which readKeyFile succeeded
    calls, edits,   \* calls and changes so far
    broken          \* history: what free() was given that is not an allocated block

buffers == <<ptr, broken>>
statics == <<fname, numbers, seqKey, flags, keyVer, left, d_reserved, warnNum>>
history == <<served, calls, edits>>
vars == <<conf, buffers, statics, pc, call, said, history>>

Pointers == {"alphabet", "d_prompt", "d_code", "d_buf"}
Messages == {"lastCard", "few", "out", "newVersion"}
Kinds == {"authenticate", "open_session"}
Pcs == {"idle", "read", "reserve", "prompt", "answer", "warn", "cleanup", "dead"}

\* Supported version, _ppp_ver of ppp.c.
PppVersion == 2

\* How far readKeyFile gets: a file is missing, the key file's header makes no
\* sense, the key is read but the counter is not, all is well.
Readings == {"missing", "badHeader", "badCounter", "whole"}

Configurations ==
    [reads : {"whole"}, flags : SUBSET {"dontSkip"}, ver : {1, 2}, left : StartLeft]
        \cup [reads : Readings \ {"whole"}, flags : SUBSET {"dontSkip"}, ver : {2}, left : {0}]

\* Statics as the loader leaves them.
Init ==
    /\ conf \in [Users -> {c \in Configurations : c.ver = 2}]
    /\ fname = Nobody
    /\ ptr = [p \in Pointers |-> "null"]
    /\ numbers = "unset"
    /\ seqKey = Nobody
    /\ flags = {}
    /\ keyVer = 0
    /\ left = 0
    /\ d_reserved = FALSE
    /\ warnNum = 0
    /\ pc = "idle"
    /\ call = [kind |-> "authenticate", user |-> Nobody]
    /\ said = <<>>
    /\ served = 0 /\ calls = 0 /\ edits = 0
    /\ broken = {}

-----------------------------------------------------------------------------
(* Heap blocks.                                                            *)

Faults == {"freed", "uninitialized"}

\* Variant: the buffer is freed again after use.
RenewThenFree(ps) ==
    /\ ptr' = [p \in Pointers |-> IF p \in ps THEN "freed" ELSE ptr[p]]
    /\ broken' = broken \cup {ptr[p] : p \in {q \in ps : ptr[q] = "freed"}}

\* free(p); p = malloc(...), as setKeyVersion, mpToDecimalString, currCode and
\* currPrompt do for their buffer.
Renew(ps) ==
    /\ ptr' = [p \in Pointers |-> IF p \in ps THEN "allocated" ELSE ptr[p]]
    /\ broken' = broken \cup {ptr[p] : p \in {q \in ps : ptr[q] = "freed"}}

\* pppCleanup: free(p) and no more, the pointer keeps its value.
FreeAll ==
    /\ ptr' = [p \in Pointers |-> IF ptr[p] = "null" THEN "null" ELSE "freed"]
    /\ broken' = broken \cup {ptr[p] : p \in {q \in Pointers : ptr[q] = "freed"}}

\* The process dies of what free() did to the heap.
Abort ==
    /\ broken # {}
    /\ pc # "dead"
    /\ pc' = "dead"
    /\ UNCHANGED <<conf, buffers, statics, call, said, history>>

-----------------------------------------------------------------------------
(* Calls.                                                                  *)

\* Between calls a user runs pppauth, or logs in elsewhere.  (PamSession has what
\* happens to the files during a call.)
UserEdits ==
    /\ pc = "idle"
    /\ edits < MaxEdits
    /\ edits' = edits + 1
    /\ \E u \in Users, c \in Configurations : conf' = [conf EXCEPT ![u] = c]
    /\ UNCHANGED <<buffers, statics, pc, call, said, served, calls>>

\* pppInit and setUser.  pppInit allocates the numbers, and loses the storage of
\* those that a failed open_session did not clear; it leaves the buffers, the
\* flags, the version and warnNum as the last call left them.
Enter ==
    /\ pc = "idle"
    /\ calls < MaxCalls
    /\ calls' = calls + 1
    /\ \E kind \in Kinds, u \in Users : call' = [kind |-> kind, user |-> u]
    /\ numbers' = "allocated"
    /\ seqKey' = Nobody
    /\ left' = 0
    /\ d_reserved' = FALSE
    /\ said' = <<>>
    /\ pc' = "read"
    /\ UNCHANGED <<conf, buffers, fname, flags, keyVer, warnNum, served, edits>>

\* The static fname of _key_file_name and its like is filled once: a second user
\* gets the first one's files.
Named == IF fname = Nobody THEN call.user ELSE fname

\* Variant: an unconfigured user is let go at once.
AfterFailedReadAtOnce(kind) == "idle"

\* authenticate goes to cleanup; open_session returns PAM_USER_UNKNOWN.
AfterFailedRead(kind) == IF kind = "authenticate" THEN "cleanup" ELSE "idle"

\* _file_exists says no for one of the files.
ReadMissing ==
    /\ pc = "read"
    /\ fname' = Named
    /\ conf[Named].reads = "missing"
    /\ pc' = AfterFailedRead(call.kind)
    /\ UNCHANGED <<conf, buffers, numbers, seqKey, flags, keyVer, left, d_reserved, warnNum,
                   call, said, history>>

\* The key file's header makes no sense: the error path of readKeyFile clears
\* "num", which is not initialized yet.
ReadBadHeader ==
    /\ pc = "read"
    /\ fname' = Named
    /\ conf[Named].reads = "badHeader"
    /\ broken' = broken \cup {"uninitialized"}
    /\ pc' = AfterFailedRead(call.kind)
    /\ UNCHANGED <<conf, ptr, numbers, seqKey, flags, keyVer, left, d_reserved, warnNum,
                   call, said, history>>

\* The key is read, the counter is not.
ReadBadCounter ==
    /\ pc = "read"
    /\ fname' = Named
    /\ conf[Named].reads = "badCounter"
    /\ seqKey' = Named
    /\ flags' = flags \cup conf[Named].flags
    /\ pc' = AfterFailedRead(call.kind)
    /\ UNCHANGED <<conf, buffers, numbers, keyVer, left, d_reserved, warnNum, call, said, history>>

\* Variant: the options are looked at before the files are read.
FlagsInForceEarly(kind, loaded) ==
    (IF Secure /\ kind = "authenticate" THEN flags \ {"dontSkip"} ELSE flags) \cup loaded

\* pppSetFlags adds the key file's flags to those already there, and "secure"
\* clears dontSkip for authentication.
FlagsInForce(kind, loaded) ==
    IF Secure /\ kind = "authenticate"
    THEN (flags \cup loaded) \ {"dontSkip"}
    ELSE flags \cup loaded

ReadWhole ==
    /\ pc = "read"
    /\ fname' = Named
    /\ conf[Named].reads = "whole"
    /\ seqKey' = Named
    /\ left' = conf[Named].left
    /\ flags' = FlagsInForce(call.kind, conf[Named].flags)
    /\ keyVer' = conf[Named].ver
    /\ Renew({"alphabet"})          \* setKeyVersion
    /\ served' = served + 1
    /\ pc' = IF call.kind = "authenticate" THEN "reserve" ELSE "warn"
    /\ UNCHANGED <<conf, numbers, d_reserved, warnNum, call, said, calls, edits>>

-----------------------------------------------------------------------------
(* pam_sm_authenticate.                                                    *)

\* reservePasscodeNum with its writeState.
Reserve ==
    /\ pc = "reserve"
    /\ IF "dontSkip" \notin flags
       THEN /\ d_reserved' = TRUE
            /\ left' = left - 1
            /\ conf' = [conf EXCEPT ![fname].left = left - 1]
       ELSE UNCHANGED <<d_reserved, left, conf>>
    /\ pc' = "prompt"
    /\ UNCHANGED <<buffers, fname, numbers, seqKey, flags, keyVer, warnNum, call, said, history>>

\* currPrompt calls currCode twice; the second call frees what the first made.
Prompt ==
    /\ pc = "prompt"
    /\ Renew({"d_prompt", "d_code", "d_buf"})
    /\ pc' = "answer"
    /\ UNCHANGED <<conf, statics, call, said, history>>

\* pppAuthenticate.
Answer ==
    /\ pc = "answer"
    /\ \E right \in BOOLEAN :
          IF ~d_reserved /\ (right \/ "dontSkip" \notin flags)
          THEN /\ left' = left - 1
               /\ conf' = [conf EXCEPT ![fname].left = left - 1]
          ELSE UNCHANGED <<left, conf>>
    /\ d_reserved' = FALSE
    /\ pc' = "cleanup"
    /\ UNCHANGED <<buffers, fname, numbers, seqKey, flags, keyVer, warnNum, call, said, history>>

-----------------------------------------------------------------------------
(* pam_sm_open_session.                                                    *)

\* Variant: a user on the last passcode of the card but one hears nothing.
MessagesAtGap(n) ==
    {m \in Messages :
        \/ n = 0 /\ m = "lastCard" /\ 14 < left /\ left < 70
        \/ n = 1 /\ m = "few" /\ Cards!FewLeft(left)
        \/ n = 2 /\ m = "out" /\ Cards!OutOfPasscodes(left)
        \/ n = 3 /\ m = "newVersion" /\ PppVersion > keyVer}

\* What the n-th case of the switch has to say: at most one message.
MessagesAt(n) ==
    {m \in Messages :
        \/ n = 0 /\ m = "lastCard" /\ Cards!OnLastCard(left)
        \/ n = 1 /\ m = "few" /\ Cards!FewLeft(left)
        \/ n = 2 /\ m = "out" /\ Cards!OutOfPasscodes(left)
        \/ n = 3 /\ m = "newVersion" /\ PppVersion > keyVer}

\* Variant: the default branch starts over without ending the loop.
AfterWarningAround(n) == IF n \in 0 .. 3 THEN n + 1 ELSE 1

\* Variant: the counter is not set back.
AfterWarningNoReset(n) == n + 1

\* "default: warnNum = -1" and "return ++warnNum".
AfterWarning(n) == IF n \in 0 .. 3 THEN n + 1 ELSE 0

\* One turn of "while (pppWarning(...))"; returning 0 ends the loop.
Warn ==
    /\ pc = "warn"
    /\ IF MessagesAt(warnNum) = {}
       THEN UNCHANGED said
       ELSE \E m \in MessagesAt(warnNum) : said' = Append(said, m)
    /\ IF "few" \in MessagesAt(warnNum)     \* mpToDecimalString
       THEN Renew({"d_buf"})
       ELSE UNCHANGED buffers
    /\ warnNum' = AfterWarning(warnNum)
    /\ pc' = IF AfterWarning(warnNum) = 0 THEN "cleanup" ELSE "warn"
    /\ UNCHANGED <<conf, fname, numbers, seqKey, flags, keyVer, left, d_reserved, call, history>>

-----------------------------------------------------------------------------
Cleanup ==
    /\ pc = "cleanup"
    /\ FreeAll
    /\ numbers' = "cleared"
    /\ seqKey' = Nobody
    /\ pc' = "idle"
    /\ UNCHANGED <<conf, fname, flags, keyVer, left, d_reserved, warnNum, call, said, history>>

Next ==
    \/ UserEdits \/ Enter \/ Abort
    \/ ReadMissing \/ ReadBadHeader \/ ReadBadCounter \/ ReadWhole
    \/ Reserve \/ Prompt \/ Answer \/ Warn \/ Cleanup

Spec == Init /\ [][Next]_vars

\* Warn does not wait for anybody: a message needs no answer.
FairSpec == Spec /\ WF_vars(Warn)

-----------------------------------------------------------------------------
(* Properties.                                                             *)

TypeOK ==
    /\ conf \in [Users -> [reads : Readings, flags : SUBSET {"dontSkip"},
                           ver : {1, 2}, left : Int]]
    /\ fname \in Users \cup {Nobody} /\ seqKey \in Users \cup {Nobody}
    /\ ptr \in [Pointers -> {"null", "allocated", "freed"}]
    /\ numbers \in {"unset", "allocated", "cleared"}
    /\ flags \in SUBSET {"dontSkip"}
    /\ keyVer \in 0 .. 2 /\ left \in Int /\ d_reserved \in BOOLEAN
    /\ warnNum \in 0 .. 4
    /\ pc \in Pcs
    /\ call \in [kind : Kinds, user : Users \cup {Nobody}]
    /\ said \in Seq(Messages)
    /\ served \in Nat /\ calls \in Nat /\ edits \in Nat
    /\ broken \subseteq Faults

\* The messages that the counters and the version call for.
Due == UNION {MessagesAt(n) : n \in 0 .. 3}

\* However many sessions the process has opened, each is told all that is due,
\* and each thing once: pppWarning's static warnNum is back at its start when
\* the loop of pam_sm_open_session ends.  At most one of the messages is about
\* the passcodes left, and there is one whenever 70 or fewer are left.
SessionIsTold ==
    /\ \A i, j \in 1 .. Len(said) : i # j => said[i] # said[j]
    /\ pc = "cleanup" /\ call.kind = "open_session" =>
          /\ {said[i] : i \in 1 .. Len(said)} = Due
          /\ Cardinality(Due \ {"newVersion"}) = IF left <= 70 THEN 1 ELSE 0

\* ppp.c:296, pppCleanup removes "the key and other sensitive data from memory":
\* when pam_sm_authenticate has returned no key is left behind, on no path.
KeyLeavesMemory ==
    pc = "idle" /\ call.kind = "authenticate" => seqKey = Nobody /\ numbers # "allocated"

\* README.md:54, secure is to "disallow usage of --dontSkip": nobody is
\* prompted without a reservation, whatever flags an earlier call left behind.
SecureAlwaysReserves ==
    Secure /\ pc \in {"prompt", "answer"} => d_reserved

\* Within one call no buffer is freed twice, although currPrompt runs currCode,
\* and mpToDecimalString, more than once: it takes another call, and one before
\* it that found a user's files whole.
FreesOnceInACall ==
    "freed" \in broken => calls > 1 /\ served > 0

\* The loop over pppWarning ends.
SessionEnds == (pc = "warn") ~> (pc # "warn")

=============================================================================
