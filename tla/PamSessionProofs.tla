------------------------- MODULE PamSessionProofs -------------------------
(***************************************************************************)
(* Proofs about PamSession, for any number of sessions and any constants   *)
(* that satisfy its assumptions: TypeOK and the properties that need no    *)
(* discipline first, then SessionInv and the properties of disciplined     *)
(* sessions that follow from it.                                           *)
(***************************************************************************)
EXTENDS PamSession, TLAPS

(* What the operators of StateFiles return. *)

LEMMA EmptyType == Empty \in Contents /\ ZeroedBuffer \in Buffers
  BY DEF Empty, ZeroedBuffer, Contents, Buffers, Formats, Versions, Flags

LEMMA WrittenType ==
  ASSUME NEW ver \in Versions, NEW flags \in SUBSET Flags, NEW num \in Int
  PROVE  Written(ver, flags, num) \in Contents
  BY DEF Written, Contents, Formats

LEMMA FreadType ==
  ASSUME NEW buf \in Buffers, NEW file \in Contents
  PROVE  Fread(buf, file) \in Buffers
  BY DEF Fread, Buffers, Contents

LEMMA DecodeType ==
  ASSUME NEW buf \in Buffers, NEW flags \in SUBSET Flags
  PROVE  /\ PppVersion(buf) \in Versions
         /\ PppFlags(buf) \in SUBSET Flags
         /\ ReadData(buf, flags) \in Int
  <1>1. PppVersion(buf) \in Versions
    BY DEF PppVersion, Buffers, Contents, Versions
  <1>2. PppFlags(buf) \in SUBSET Flags
    BY DEF PppFlags, Buffers, Contents, Flags
  <1>3. FlagsWord(buf.head.flags) \in Int
    BY DEF FlagsWord
  <1>4. ReadData(buf, flags) \in Int
    BY <1>3 DEF ReadData, Buffers, Contents
  <1> QED BY <1>1, <1>2, <1>4

LEMMA FreshMemoryType == FreshMemory \in Memory
  BY EmptyType DEF FreshMemory, Memory, Versions, Flags

LEMMA AuthNumType == ASSUME NEW m \in Memory PROVE AuthNum(m) \in Int
  BY DEF AuthNum, Memory

LEMMA CounterStepType ==
  ASSUME NEW m \in Memory, NEW match \in BOOLEAN
  PROVE  CounterStep(m, match) \in {-1, 0, 1}
  BY DEF CounterStep, Memory

-----------------------------------------------------------------------------
(* Type correctness.                                                       *)

LEMMA InitType == Init => TypeOK
  <1> SUFFICES ASSUME Init PROVE TypeOK
    OBVIOUS
  <1> USE StartAssumption, BoundsAssumption, SessionsAssumption
  <1>1. PICK fmt \in StartFormats, ver \in Versions, fl \in StartFlags \cup {{}} :
           /\ keyFile = StartFile(fmt, ver, fl, KeyNum)
           /\ cntFile = StartFile(fmt, ver, fl, StartCnt)
           /\ genFile = StartFile(fmt, ver, fl, StartGen)
    BY DEF Init
  <1>2. fmt \in Formats /\ fl \in SUBSET Flags
    BY DEF Formats, Flags
  <1>3. keyFile \in Contents /\ cntFile \in Contents /\ genFile \in Contents
    BY <1>1, <1>2 DEF StartFile, Contents
  <1>4. mem \in [Sessions -> Memory] /\ prompt \in [Sessions -> Prompts]
    BY FreshMemoryType DEF Init, NoPrompt, Prompts
  <1>5. pc \in [Sessions -> Pcs] /\ verdict \in [Sessions -> Verdicts]
    BY DEF Init, Pcs, Verdicts
  <1> QED BY <1>3, <1>4, <1>5 DEF Init, TypeOK

LEMMA RememberType ==
  ASSUME TypeOK, NEW s \in Sessions, NEW m \in Memory, Remember(s, m)
  PROVE  mem' \in [Sessions -> Memory]
  BY DEF TypeOK, Remember

LEMMA MemoryFields ==
  ASSUME NEW m \in Memory
  PROVE  m.cur \in Int /\ m.d_reserved \in BOOLEAN /\ m.lockingFailed \in BOOLEAN
  BY DEF Memory

LEMMA CounterMemoryType ==
  ASSUME NEW m \in Memory, NEW cur \in Int, NEW num \in Int, NEW held \in BOOLEAN
  PROVE  /\ [m EXCEPT !.cur = cur, !.d_reserved = held] \in Memory
         /\ [m EXCEPT !.d_reserved = held, !.reserved = num, !.cur = cur] \in Memory
  BY DEF Memory

LEMMA ShowPromptType ==
  ASSUME TypeOK, NEW s \in Sessions, NEW noLock \in BOOLEAN, ShowPrompt(s, noLock)
  PROVE  prompt' \in [Sessions -> Prompts] /\ pc' \in [Sessions -> Pcs]
  <1>1. mem[s] \in Memory
    BY DEF TypeOK
  <1>2. AuthNum(mem[s]) \in Int
    BY <1>1, AuthNumType
  <1>3. [shown |-> TRUE, num |-> AuthNum(mem[s]), noLock |-> noLock] \in Prompts
    BY <1>2 DEF Prompts
  <1> QED BY <1>3 DEF TypeOK, ShowPrompt, Goto, Pcs

LEMMA NextType == TypeOK /\ [Next]_vars => TypeOK'
  <1> SUFFICES ASSUME TypeOK, [Next]_vars PROVE TypeOK'
    OBVIOUS
  <1>0. CASE UNCHANGED vars
    BY <1>0 DEF vars, TypeOK
  <1> SUFFICES ASSUME NEW s \in Sessions, Run(s) \/ Outside(s) PROVE TypeOK'
    BY <1>0 DEF Next
  <1> USE DEF TypeOK, Goto, Pcs, ReadPcs, WritePcs
  <1>1. CASE NotConfigured(s)
    BY <1>1 DEF NotConfigured, Unconfigured, Verdicts
  <1>2. CASE Begin(s)
    BY <1>2 DEF Begin
  <1>3. CASE TryLock(s)
    <2>1. [mem[s] EXCEPT !.lockingFailed = TRUE] \in Memory
      BY DEF Memory
    <2>2. mem' \in [Sessions -> Memory]
      BY <1>3, <2>1, RememberType DEF TryLock, GotLock
    <2> QED BY <1>3, <2>2 DEF TryLock, GotLock
  <1>4. CASE OpenLockFails(s)
    <2>1. [mem[s] EXCEPT !.lockingFailed = FALSE] \in Memory
      BY DEF Memory
    <2>2. mem' \in [Sessions -> Memory]
      BY <1>4, <2>1, RememberType DEF OpenLockFails, NoLock
    <2> QED BY <1>4, <2>2 DEF OpenLockFails, NoLock
  <1>5. CASE LockBusy(s)
    <2>1. [mem[s] EXCEPT !.tries = @ + 1] \in Memory
      BY DEF Memory
    <2>2. mem' \in [Sessions -> Memory]
      BY <1>5, <2>1, RememberType DEF LockBusy
    <2> QED BY <1>5, <2>2 DEF LockBusy
  <1>6. CASE GiveUpLock(s)
    <2>1. [mem[s] EXCEPT !.lockingFailed = FALSE] \in Memory
      BY DEF Memory
    <2>2. mem' \in [Sessions -> Memory]
      BY <1>6, <2>1, RememberType DEF GiveUpLock, NoLock
    <2> QED BY <1>6, <2>2 DEF GiveUpLock, NoLock
  <1>7. CASE ReadKey(s)
    <2> DEFINE buf == Fread(ZeroedBuffer, keyFile)
    <2>1. buf \in Buffers
      BY EmptyType, FreadType
    <2>2. PppVersion(buf) \in Versions /\ PppFlags(buf) \in SUBSET Flags
      BY <2>1, DecodeType
    <2>3. ReadData(buf, PppFlags(buf)) \in Int
      BY <2>1, <2>2, DecodeType
    <2>4. [mem[s] EXCEPT !.buf = buf,
                         !.verKey = PppVersion(buf),
                         !.flags = PppFlags(buf),
                         !.seqKey = ReadData(buf, PppFlags(buf))] \in Memory
      <3> HIDE DEF buf
      <3> QED BY <2>1, <2>2, <2>3 DEF Memory
    <2>5. mem' \in [Sessions -> Memory]
      BY <1>7, <2>4, RememberType DEF ReadKey
    <2> QED BY <1>7, <2>5 DEF ReadKey
  <1>8. CASE ReadCnt(s)
    <2> DEFINE buf == Fread(mem[s].buf, cntFile)
    <2>1. buf \in Buffers /\ mem[s].flags \in SUBSET Flags
      BY FreadType DEF Memory
    <2>2. PppVersion(buf) \in Versions /\ ReadData(buf, mem[s].flags) \in Int
      BY <2>1, DecodeType
    <2>3. [mem[s] EXCEPT !.buf = buf,
                         !.verCnt = PppVersion(buf),
                         !.cur = ReadData(buf, mem[s].flags)] \in Memory
      <3> HIDE DEF buf
      <3> QED BY <2>1, <2>2 DEF Memory
    <2>4. mem' \in [Sessions -> Memory]
      BY <1>8, <2>3, RememberType DEF ReadCnt
    <2> QED BY <1>8, <2>4 DEF ReadCnt
  <1>9. CASE ReadGen(s)
    <2> DEFINE buf == Fread(mem[s].buf, genFile)
               flags == IF Secure THEN mem[s].flags \ {"dontSkip"} ELSE mem[s].flags
    <2>1. buf \in Buffers /\ mem[s].flags \in SUBSET Flags
      BY FreadType DEF Memory
    <2>2. ReadData(buf, mem[s].flags) \in Int /\ flags \in SUBSET Flags
      BY <2>1, DecodeType
    <2> DEFINE read == [mem[s] EXCEPT !.buf = ZeroedBuffer,
                                      !.flags = flags,
                                      !.last = ReadData(buf, mem[s].flags)]
               held == [read EXCEPT !.d_reserved = TRUE,
                                    !.reserved = read.cur,
                                    !.cur = read.cur + 1]
    <2>3. read \in Memory
      <3> HIDE DEF buf, flags
      <3> QED BY <2>2, EmptyType DEF Memory
    <2>4. held \in Memory
      <3> HIDE DEF read
      <3>1. read.cur \in Int
        BY <2>3, MemoryFields
      <3>2. read.cur + 1 \in Int
        BY <3>1
      <3> QED BY <2>3, <3>1, <3>2, CounterMemoryType
    <2>5. Remember(s, read) \/ Remember(s, held)
      BY <1>9 DEF ReadGen
    <2>6. mem' \in [Sessions -> Memory]
      BY <2>3, <2>4, <2>5, RememberType
    <2>7. pc' \in [Sessions -> Pcs]
      BY <1>9 DEF ReadGen, WriteStart
    <2> QED BY <1>9, <2>6, <2>7 DEF ReadGen
  <1>10. CASE Inconsistent(s) \/ OpenReadFails(s)
    <2>1. [mem[s] EXCEPT !.buf = ZeroedBuffer, !.lockingFailed = @ /\ lock # s] \in Memory
      BY EmptyType DEF Memory
    <2>2. mem' \in [Sessions -> Memory]
      BY <1>10, <2>1, RememberType DEF Inconsistent, OpenReadFails, FailRead
    <2> QED BY <1>10, <2>2 DEF Inconsistent, OpenReadFails, FailRead, Unconfigured, Verdicts
  <1>11. CASE TruncKey(s)
    <2>1. [mem[s] EXCEPT !.flags = @ \cup {"present"}] \in Memory
      BY DEF Memory, Flags
    <2>2. mem' \in [Sessions -> Memory]
      BY <1>11, <2>1, RememberType DEF TruncKey
    <2> QED BY <1>11, <2>2, EmptyType DEF TruncKey
  <1>12. CASE OpenKeyFails(s)
    <2>1. [mem[s] EXCEPT !.flags = @ \cup {"present"}] \in Memory
      BY DEF Memory, Flags
    <2>2. mem' \in [Sessions -> Memory]
      BY <1>12, <2>1, RememberType DEF OpenKeyFails
    <2> QED BY <1>12, <2>2 DEF OpenKeyFails
  <1>13. CASE FlushKey(s)
    <2>1. keyFile' \in Contents
      BY <1>13, WrittenType DEF FlushKey, Memory
    <2> QED BY <1>13, <2>1 DEF FlushKey
  <1>14. CASE TruncCnt(s)
    BY <1>14, EmptyType DEF TruncCnt
  <1>15. CASE OpenCntFails(s)
    BY <1>15, EmptyType DEF OpenCntFails, AfterWrite
  <1>16. CASE TruncGen(s)
    BY <1>16, EmptyType DEF TruncGen
  <1>17. CASE OpenGenFails(s)
    BY <1>17 DEF OpenGenFails, AfterWrite
  <1>18. CASE FlushCnt(s)
    <2>1. cntFile' \in Contents
      BY <1>18, WrittenType DEF FlushCnt, Memory
    <2> QED BY <1>18, <2>1 DEF FlushCnt
  <1>19. CASE FlushGen(s)
    <2>1. genFile' \in Contents
      BY <1>19, WrittenType DEF FlushGen, Memory
    <2> QED BY <1>19, <2>1 DEF FlushGen, AfterWrite
  <1>20. CASE Unlock(s)
    <2>1. mem[s] \in Memory /\ mem[s].lockingFailed \in BOOLEAN
      BY MemoryFields
    <2>2. prompt' \in [Sessions -> Prompts] /\ pc' \in [Sessions -> Pcs]
      BY <1>20, <2>1, ShowPromptType DEF Unlock
    <2>3. [mem[s] EXCEPT !.lockingFailed = FALSE] \in Memory
      BY DEF Memory
    <2>4. mem' \in [Sessions -> Memory] /\ lock' \in Sessions \cup {NoSession}
      BY <1>20, <2>3, RememberType DEF Unlock
    <2> QED BY <1>20, <2>2, <2>4 DEF Unlock
  <1>21. CASE UnlockFails(s)
    <2>1. mem[s] \in Memory /\ mem[s].lockingFailed \in BOOLEAN
      BY MemoryFields
    <2>2. prompt' \in [Sessions -> Prompts] /\ pc' \in [Sessions -> Pcs]
      BY <1>21, <2>1, ShowPromptType DEF UnlockFails
    <2> QED BY <1>21, <2>2 DEF UnlockFails
  <1>22. CASE NoResponse(s)
    BY <1>22 DEF NoResponse, Verdicts
  <1>23. CASE Crash(s)
    BY <1>23, BoundsAssumption DEF Crash
  <1>24. ASSUME NEW typed \in Typed(s), Answer(s, typed) PROVE TypeOK'
    <2> DEFINE match == typed = AuthNum(mem[s])
    <2>1. mem[s] \in Memory
      OBVIOUS
    <2>5. CounterStep(mem[s], match) \in Int
      <3>1. match \in BOOLEAN
        OBVIOUS
      <3> HIDE DEF match
      <3>2. CounterStep(mem[s], match) \in {-1, 0, 1}
        BY <2>1, <3>1, CounterStepType
      <3> QED BY <3>2
    <2> DEFINE answered == [mem[s] EXCEPT !.cur = @ + CounterStep(mem[s], match),
                                          !.d_reserved = FALSE]
    <2>2. answered \in Memory
      <3> HIDE DEF match
      <3>1. mem[s].cur + CounterStep(mem[s], match) \in Int
        <4>1. mem[s].cur \in Int
          BY <2>1, MemoryFields
        <4> QED BY <2>5, <4>1
      <3>2. FALSE \in BOOLEAN
        OBVIOUS
      <3> QED BY <2>1, <3>1, <3>2, CounterMemoryType
    <2>4. mem' \in [Sessions -> Memory]
      BY <1>24, <2>2, RememberType DEF Answer
    <2>3. pc' \in [Sessions -> Pcs] /\ verdict' \in [Sessions -> Verdicts]
      BY <1>24 DEF Answer, WriteStart, Verdicts
    <2> QED BY <1>24, <2>4, <2>3 DEF Answer
  <1> QED
    BY <1>1, <1>2, <1>3, <1>4, <1>5, <1>6, <1>7, <1>8, <1>9, <1>10, <1>11, <1>12,
       <1>13, <1>14, <1>15, <1>16, <1>17, <1>18, <1>19, <1>20, <1>21, <1>22, <1>23, <1>24
    DEF Run, Outside

(* The variables keep their types, whatever the options and faults. *)
THEOREM TypeCorrect == Spec => []TypeOK
  <1>1. Init => TypeOK
    BY InitType
  <1>2. TypeOK /\ [Next]_vars => TypeOK'
    BY NextType
  <1> QED BY <1>1, <1>2, PTL DEF Spec

-----------------------------------------------------------------------------
(* What the steps do that change several fields of the memory.             *)

LEMMA FailReadEffect ==
  ASSUME TypeOK, NEW s \in Sessions, FailRead(s)
  PROVE  \A t \in Sessions : mem'[t].flags = mem[t].flags /\ mem'[t].d_reserved = mem[t].d_reserved
  <1> DEFINE m == [mem[s] EXCEPT !.buf = ZeroedBuffer, !.lockingFailed = @ /\ lock # s]
  <1>1. mem' = [mem EXCEPT ![s] = m]
    BY DEF FailRead, Remember
  <1>2. m.flags = mem[s].flags /\ m.d_reserved = mem[s].d_reserved
    BY DEF TypeOK, Memory
  <1> HIDE DEF m
  <1> QED BY <1>1, <1>2 DEF TypeOK

LEMMA UnlockMemory ==
  ASSUME NEW m \in Memory, NEW u, u = [m EXCEPT !.lockingFailed = FALSE]
  PROVE  /\ u.flags = m.flags /\ u.d_reserved = m.d_reserved /\ u.reserved = m.reserved
         /\ u.cur = m.cur /\ u.last = m.last /\ u.seqKey = m.seqKey /\ u.verKey = m.verKey
  BY DEF Memory

LEMMA ReadGenEffect ==
  ASSUME TypeOK, NEW s \in Sessions, ReadGen(s)
  PROVE  /\ \A t \in Sessions \ {s} : pc'[t] = pc[t] /\ mem'[t] = mem[t]
         /\ mem'[s].flags = IF Secure THEN mem[s].flags \ {"dontSkip"} ELSE mem[s].flags
         /\ mem'[s].seqKey = mem[s].seqKey
         /\ mem'[s].verKey = mem[s].verKey
         /\ mem'[s].last = ReadData(Fread(mem[s].buf, genFile), mem[s].flags)
         /\ \/ /\ "dontSkip" \notin mem'[s].flags
               /\ pc'[s] = WriteStart(mem'[s].flags)
               /\ mem'[s].d_reserved = TRUE
               /\ mem'[s].reserved = mem[s].cur /\ mem'[s].cur = mem[s].cur + 1
            \/ /\ "dontSkip" \in mem'[s].flags
               /\ pc'[s] = "unlock"
               /\ mem'[s].d_reserved = mem[s].d_reserved
  <1> DEFINE flags == IF Secure THEN mem[s].flags \ {"dontSkip"} ELSE mem[s].flags
             last == ReadData(Fread(mem[s].buf, genFile), mem[s].flags)
             read == [mem[s] EXCEPT !.buf = ZeroedBuffer, !.flags = flags, !.last = last]
             held == [read EXCEPT !.d_reserved = TRUE,
                                  !.reserved = read.cur,
                                  !.cur = read.cur + 1]
  <1>1. mem[s] \in Memory
    BY DEF TypeOK
  <1>2. \A t \in Sessions \ {s} : pc'[t] = pc[t] /\ mem'[t] = mem[t]
    BY DEF ReadGen, Remember, Goto, TypeOK
  <1>3. \/ "dontSkip" \notin flags /\ Remember(s, held) /\ Goto(s, WriteStart(flags))
        \/ "dontSkip" \in flags /\ Remember(s, read) /\ Goto(s, "unlock")
    BY DEF ReadGen, Skips
  <1>6. read = [mem[s] EXCEPT !.buf = ZeroedBuffer, !.flags = flags, !.last = last]
    OBVIOUS
  <1>7. held = [read EXCEPT !.d_reserved = TRUE, !.reserved = read.cur, !.cur = read.cur + 1]
    OBVIOUS
  <1> HIDE DEF flags, last, read, held
  <1>4. CASE "dontSkip" \notin flags
    <2>1. mem'[s] = held /\ pc'[s] = WriteStart(flags)
      BY <1>3, <1>4 DEF Remember, Goto, TypeOK
    <2>2. /\ held.flags = flags /\ held.last = last /\ held.cur = mem[s].cur + 1
          /\ held.reserved = mem[s].cur /\ held.d_reserved = TRUE
          /\ held.seqKey = mem[s].seqKey /\ held.verKey = mem[s].verKey
      BY <1>1, <1>6, <1>7 DEF Memory
    <2> QED BY <1>2, <1>4, <2>1, <2>2 DEF last, flags
  <1>5. CASE "dontSkip" \in flags
    <2>1. mem'[s] = read /\ pc'[s] = "unlock"
      BY <1>3, <1>5 DEF Remember, Goto, TypeOK
    <2>2. /\ read.flags = flags /\ read.last = last
          /\ read.d_reserved = mem[s].d_reserved
          /\ read.seqKey = mem[s].seqKey /\ read.verKey = mem[s].verKey
      BY <1>1, <1>6 DEF Memory
    <2> QED BY <1>2, <1>5, <2>1, <2>2 DEF last, flags
  <1> QED BY <1>4, <1>5

\* Unlocking touches lockingFailed and the lock alone.
LEMMA UnlockEffect ==
  ASSUME TypeOK, NEW s \in Sessions, Unlock(s)
  PROVE  /\ pc' = [pc EXCEPT ![s] = "prompt"]
         /\ lock' = IF lock = s THEN NoSession ELSE lock
         /\ \A t \in Sessions :
               /\ mem'[t].flags = mem[t].flags /\ mem'[t].d_reserved = mem[t].d_reserved
               /\ mem'[t].reserved = mem[t].reserved /\ mem'[t].cur = mem[t].cur
               /\ mem'[t].last = mem[t].last /\ mem'[t].seqKey = mem[t].seqKey
               /\ mem'[t].verKey = mem[t].verKey
         /\ \A t \in Sessions \ {s} : mem'[t] = mem[t] /\ prompt'[t] = prompt[t]
         /\ prompt'[s].shown = TRUE /\ prompt'[s].num = AuthNum(mem[s])
  <1>1. pc' = [pc EXCEPT ![s] = "prompt"] /\ lock' = IF lock = s THEN NoSession ELSE lock
    BY DEF Unlock, ShowPrompt, Goto
  <1>2. mem' = mem \/ Remember(s, [mem[s] EXCEPT !.lockingFailed = FALSE])
    BY DEF Unlock
  <1>3. mem[s] \in Memory
    BY DEF TypeOK
  <1>4. \A t \in Sessions \ {s} : mem'[t] = mem[t]
    BY <1>2 DEF Remember, TypeOK
  <1>5. mem'[s] = mem[s] \/ mem'[s] = [mem[s] EXCEPT !.lockingFailed = FALSE]
    BY <1>2 DEF Remember, TypeOK
  <1>6. /\ mem'[s].flags = mem[s].flags /\ mem'[s].d_reserved = mem[s].d_reserved
        /\ mem'[s].reserved = mem[s].reserved /\ mem'[s].cur = mem[s].cur
        /\ mem'[s].last = mem[s].last /\ mem'[s].seqKey = mem[s].seqKey
        /\ mem'[s].verKey = mem[s].verKey
    BY <1>3, <1>5, UnlockMemory
  <1>7. \E w : prompt' = [prompt EXCEPT ![s] = [shown |-> TRUE, num |-> AuthNum(mem[s]), noLock |-> w]]
    BY DEF Unlock, ShowPrompt
  <1>8. /\ \A t \in Sessions \ {s} : prompt'[t] = prompt[t]
        /\ prompt'[s].shown = TRUE /\ prompt'[s].num = AuthNum(mem[s])
    BY <1>7 DEF TypeOK
  <1> QED BY <1>1, <1>4, <1>6, <1>8

-----------------------------------------------------------------------------
(* What holds under all options and faults.                                *)

LEMMA FaultInit == Init => FaultInv
  BY SessionsAssumption
  DEF Init, FaultInv, FreshMemory, ReservedOnlyWhenSkipping, FailureSpendsNothing,
      WritePcs, EarlyPcs

LEMMA FaultNext == TypeOK /\ FaultInv /\ [Next]_vars => FaultInv'
  <1> SUFFICES ASSUME TypeOK, FaultInv, [Next]_vars PROVE FaultInv'
    OBVIOUS
  <1> USE DEF FaultInv, ReservedOnlyWhenSkipping, FailureSpendsNothing
  <1>0. CASE UNCHANGED vars
    BY <1>0 DEF vars
  <1> SUFFICES ASSUME NEW s \in Sessions, Run(s) \/ Outside(s) PROVE FaultInv'
    BY <1>0 DEF Next
  <1> USE SessionsAssumption DEF TypeOK, Goto, Remember, Memory, EarlyPcs, CriticalPcs,
                                 ReadPcs, WritePcs
  <1>1. CASE NotConfigured(s)
    BY <1>1 DEF NotConfigured, Unconfigured
  <1>2. CASE Begin(s)
    BY <1>2 DEF Begin
  <1>3. CASE TryLock(s)
    BY <1>3 DEF TryLock, GotLock
  <1>4. CASE OpenLockFails(s)
    BY <1>4 DEF OpenLockFails, NoLock
  <1>5. CASE LockBusy(s)
    BY <1>5 DEF LockBusy
  <1>6. CASE GiveUpLock(s)
    BY <1>6 DEF GiveUpLock, NoLock
  <1>7. CASE ReadKey(s)
    BY <1>7 DEF ReadKey
  <1>8. CASE ReadCnt(s)
    BY <1>8 DEF ReadCnt
  <1>9. CASE ReadGen(s)
    <2>1. pc[s] = "readGen" /\ verdict[s] = "none" /\ mem[s].d_reserved = FALSE
      BY <1>9 DEF ReadGen
    <2>2. \/ "dontSkip" \notin mem'[s].flags /\ pc'[s] \in {"truncKey", "truncCnt"}
          \/ mem'[s].d_reserved = FALSE /\ pc'[s] = "unlock"
      BY <1>9, <2>1, ReadGenEffect DEF WriteStart
    <2>3. \A t \in Sessions \ {s} : pc'[t] = pc[t] /\ mem'[t] = mem[t]
      BY <1>9, ReadGenEffect
    <2> QED BY <2>1, <2>2, <2>3, <1>9 DEF ReadGen
  <1>10. CASE Inconsistent(s) \/ OpenReadFails(s)
    <2>1. \A t \in Sessions : mem'[t].flags = mem[t].flags /\ mem'[t].d_reserved = mem[t].d_reserved
      BY <1>10, FailReadEffect DEF Inconsistent, OpenReadFails
    <2>2. pc' = [pc EXCEPT ![s] = "done"] /\ lock' # s /\ (lock' # NoSession => lock' = lock)
      BY <1>10 DEF Inconsistent, OpenReadFails, FailRead
    <2>3. \A t \in Sessions \ {s} : verdict'[t] = verdict[t]
      BY <1>10 DEF Inconsistent, OpenReadFails, FailRead
    <2> QED BY <2>1, <2>2, <2>3
  <1>11. CASE TruncKey(s)
    BY <1>11 DEF TruncKey
  <1>12. CASE OpenKeyFails(s)
    BY <1>12 DEF OpenKeyFails
  <1>13. CASE FlushKey(s)
    BY <1>13 DEF FlushKey
  <1>14. CASE TruncCnt(s)
    BY <1>14 DEF TruncCnt
  <1>15. CASE OpenCntFails(s)
    BY <1>15 DEF OpenCntFails, AfterWrite
  <1>16. CASE TruncGen(s)
    BY <1>16 DEF TruncGen
  <1>17. CASE OpenGenFails(s)
    BY <1>17 DEF OpenGenFails, AfterWrite
  <1>18. CASE FlushCnt(s)
    BY <1>18 DEF FlushCnt
  <1>19. CASE FlushGen(s)
    BY <1>19 DEF FlushGen, AfterWrite
  <1>20. CASE Unlock(s)
    <2>1. \A t \in Sessions : mem'[t].flags = mem[t].flags /\ mem'[t].d_reserved = mem[t].d_reserved
      BY <1>20, UnlockEffect
    <2>2. pc' = [pc EXCEPT ![s] = "prompt"] /\ lock' # s /\ (lock' # NoSession => lock' = lock)
      BY <1>20 DEF Unlock, ShowPrompt
    <2> QED BY <1>20, <2>1, <2>2 DEF Unlock
  <1>21. CASE UnlockFails(s)
    BY <1>21 DEF UnlockFails, ShowPrompt
  <1>22. CASE NoResponse(s)
    BY <1>22 DEF NoResponse
  <1>23. CASE Crash(s)
    BY <1>23 DEF Crash
  <1>24. ASSUME NEW typed \in Typed(s), Answer(s, typed) PROVE FaultInv'
    BY <1>24 DEF Answer, CounterStep, WriteStart
  <1> QED
    BY <1>1, <1>2, <1>3, <1>4, <1>5, <1>6, <1>7, <1>8, <1>9, <1>10, <1>11, <1>12,
       <1>13, <1>14, <1>15, <1>16, <1>17, <1>18, <1>19, <1>20, <1>21, <1>22, <1>23, <1>24
    DEF Run, Outside

(* The lock never outlives the critical section, a reservation is never    *)
(* taken back, and with dontSkip a failed login spends nothing.            *)
THEOREM FaultTolerant ==
  Spec => [](LockNeverLeaks /\ ReservedOnlyWhenSkipping /\ FailureSpendsNothing)
  <1>1. FaultInv => LockNeverLeaks /\ ReservedOnlyWhenSkipping /\ FailureSpendsNothing
    BY DEF FaultInv, LockNeverLeaks
  <1>2. Init => FaultInv
    BY FaultInit
  <1>3. TypeOK /\ FaultInv /\ [Next]_vars => FaultInv'
    BY FaultNext
  <1> QED BY <1>1, <1>2, <1>3, TypeCorrect, PTL DEF Spec

\* ppp.c:428 is right about its dead branch: a reservation taken is never held
\* together with dontSkip, under no option and no fault.
THEOREM ReservationStands == Spec => []ReservedOnlyWhenSkipping
  BY FaultTolerant, PTL

\* --dontSkip (cmdline.c:136): without a right answer nothing is written, under
\* no fault of the locks and the files.
THEOREM WrongAnswersSpendNothing == Spec => []FailureSpendsNothing
  BY FaultTolerant, PTL

-----------------------------------------------------------------------------
(* Sessions that lock, get the lock, reserve, and are not killed in the    *)
(* middle of writeState: SessionInv is inductive, the properties of        *)
(* disciplined sessions follow from it, and they implement OneTimeCounter. *)

Own(s) == ReadsWhole(s) /\ Reserves(s) /\ Rewrites(s) /\ Prompted(s)

\* A step of s leaves what the other sessions remember alone.
Others(s) ==
    \A t \in Sessions \ {s} :
        /\ pc'[t] = pc[t] /\ mem'[t] = mem[t]
        /\ prompt'[t] = prompt[t] /\ verdict'[t] = verdict[t]

LEMMA Frame ==
  ASSUME TypeOK, NEW s \in Sessions, Run(s) \/ Outside(s)
  PROVE  Others(s)
  <1> USE DEF TypeOK, Others, Goto, Remember
  <1>1. CASE TryLock(s) \/ OpenLockFails(s) \/ LockBusy(s) \/ GiveUpLock(s)
    BY <1>1 DEF TryLock, GotLock, OpenLockFails, NoLock, LockBusy, GiveUpLock
  <1>2. CASE ReadKey(s) \/ ReadCnt(s) \/ Inconsistent(s) \/ OpenReadFails(s)
    BY <1>2 DEF ReadKey, ReadCnt, Inconsistent, OpenReadFails, FailRead
  <1>3. CASE ReadGen(s)
    BY <1>3, ReadGenEffect DEF ReadGen
  <1>4. CASE TruncKey(s) \/ OpenKeyFails(s) \/ FlushKey(s) \/ TruncCnt(s) \/ OpenCntFails(s)
    BY <1>4 DEF TruncKey, OpenKeyFails, FlushKey, TruncCnt, OpenCntFails
  <1>5. CASE TruncGen(s) \/ OpenGenFails(s) \/ FlushCnt(s) \/ FlushGen(s)
    BY <1>5 DEF TruncGen, OpenGenFails, FlushCnt, FlushGen
  <1>6. CASE Unlock(s)
    BY <1>6, UnlockEffect DEF Unlock
  <1>7. CASE UnlockFails(s)
    BY <1>7 DEF UnlockFails, ShowPrompt
  <1>8. CASE Outside(s)
    BY <1>8 DEF Outside, NotConfigured, Begin, Answer, NoResponse, Crash
  <1> QED BY <1>1, <1>2, <1>3, <1>4, <1>5, <1>6, <1>7, <1>8 DEF Run

\* Reading a whole file gives back what it holds.
LEMMA Decode ==
  ASSUME NEW buf, NEW file \in Contents, NEW key \in Contents, Whole(file), Alike(key, file)
  PROVE  /\ PppVersion(Fread(buf, file)) = file.ver
         /\ PppFlags(Fread(buf, file)) = LoadedFlags(file)
         /\ ReadData(Fread(buf, file), LoadedFlags(key)) = file.num
  <1>1. Fread(buf, file).head = file
    BY DEF Fread, Whole
  <1>2. PppVersion(Fread(buf, file)) = file.ver
    BY <1>1 DEF PppVersion, Whole
  <1>3. PppFlags(Fread(buf, file)) = LoadedFlags(file)
    BY <1>1 DEF PppFlags, LoadedFlags
  <1>4. "present" \in LoadedFlags(key) <=> file.fmt = "flagged"
    BY DEF LoadedFlags, Alike
  <1>5. ReadData(Fread(buf, file), LoadedFlags(key)) = file.num
    BY <1>1, <1>4 DEF ReadData, Whole
  <1> QED BY <1>2, <1>3, <1>5

\* In its critical section a session is alone there.
LEMMA Alone ==
  ASSUME SessionInv, NEW s \in Sessions, pc[s] \in CriticalPcs
  PROVE  lock = s /\ \A t \in Sessions \ {s} : pc[t] \notin CriticalPcs
  BY DEF SessionInv, LockIsCritical

LEMMA AtRest ==
  ASSUME SessionInv, NEW s \in Sessions, pc[s] \in CriticalPcs \ MidWritePcs
  PROVE  /\ Whole(keyFile) /\ Alike(keyFile, cntFile) /\ Alike(cntFile, genFile)
         /\ keyFile.num = KeyNum /\ cntFile.num >= StartCnt /\ genFile.num = StartGen
  <1>1. \A t \in Sessions : pc[t] \notin MidWritePcs
    BY Alone DEF CriticalPcs, MidWritePcs
  <1> QED BY <1>1 DEF SessionInv, FilesAtRest

LEMMA OthersOwn ==
  ASSUME SessionInv, NEW s \in Sessions, Others(s),
         UNCHANGED files \/ pc[s] \in CriticalPcs
  PROVE  \A t \in Sessions \ {s} : Own(t)'
  <1> SUFFICES ASSUME NEW t \in Sessions \ {s} PROVE Own(t)'
    OBVIOUS
  <1>1. /\ pc'[t] = pc[t] /\ mem'[t] = mem[t]
        /\ prompt'[t] = prompt[t] /\ verdict'[t] = verdict[t]
    BY DEF Others
  <1>2. Reserves(t)' /\ Prompted(t)'
    BY <1>1 DEF SessionInv, Reserves, Prompted
  <1>3. CASE UNCHANGED files
    <2>1. keyFile' = keyFile /\ cntFile' = cntFile /\ genFile' = genFile
      BY <1>3 DEF files
    <2> QED BY <1>1, <1>2, <2>1 DEF SessionInv, Own, ReadsWhole, Rewrites
  <1>4. CASE pc[s] \in CriticalPcs
    <2>1. pc[t] \notin CriticalPcs
      BY <1>4, Alone
    <2> QED BY <1>1, <1>2, <2>1
            DEF Own, ReadsWhole, Rewrites, CriticalPcs, ReadPcs, WritePcs, MidWritePcs
  <1> QED BY <1>3, <1>4

\* Without a step of writeState the next number stays what it is.
LEMMA QuietNextNum ==
  ASSUME SessionInv, NEW s \in Sessions, Others(s), UNCHANGED files,
         pc[s] \notin MidWritePcs, lock' = lock \/ lock \in {s, NoSession}
  PROVE  NextNum' = NextNum
  <1>1. cntFile' = cntFile
    BY DEF files
  <1>2. \A t \in Sessions \ {s} : mem'[t] = mem[t]
    BY DEF Others
  <1>3. CASE cntFile.fmt # "empty"
    BY <1>1, <1>3 DEF NextNum
  <1>4. CASE cntFile.fmt = "empty"
    <2>1. PICK t \in Sessions : pc[t] \in {"truncGen", "flushCnt"}
      BY <1>4 DEF SessionInv, NothingMissing
    <2>2. t # s /\ lock = t
      BY <2>1, Alone DEF CriticalPcs, MidWritePcs, WritePcs
    <2>3. lock' = t
      BY <2>2, SessionsAssumption
    <2> QED BY <1>1, <1>2, <2>2, <2>3 DEF NextNum
  <1> QED BY <1>3, <1>4

\* A step that touches no file and no prompt, of a session that is not in the
\* middle of writeState and does not start it.
LEMMA QuietStep ==
  ASSUME TypeOK, SessionInv, NEW s \in Sessions, Others(s),
         UNCHANGED files, prompt' = prompt,
         pc[s] \notin MidWritePcs, pc'[s] \notin WritePcs \cup {"unlock"},
         lock' = lock \/ lock \in {s, NoSession}
  PROVE  /\ FilesAtRest' /\ KeyAllowsSkipping' /\ NothingMissing'
         /\ ShownBelowReserved' /\ ShownIsSpent' /\ NoSharedReservation'
  <1>1. keyFile' = keyFile /\ cntFile' = cntFile /\ genFile' = genFile
    BY DEF files
  <1>2. \A t \in Sessions \ {s} : pc'[t] = pc[t] /\ mem'[t] = mem[t]
    BY DEF Others
  <1>3. FilesAtRest'
    BY <1>1, <1>2 DEF SessionInv, FilesAtRest, Whole, Alike
  <1>4. KeyAllowsSkipping'
    BY <1>1 DEF SessionInv, KeyAllowsSkipping
  <1>5. NothingMissing'
    BY <1>1, <1>2 DEF SessionInv, NothingMissing, Exists, MidWritePcs, WritePcs
  <1>6. ShownBelowReserved'
    BY <1>2 DEF SessionInv, ShownBelowReserved
  <1>7. NextNum' = NextNum
    BY QuietNextNum
  <1>8. ShownIsSpent'
    BY <1>7 DEF SessionInv, ShownIsSpent
  <1>9. NoSharedReservation'
    BY DEF SessionInv, NoSharedReservation
  <1> QED BY <1>3, <1>4, <1>5, <1>6, <1>8, <1>9

-----------------------------------------------------------------------------
(* The actions of a disciplined session, one lemma each for the acting     *)
(* session's part of the invariant.                                        *)

\* How the acting session's position and the lock move together.
LEMMA LockStep ==
  ASSUME TypeOK, SessionInv, NEW s \in Sessions, Others(s),
         \/ lock' = lock /\ (pc'[s] \in CriticalPcs <=> pc[s] \in CriticalPcs)
         \/ lock = NoSession /\ lock' = s /\ pc'[s] \in CriticalPcs
         \/ lock' = (IF lock = s THEN NoSession ELSE lock) /\ pc'[s] \notin CriticalPcs
  PROVE  LockIsCritical'
  <1>1. \A t \in Sessions \ {s} : pc'[t] = pc[t]
    BY DEF Others
  <1>2. \A t \in Sessions : lock = t <=> pc[t] \in CriticalPcs
    BY DEF SessionInv, LockIsCritical
  <1>3. ASSUME NEW t \in Sessions PROVE lock' = t <=> pc'[t] \in CriticalPcs
    BY <1>1, <1>2, SessionsAssumption
  <1> QED BY <1>3 DEF LockIsCritical

\* Begin, the tries for the lock, the first two reads, the answer and a crash.
LEMMA QuietActions ==
  ASSUME Disciplined, TypeOK, SessionInv, NEW s \in Sessions, Others(s),
         \/ Begin(s) \/ TryLock(s) \/ LockBusy(s) \/ ReadKey(s) \/ ReadCnt(s)
         \/ NoResponse(s) \/ Crash(s) \/ \E typed \in Typed(s) : Answer(s, typed)
  PROVE  SessionInv'
  <1> USE DEF Goto, CriticalPcs, ReadPcs, WritePcs, MidWritePcs
  <1>0. Own(s) /\ pc \in [Sessions -> Pcs] /\ mem \in [Sessions -> Memory]
    BY DEF SessionInv, Own, TypeOK
  <1>a. SUFFICES /\ Own(s)' /\ UNCHANGED files /\ prompt' = prompt
                 /\ pc[s] \notin MidWritePcs /\ pc'[s] \notin WritePcs \cup {"unlock"}
                 /\ \/ lock' = lock /\ (pc'[s] \in CriticalPcs <=> pc[s] \in CriticalPcs)
                    \/ lock = NoSession /\ lock' = s /\ pc'[s] \in CriticalPcs
                    \/ /\ lock' = (IF lock = s THEN NoSession ELSE lock)
                       /\ pc'[s] \notin CriticalPcs
    <2>1. LockIsCritical'
      BY <1>a, LockStep
    <2>2. \A t \in Sessions : Own(t)'
      BY <1>a, OthersOwn
    <2>3. lock' = lock \/ lock \in {s, NoSession}
      BY <1>a
    <2> QED BY <1>a, <2>1, <2>2, <2>3, QuietStep DEF SessionInv, Own
  <1>1. CASE Begin(s)
    BY <1>0, <1>1 DEF Begin, Own, ReadsWhole, Reserves, Rewrites, Prompted, files, Disciplined
  <1>2. CASE TryLock(s)
    <2>1. mem'[s].seqKey = mem[s].seqKey
      BY <1>0, <1>2 DEF TryLock, GotLock, Remember, Memory
    <2> QED BY <1>0, <1>2, <2>1
            DEF TryLock, GotLock, Own, ReadsWhole, Reserves, Rewrites, Prompted, files
  <1>3. CASE LockBusy(s)
    <2>1. mem'[s].seqKey = mem[s].seqKey
      BY <1>0, <1>3 DEF LockBusy, Remember, Memory
    <2> QED BY <1>0, <1>3, <2>1
            DEF LockBusy, Own, ReadsWhole, Reserves, Rewrites, Prompted, files
  <1>4. CASE ReadKey(s)
    <2> DEFINE buf == Fread(ZeroedBuffer, keyFile)
    <2>1. pc[s] = "readKey" /\ pc'[s] = "readCnt"
      BY <1>0, <1>4 DEF ReadKey
    <2>2. /\ mem'[s].verKey = PppVersion(buf) /\ mem'[s].flags = PppFlags(buf)
          /\ mem'[s].seqKey = ReadData(buf, PppFlags(buf))
      BY <1>0, <1>4 DEF ReadKey, Remember, Memory
    <2>3. Whole(keyFile) /\ Alike(keyFile, keyFile) /\ keyFile.num = KeyNum
      BY <2>1, AtRest DEF Alike
    <2>4. /\ PppVersion(buf) = keyFile.ver /\ PppFlags(buf) = LoadedFlags(keyFile)
          /\ ReadData(buf, LoadedFlags(keyFile)) = KeyNum
      BY <2>3, Decode DEF TypeOK
    <2>5. keyFile' = keyFile /\ UNCHANGED files /\ prompt' = prompt /\ verdict' = verdict /\ lock' = lock
      BY <1>4 DEF ReadKey, files
    <2> HIDE DEF buf
    <2>6. ~prompt[s].shown /\ verdict[s] = "none"
      BY <1>0, <2>1 DEF Own, Prompted
    <2> QED BY <2>1, <2>2, <2>4, <2>5, <2>6 DEF Own, ReadsWhole, Reserves, Rewrites, Prompted, LoadedFlags
  <1>5. CASE ReadCnt(s)
    <2> DEFINE buf == Fread(mem[s].buf, cntFile)
    <2>1. pc[s] = "readCnt" /\ pc'[s] = "readGen"
      BY <1>0, <1>5 DEF ReadCnt
    <2>2. /\ mem'[s].verCnt = PppVersion(buf) /\ mem'[s].cur = ReadData(buf, mem[s].flags)
          /\ mem'[s].verKey = mem[s].verKey /\ mem'[s].flags = mem[s].flags
          /\ mem'[s].seqKey = mem[s].seqKey
      BY <1>0, <1>5 DEF ReadCnt, Remember, Memory
    <2>3. Whole(cntFile) /\ Alike(keyFile, cntFile)
      BY <2>1, AtRest DEF Alike, Whole
    <2>4. mem[s].flags = LoadedFlags(keyFile)
      BY <1>0, <2>1 DEF Own, ReadsWhole
    <2>5. PppVersion(buf) = cntFile.ver /\ ReadData(buf, mem[s].flags) = cntFile.num
      BY <2>3, <2>4, Decode DEF TypeOK
    <2>6. /\ keyFile' = keyFile /\ cntFile' = cntFile /\ UNCHANGED files
          /\ prompt' = prompt /\ verdict' = verdict /\ lock' = lock
      BY <1>5 DEF ReadCnt, files
    <2> HIDE DEF buf
    <2> QED BY <1>0, <2>1, <2>2, <2>5, <2>6
            DEF Own, ReadsWhole, Reserves, Rewrites, Prompted, LoadedFlags
  <1>6. CASE NoResponse(s)
    BY <1>0, <1>6 DEF NoResponse, Own, ReadsWhole, Reserves, Rewrites, Prompted, files, TypeOK
  <1>7. CASE Crash(s)
    BY <1>0, <1>7 DEF Crash, Own, ReadsWhole, Reserves, Rewrites, Prompted, files, TypeOK, Disciplined
  <1>8. CASE \E typed \in Typed(s) : Answer(s, typed)
    <2> PICK typed \in Typed(s) : Answer(s, typed)
      BY <1>8
    <2>1. pc[s] = "prompt" /\ mem[s].d_reserved /\ "dontSkip" \notin mem[s].flags
      BY <1>0 DEF Answer, Own, Reserves
    <2>2. CounterStep(mem[s], typed = AuthNum(mem[s])) = 0
      BY <2>1 DEF CounterStep
    <2>3. pc'[s] = "done" /\ mem'[s].seqKey = mem[s].seqKey
      <3>1. pc'[s] = "done"
        BY <1>0, <2>2 DEF Answer
      <3>2. PICK cur : mem'[s] = [mem[s] EXCEPT !.cur = cur, !.d_reserved = FALSE]
        BY <1>0 DEF Answer, Remember
      <3> QED BY <1>0, <3>1, <3>2 DEF Memory
    <2>4. UNCHANGED files /\ prompt' = prompt /\ lock' = lock
      BY DEF Answer, files
    <2> QED BY <1>0, <2>1, <2>3, <2>4 DEF Own, ReadsWhole, Reserves, Rewrites, Prompted
  <1> QED BY <1>1, <1>2, <1>3, <1>4, <1>5, <1>6, <1>7, <1>8

\* The third read, with the reservation.
LEMMA ReadGenAction ==
  ASSUME Disciplined, TypeOK, SessionInv, NEW s \in Sessions, Others(s), ReadGen(s)
  PROVE  SessionInv'
  <1> USE DEF CriticalPcs, ReadPcs, WritePcs, MidWritePcs
  <1>0. Own(s) /\ pc[s] = "readGen"
    BY DEF SessionInv, Own, ReadGen
  <1>1. /\ Whole(keyFile) /\ Alike(keyFile, cntFile) /\ Alike(cntFile, genFile)
        /\ keyFile.num = KeyNum /\ cntFile.num >= StartCnt /\ genFile.num = StartGen
    BY <1>0, AtRest
  <1>2. /\ mem[s].verKey = keyFile.ver /\ mem[s].flags = LoadedFlags(keyFile)
        /\ mem[s].seqKey = KeyNum /\ mem[s].cur = cntFile.num
    BY <1>0 DEF Own, ReadsWhole
  <1>3. ReadData(Fread(mem[s].buf, genFile), mem[s].flags) = StartGen
    BY <1>1, <1>2, Decode DEF Alike, Whole, TypeOK
  <1>4. "dontSkip" \notin mem'[s].flags
    <2>1. mem'[s].flags = IF Secure THEN mem[s].flags \ {"dontSkip"} ELSE mem[s].flags
      BY ReadGenEffect
    <2>2. ~Secure => "dontSkip" \notin mem[s].flags
      BY <1>2 DEF SessionInv, KeyAllowsSkipping, LoadedFlags
    <2> QED BY <2>1, <2>2
  <1>5. "present" \in mem'[s].flags <=> keyFile.fmt = "flagged"
    BY <1>2, ReadGenEffect DEF LoadedFlags
  <1>6. /\ pc'[s] = IF keyFile.fmt = "flagged" THEN "truncCnt" ELSE "truncKey"
        /\ mem'[s].d_reserved = TRUE
        /\ mem'[s].reserved = cntFile.num /\ mem'[s].cur = cntFile.num + 1
        /\ mem'[s].last = StartGen /\ mem'[s].seqKey = KeyNum /\ mem'[s].verKey = keyFile.ver
    <2>1. /\ pc'[s] = WriteStart(mem'[s].flags)
          /\ mem'[s].d_reserved = TRUE
          /\ mem'[s].reserved = mem[s].cur /\ mem'[s].cur = mem[s].cur + 1
      BY <1>4, ReadGenEffect
    <2>2. /\ mem'[s].seqKey = mem[s].seqKey /\ mem'[s].verKey = mem[s].verKey
          /\ mem'[s].last = ReadData(Fread(mem[s].buf, genFile), mem[s].flags)
      BY ReadGenEffect
    <2> QED BY <1>2, <1>3, <1>5, <2>1, <2>2 DEF WriteStart
  <1>7. /\ keyFile' = keyFile /\ cntFile' = cntFile /\ genFile' = genFile /\ UNCHANGED files
        /\ prompt' = prompt /\ verdict' = verdict /\ lock' = lock
    BY DEF ReadGen, files
  <1>8. \A t \in Sessions \ {s} : pc'[t] = pc[t] /\ mem'[t] = mem[t] /\ pc[t] \notin CriticalPcs
    BY <1>0, Alone DEF Others
  <1>9. cntFile.fmt # "empty" /\ NextNum = cntFile.num /\ NextNum' = cntFile.num
    BY <1>1, <1>7 DEF Whole, Alike, NextNum
  <1>10. LockIsCritical'
    BY <1>0, <1>6, <1>7, LockStep
  <1>11. FilesAtRest' /\ KeyAllowsSkipping' /\ NothingMissing'
    BY <1>1, <1>7, <1>9 DEF SessionInv, FilesAtRest, Whole, Alike, KeyAllowsSkipping, NothingMissing, Exists
  <1>12. Own(s)'
    <2>1. ReadsWhole(s)' /\ Prompted(s)'
      BY <1>0, <1>6, <1>7 DEF Own, ReadsWhole, Prompted
    <2>2. Reserves(s)'
      BY <1>1, <1>4, <1>6, <1>7 DEF Reserves, TypeOK, Contents
    <2>3. Rewrites(s)'
      BY <1>1, <1>5, <1>6, <1>7, <1>9 DEF Rewrites, Alike, Whole
    <2> QED BY <2>1, <2>2, <2>3 DEF Own
  <1>13. \A t \in Sessions : Own(t)'
    BY <1>7, <1>12, OthersOwn
  <1>14. ShownIsSpent' /\ NoSharedReservation'
    BY <1>7, <1>9 DEF SessionInv, ShownIsSpent, NoSharedReservation
  <1>15. ShownBelowReserved'
    BY <1>6, <1>7, <1>8, <1>9 DEF SessionInv, ShownIsSpent, ShownBelowReserved
  <1> QED BY <1>10, <1>11, <1>13, <1>14, <1>15 DEF SessionInv, Own

\* Giving the lock back and asking.
LEMMA UnlockAction ==
  ASSUME Disciplined, TypeOK, SessionInv, NEW s \in Sessions, Others(s), Unlock(s)
  PROVE  SessionInv'
  <1> USE DEF CriticalPcs, ReadPcs, WritePcs, MidWritePcs
  <1>0. Own(s) /\ pc[s] = "unlock" /\ pc'[s] = "prompt"
    BY UnlockEffect DEF SessionInv, Own, Unlock, TypeOK
  <1>1. lock = s /\ \A t \in Sessions \ {s} : pc'[t] = pc[t] /\ pc[t] \notin CriticalPcs
    BY <1>0, Alone DEF Others
  <1>2. /\ keyFile' = keyFile /\ cntFile' = cntFile /\ genFile' = genFile /\ UNCHANGED files
        /\ verdict' = verdict /\ lock' = NoSession
    BY <1>1, UnlockEffect DEF Unlock, files
  <1>3. /\ Whole(keyFile) /\ Alike(keyFile, cntFile) /\ Alike(cntFile, genFile)
        /\ keyFile.num = KeyNum /\ cntFile.num >= StartCnt /\ genFile.num = StartGen
    BY <1>0, AtRest
  <1>4. /\ mem[s].d_reserved /\ mem[s].cur = mem[s].reserved + 1 /\ mem[s].seqKey = KeyNum
        /\ mem[s].reserved >= StartCnt /\ mem[s].last = StartGen
        /\ "dontSkip" \notin mem[s].flags /\ cntFile.num = mem[s].cur
    BY <1>0 DEF Own, Reserves, Rewrites
  <1>5. /\ prompt'[s].shown = TRUE /\ prompt'[s].num = mem[s].reserved
        /\ \A t \in Sessions \ {s} : prompt'[t] = prompt[t]
    BY <1>4, UnlockEffect DEF AuthNum
  <1>6. /\ mem'[s].flags = mem[s].flags /\ mem'[s].d_reserved = mem[s].d_reserved
        /\ mem'[s].reserved = mem[s].reserved /\ mem'[s].cur = mem[s].cur
        /\ mem'[s].last = mem[s].last /\ mem'[s].seqKey = mem[s].seqKey
    BY UnlockEffect
  <1>7. mem[s].reserved \in Int
    BY DEF TypeOK, Memory
  <1>8. cntFile.fmt # "empty" /\ NextNum' = cntFile.num /\ NextNum = cntFile.num
    BY <1>2, <1>3 DEF Whole, Alike, NextNum
  <1>9. LockIsCritical'
    BY <1>0, <1>1, <1>2, LockStep
  <1>10. FilesAtRest' /\ KeyAllowsSkipping' /\ NothingMissing'
    BY <1>2, <1>3, <1>8 DEF SessionInv, FilesAtRest, Whole, Alike, KeyAllowsSkipping, NothingMissing, Exists
  <1>11. Own(s)'
    <2>1. verdict[s] = "none"
      BY <1>0 DEF Own, Prompted
    <2> QED BY <1>0, <1>2, <1>4, <1>5, <1>6, <2>1 DEF Own, ReadsWhole, Reserves, Rewrites, Prompted
  <1>12. \A t \in Sessions : Own(t)'
    BY <1>2, <1>11, OthersOwn
  <1>13. ShownBelowReserved'
    BY <1>0, <1>1 DEF ShownBelowReserved
  <1>14. \A t \in Sessions \ {s} : prompt[t].shown => prompt[t].num < mem[s].reserved
    BY <1>0 DEF SessionInv, ShownBelowReserved
  <1>15. ShownIsSpent'
    BY <1>4, <1>5, <1>7, <1>8 DEF SessionInv, ShownIsSpent
  <1>16. NoSharedReservation'
    <2>1. \A t \in Sessions : prompt[t].num \in Int
      BY DEF TypeOK, Prompts
    <2> QED BY <1>5, <1>7, <1>14, <2>1 DEF SessionInv, NoSharedReservation
  <1> QED BY <1>9, <1>10, <1>12, <1>13, <1>15, <1>16 DEF SessionInv, Own

\* A step of writeState.  What must be shown of each is what it makes of the
\* files; the rest is common to all.
LEMMA WriteStep ==
  ASSUME TypeOK, TypeOK', SessionInv, NEW s \in Sessions, Others(s),
         prompt' = prompt, verdict' = verdict, lock' = lock,
         pc[s] \in WritePcs, pc'[s] \in WritePcs \cup {"unlock"},
         /\ mem'[s].d_reserved = mem[s].d_reserved /\ mem'[s].reserved = mem[s].reserved
         /\ mem'[s].cur = mem[s].cur /\ mem'[s].last = mem[s].last
         /\ mem'[s].seqKey = mem[s].seqKey /\ "dontSkip" \notin mem'[s].flags,
         FilesAtRest', KeyAllowsSkipping', NothingMissing', Rewrites(s)',
         cntFile'.fmt = "empty" \/ cntFile'.num >= mem[s].reserved
  PROVE  SessionInv'
  <1> USE DEF CriticalPcs, ReadPcs, WritePcs, MidWritePcs
  <1>0. Own(s)
    BY DEF SessionInv, Own
  <1>1. lock = s /\ \A t \in Sessions \ {s} : pc'[t] = pc[t] /\ pc[t] \notin CriticalPcs
    BY Alone DEF Others
  <1>2. LockIsCritical'
    BY LockStep
  <1>3. Reserves(s)
    BY <1>0 DEF Own
  <1>4. Own(s)'
    BY <1>0, <1>3 DEF Own, ReadsWhole, Reserves, Prompted
  <1>5. \A t \in Sessions : Own(t)'
    BY <1>4, OthersOwn
  <1>6. \A t \in Sessions : prompt[t].shown => prompt[t].num < mem[s].reserved
    BY DEF SessionInv, ShownBelowReserved
  <1>7. ShownBelowReserved'
    BY <1>1, <1>6 DEF ShownBelowReserved
  <1>8. ShownIsSpent'
    <2>1. /\ mem[s].reserved \in Int /\ mem[s].cur = mem[s].reserved + 1
          /\ mem'[lock'].cur = mem[s].cur
      BY <1>1, <1>3 DEF Reserves, TypeOK, Memory
    <2>2. NextNum' \in Int /\ NextNum' >= mem[s].reserved
      BY <2>1 DEF NextNum, TypeOK, Contents
    <2>3. \A t \in Sessions : prompt[t].num \in Int
      BY DEF TypeOK, Prompts
    <2> QED BY <1>6, <2>1, <2>2, <2>3 DEF ShownIsSpent
  <1>9. NoSharedReservation'
    BY DEF SessionInv, NoSharedReservation
  <1> QED BY <1>2, <1>5, <1>7, <1>8, <1>9 DEF SessionInv, Own

LEMMA WriteActions ==
  ASSUME Disciplined, TypeOK, TypeOK', SessionInv, NEW s \in Sessions, Others(s),
         \/ TruncKey(s) \/ FlushKey(s) \/ TruncCnt(s)
         \/ TruncGen(s) \/ FlushCnt(s) \/ FlushGen(s)
  PROVE  SessionInv'
  <1> USE DEF WritePcs, MidWritePcs, Exists
  <1>0. /\ Own(s) /\ pc \in [Sessions -> Pcs] /\ mem \in [Sessions -> Memory]
        /\ pc[s] \in WritePcs
    BY DEF SessionInv, Own, TypeOK, TruncKey, FlushKey, TruncCnt, TruncGen, FlushCnt, FlushGen
  <1>1. lock = s /\ \A t \in Sessions \ {s} : pc'[t] = pc[t] /\ pc[t] \notin CriticalPcs
    BY <1>0, Alone DEF Others, CriticalPcs
  <1>2. /\ mem[s].d_reserved /\ mem[s].cur = mem[s].reserved + 1 /\ mem[s].seqKey = KeyNum
        /\ mem[s].reserved >= StartCnt /\ mem[s].last = StartGen
        /\ "dontSkip" \notin mem[s].flags
        /\ mem[s].reserved \in Int /\ mem[s].cur \in Int
    BY <1>0 DEF Own, Reserves, Memory
  <1>3. ~prompt[s].shown /\ verdict[s] = "none" /\ AfterWrite(s) = "unlock"
    BY <1>0 DEF Own, Prompted, AfterWrite, CriticalPcs
  <1>4. NothingMissing /\ KeyAllowsSkipping
    BY DEF SessionInv
  <1>5. CASE TruncKey(s)
    <2>1. pc[s] = "truncKey" /\ pc'[s] = "flushKey"
      BY <1>0, <1>5 DEF TruncKey, Goto
    <2>2. mem'[s] = [mem[s] EXCEPT !.flags = @ \cup {"present"}]
      BY <1>0, <1>5 DEF TruncKey, Remember
    <2>3. /\ mem'[s].d_reserved = mem[s].d_reserved /\ mem'[s].reserved = mem[s].reserved
          /\ mem'[s].cur = mem[s].cur /\ mem'[s].last = mem[s].last
          /\ mem'[s].seqKey = mem[s].seqKey
          /\ mem'[s].flags = mem[s].flags \cup {"present"}
      BY <1>0, <2>2 DEF Memory
    <2>4. keyFile' = Empty /\ cntFile' = cntFile /\ genFile' = genFile
      BY <1>5 DEF TruncKey
    <2>5. FilesAtRest'
      BY <2>1 DEF FilesAtRest
    <2>6. cntFile.fmt # "empty" /\ cntFile.num = mem[s].reserved
      BY <1>0, <2>1 DEF Own, Rewrites
    <2>7. KeyAllowsSkipping' /\ NothingMissing'
      BY <1>4, <2>4, <2>6 DEF KeyAllowsSkipping, NothingMissing, Empty
    <2>8. Rewrites(s)'
      BY <2>1, <2>3, <2>4, <2>6 DEF Rewrites
    <2>9. prompt' = prompt /\ verdict' = verdict /\ lock' = lock
      BY <1>5 DEF TruncKey
    <2>10. "dontSkip" \notin mem'[s].flags
      BY <1>2, <2>3
    <2>11. cntFile'.num >= mem[s].reserved
      BY <1>2, <2>4, <2>6
    <2>12. pc[s] \in WritePcs /\ pc'[s] \in WritePcs \cup {"unlock"}
      BY <2>1
    <2> QED BY <2>3, <2>5, <2>7, <2>8, <2>9, <2>10, <2>11, <2>12, WriteStep
  <1>6. CASE FlushKey(s)
    <2>1. pc[s] = "flushKey" /\ pc'[s] = "truncCnt" /\ mem' = mem
      BY <1>0, <1>6 DEF FlushKey, Goto
    <2>2. /\ keyFile' = Written(mem[s].verKey, mem[s].flags, mem[s].seqKey)
          /\ cntFile' = cntFile /\ genFile' = genFile
          /\ prompt' = prompt /\ verdict' = verdict /\ lock' = lock
      BY <1>6 DEF FlushKey
    <2>3. /\ cntFile.fmt # "empty" /\ cntFile.num = mem[s].reserved
          /\ "present" \in mem[s].flags
      BY <1>0, <2>1 DEF Own, Rewrites
    <2>4. FilesAtRest'
      BY <2>1 DEF FilesAtRest
    <2>5. KeyAllowsSkipping' /\ NothingMissing'
      BY <1>2, <1>4, <2>2, <2>3 DEF KeyAllowsSkipping, NothingMissing, Written
    <2>6. Rewrites(s)'
      BY <1>2, <2>1, <2>2, <2>3 DEF Rewrites, Written
    <2> QED BY <1>2, <2>1, <2>2, <2>3, <2>4, <2>5, <2>6, WriteStep
  <1>7. CASE TruncCnt(s) \/ TruncGen(s)
    <2>1. /\ pc[s] \in {"truncCnt", "truncGen"} /\ pc'[s] \in {"truncGen", "flushCnt"}
          /\ mem' = mem
      BY <1>0, <1>7 DEF TruncCnt, TruncGen, Goto
    <2>2. /\ keyFile' = keyFile /\ prompt' = prompt /\ verdict' = verdict /\ lock' = lock
          /\ genFile' \in {genFile, Empty}
      BY <1>7 DEF TruncCnt, TruncGen
    <2>3. cntFile'.fmt = "empty" /\ Exists(genFile')
      BY <1>0, <1>4, <1>7 DEF TruncCnt, TruncGen, Empty, Own, Rewrites, NothingMissing
    <2>4. /\ keyFile.fmt = "flagged" /\ keyFile.ver = mem[s].verKey /\ keyFile.num = KeyNum
          /\ "present" \in mem[s].flags
      BY <1>0, <2>1 DEF Own, Rewrites
    <2>5. FilesAtRest'
      BY <2>1 DEF FilesAtRest
    <2>6. KeyAllowsSkipping' /\ NothingMissing'
      BY <1>4, <2>1, <2>2, <2>3 DEF KeyAllowsSkipping, NothingMissing
    <2>7. Rewrites(s)'
      BY <2>1, <2>2, <2>3, <2>4 DEF Rewrites
    <2> QED BY <1>2, <2>1, <2>2, <2>3, <2>5, <2>6, <2>7, WriteStep
  <1>8. CASE FlushCnt(s)
    <2>1. pc[s] = "flushCnt" /\ pc'[s] = "flushGen" /\ mem' = mem
      BY <1>0, <1>8 DEF FlushCnt, Goto
    <2>2. /\ cntFile' = Written(mem[s].verKey, mem[s].flags, mem[s].cur)
          /\ keyFile' = keyFile /\ genFile' = genFile
          /\ prompt' = prompt /\ verdict' = verdict /\ lock' = lock
      BY <1>8 DEF FlushCnt
    <2>3. cntFile'.fmt = "flagged" /\ cntFile'.ver = mem[s].verKey /\ cntFile'.num = mem[s].cur
      BY <2>2 DEF Written
    <2>4. /\ keyFile.fmt = "flagged" /\ keyFile.ver = mem[s].verKey /\ keyFile.num = KeyNum
          /\ "present" \in mem[s].flags
      BY <1>0, <2>1 DEF Own, Rewrites
    <2>5. FilesAtRest'
      BY <2>1 DEF FilesAtRest
    <2>6. KeyAllowsSkipping' /\ NothingMissing'
      BY <1>4, <2>2, <2>3 DEF KeyAllowsSkipping, NothingMissing
    <2>7. Rewrites(s)'
      BY <2>1, <2>2, <2>3, <2>4 DEF Rewrites
    <2> QED BY <1>2, <2>1, <2>2, <2>3, <2>5, <2>6, <2>7, WriteStep
  <1>9. CASE FlushGen(s)
    <2>1. pc[s] = "flushGen" /\ pc'[s] = "unlock" /\ mem' = mem
      BY <1>0, <1>3, <1>9 DEF FlushGen, Goto
    <2>2. /\ genFile' = Written(mem[s].verKey, mem[s].flags, mem[s].last)
          /\ keyFile' = keyFile /\ cntFile' = cntFile
          /\ prompt' = prompt /\ verdict' = verdict /\ lock' = lock
      BY <1>9 DEF FlushGen
    <2>3. genFile'.fmt = "flagged" /\ genFile'.ver = mem[s].verKey /\ genFile'.num = StartGen
      BY <1>2, <2>2 DEF Written
    <2>4. /\ keyFile.fmt = "flagged" /\ keyFile.ver = mem[s].verKey /\ keyFile.num = KeyNum
          /\ cntFile.fmt = "flagged" /\ cntFile.ver = mem[s].verKey /\ cntFile.num = mem[s].cur
      BY <1>0, <2>1 DEF Own, Rewrites
    <2>5. cntFile.num >= StartCnt
      BY <1>2, <2>4, StartAssumption
    <2>6. FilesAtRest'
      BY <2>2, <2>3, <2>4, <2>5 DEF FilesAtRest, Whole, Alike
    <2>7. KeyAllowsSkipping' /\ NothingMissing'
      BY <1>4, <2>2, <2>3, <2>4 DEF KeyAllowsSkipping, NothingMissing
    <2>8. Rewrites(s)'
      BY <2>1, <2>2, <2>4 DEF Rewrites
    <2>9. cntFile'.num >= mem[s].reserved
      BY <1>2, <2>2, <2>4
    <2> QED BY <1>2, <2>1, <2>2, <2>6, <2>7, <2>8, <2>9, WriteStep
  <1> QED BY <1>5, <1>6, <1>7, <1>8, <1>9

-----------------------------------------------------------------------------
(* The invariant, and what follows from it.                                *)

\* Without faults, and under the invariant, some actions never happen.
LEMMA NeverHappens ==
  ASSUME Disciplined, TypeOK, SessionInv, NEW s \in Sessions
  PROVE  /\ ~OpenLockFails(s) /\ ~GiveUpLock(s) /\ ~OpenKeyFails(s) /\ ~OpenCntFails(s)
         /\ ~OpenGenFails(s) /\ ~UnlockFails(s) /\ ~NotConfigured(s) /\ ~Inconsistent(s)
         /\ ~OpenReadFails(s)
  <1>1. ~OpenLockFails(s) /\ ~GiveUpLock(s) /\ ~OpenKeyFails(s)
    BY DEF Disciplined, OpenLockFails, GiveUpLock, OpenKeyFails
  <1>2. ~OpenCntFails(s) /\ ~OpenGenFails(s) /\ ~UnlockFails(s) /\ ~OpenReadFails(s)
    BY DEF Disciplined, OpenCntFails, OpenGenFails, UnlockFails, OpenReadFails
  <1>3. ~NotConfigured(s)
    BY DEF Disciplined, SessionInv, NothingMissing, NotConfigured
  <1>4. ASSUME Inconsistent(s) PROVE FALSE
    <2>1. pc[s] = "readGen"
      BY <1>4 DEF Inconsistent
    <2>2. Whole(genFile) /\ Alike(keyFile, cntFile) /\ Alike(cntFile, genFile)
      BY <2>1, AtRest DEF Alike, Whole, CriticalPcs, ReadPcs, WritePcs, MidWritePcs
    <2>3. PppVersion(Fread(mem[s].buf, genFile)) = genFile.ver
      <3>1. Alike(genFile, genFile)
        BY DEF Alike
      <3> QED BY <2>2, <3>1, Decode DEF TypeOK
    <2>4. mem[s].verKey = keyFile.ver /\ mem[s].verCnt = cntFile.ver
      BY <2>1 DEF SessionInv, ReadsWhole
    <2> QED BY <1>4, <2>2, <2>3, <2>4 DEF Inconsistent, Consistent, Alike
  <1> QED BY <1>1, <1>2, <1>3, <1>4

LEMMA SessionInit == Disciplined /\ Init => SessionInv
  <1> SUFFICES ASSUME Disciplined, Init PROVE SessionInv
    OBVIOUS
  <1>1. PICK fmt \in StartFormats, ver \in Versions, fl \in StartFlags \cup {{}} :
           /\ fmt \in {"raw", "missing"} => ver = 1
           /\ keyFile = StartFile(fmt, ver, fl, KeyNum)
           /\ cntFile = StartFile(fmt, ver, fl, StartCnt)
           /\ genFile = StartFile(fmt, ver, fl, StartGen)
    BY DEF Init
  <1>2. fmt \in {"raw", "versioned", "flagged"} /\ (fmt = "raw" => ver = 1)
    BY <1>1, StartAssumption DEF Disciplined
  <1>3. FilesAtRest /\ NothingMissing
    BY <1>1, <1>2, StartAssumption DEF FilesAtRest, NothingMissing, Whole, Alike, StartFile, Exists
  <1>4. KeyAllowsSkipping
    BY <1>1 DEF KeyAllowsSkipping, StartFile, Disciplined
  <1>5. LockIsCritical
    BY SessionsAssumption DEF Init, LockIsCritical, CriticalPcs, ReadPcs, WritePcs
  <1>6. \A s \in Sessions : ReadsWhole(s) /\ Reserves(s) /\ Rewrites(s) /\ Prompted(s)
    BY DEF Init, NoPrompt, ReadsWhole, Reserves, Rewrites, Prompted, WritePcs, MidWritePcs
  <1>7. ShownBelowReserved /\ ShownIsSpent /\ NoSharedReservation
    BY DEF Init, NoPrompt, ShownBelowReserved, ShownIsSpent, NoSharedReservation
  <1> QED BY <1>3, <1>4, <1>5, <1>6, <1>7 DEF SessionInv

LEMMA SessionNext ==
  ASSUME Disciplined, TypeOK, TypeOK', SessionInv, [Next]_vars
  PROVE  SessionInv'
  <1>1. CASE UNCHANGED vars
    BY <1>1
    DEF vars, SessionInv, LockIsCritical, FilesAtRest, KeyAllowsSkipping, NothingMissing,
        ReadsWhole, Reserves, Rewrites, Prompted, ShownBelowReserved, ShownIsSpent,
        NextNum, NoSharedReservation
  <1>2. CASE Next
    <2> PICK s \in Sessions : Run(s) \/ Outside(s)
      BY <1>2 DEF Next
    <2>1. Others(s)
      BY Frame
    <2>2. \/ Begin(s) \/ TryLock(s) \/ LockBusy(s) \/ ReadKey(s) \/ ReadCnt(s)
          \/ NoResponse(s) \/ Crash(s) \/ (\E typed \in Typed(s) : Answer(s, typed))
          \/ ReadGen(s) \/ Unlock(s)
          \/ TruncKey(s) \/ FlushKey(s) \/ TruncCnt(s)
          \/ TruncGen(s) \/ FlushCnt(s) \/ FlushGen(s)
      BY NeverHappens DEF Run, Outside
    <2> QED BY <2>1, <2>2, QuietActions, ReadGenAction, UnlockAction, WriteActions
  <1> QED BY <1>1, <1>2

(* The invariant of disciplined sessions is inductive. *)
THEOREM SessionInvariant == Disciplined => (Spec => []SessionInv)
  <1> SUFFICES ASSUME Disciplined PROVE Spec => []SessionInv
    OBVIOUS
  <1>1. Init => SessionInv
    BY SessionInit
  <1>2. TypeOK /\ TypeOK' /\ SessionInv /\ [Next]_vars => SessionInv'
    BY SessionNext
  <1> QED BY <1>1, <1>2, TypeCorrect, PTL DEF Spec

(* No two users are asked for the same passcode number (the reservation of *)
(* reservePasscodeNum under the lock of doLocking works).                  *)
THEOREM ReservationsAreDistinct == Disciplined => (Spec => []NoSharedReservation)
  <1>1. SessionInv => NoSharedReservation
    BY DEF SessionInv
  <1> QED BY <1>1, SessionInvariant, PTL

(* A number on a prompt is spent in the counter file before it is shown.   *)
THEOREM ShownNumbersAreSpent == Disciplined => (Spec => []ShownIsSpent)
  <1>1. SessionInv => ShownIsSpent
    BY DEF SessionInv
  <1> QED BY <1>1, SessionInvariant, PTL

(* With the lock free, the files are consistent and hold the user's key.   *)
THEOREM QuietFiles == Disciplined => (Spec => []QuietFilesAgree)
  <1>1. SessionInv => QuietFilesAgree
    <2> SUFFICES ASSUME SessionInv, lock = NoSession PROVE QuietFilesAgree
      BY DEF QuietFilesAgree
    <2>1. \A s \in Sessions : pc[s] \notin MidWritePcs
      BY SessionsAssumption DEF SessionInv, LockIsCritical, CriticalPcs, MidWritePcs
    <2> QED BY <2>1 DEF SessionInv, FilesAtRest, Alike, QuietFilesAgree
  <1> QED BY <1>1, SessionInvariant, PTL

(* A configured user is asked for a passcode of the configured key.        *)
THEOREM UsersAreAsked == Disciplined => (Spec => []ConfiguredUserIsAsked)
  <1>1. SessionInv => ConfiguredUserIsAsked
    BY DEF SessionInv, Prompted, ConfiguredUserIsAsked
  <1> QED BY <1>1, SessionInvariant, PTL

(* Only the owner of the lock changes the files.                           *)
THEOREM OwnersWrite == Disciplined => (Spec => WritesUnderLock)
  <1> SUFFICES ASSUME Disciplined PROVE Spec => WritesUnderLock
    OBVIOUS
  <1>1. ASSUME TypeOK, SessionInv, [Next]_vars
        PROVE  [files' # files => \E s \in Sessions : lock = s /\ pc[s] \in WritePcs]_vars
    <2> SUFFICES ASSUME Next, files' # files
                 PROVE  \E s \in Sessions : lock = s /\ pc[s] \in WritePcs
      BY <1>1 DEF vars, files
    <2> PICK s \in Sessions : Run(s) \/ Outside(s)
      BY DEF Next
    <2>1. TruncKey(s) \/ FlushKey(s) \/ TruncCnt(s) \/ TruncGen(s) \/ FlushCnt(s) \/ FlushGen(s)
      BY <1>1, NeverHappens
      DEF Run, Outside, files, Begin, TryLock, LockBusy, ReadKey, ReadCnt, ReadGen,
          NoResponse, Crash, Answer, Unlock
    <2>2. pc[s] \in WritePcs
      BY <2>1 DEF TruncKey, FlushKey, TruncCnt, TruncGen, FlushCnt, FlushGen, WritePcs
    <2> QED BY <1>1, <2>2, Alone DEF CriticalPcs
  <1> QED BY <1>1, SessionInvariant, TypeCorrect, PTL DEF Spec, WritesUnderLock

-----------------------------------------------------------------------------
(***************************************************************************)
(* Disciplined sessions implement OneTimeCounter.  The next number is      *)
(* spent when writeState truncates the counter file (from then on it is in *)
(* the writer's memory), a user is asked when the lock is given back, and  *)
(* judged at the answer.  Every other step is a stutter.                   *)
(***************************************************************************)

\* What OneTimeCounter sees of the prompts.
Asked == [s \in Sessions |-> IF prompt[s].shown THEN prompt[s].num ELSE NoNum]

Stutter == NextNum' = NextNum /\ Asked' = Asked /\ verdict' = verdict

LEMMA InitMapped == Disciplined /\ Init => Abstract!Init
  <1> SUFFICES ASSUME Disciplined, Init PROVE Abstract!Init
    OBVIOUS
  <1>1. PICK fmt \in StartFormats : fmt = cntFile.fmt /\ cntFile.num = StartCnt
    BY DEF Init, StartFile
  <1>2. NextNum = StartCnt
    BY <1>1, StartAssumption DEF NextNum
  <1>3. Asked = [s \in Sessions |-> NoNum]
    BY DEF Init, NoPrompt, Asked
  <1> QED BY <1>2, <1>3 DEF Init, Asked, Abstract!Init

\* The lock, the reads and a crash.
LEMMA ReadsStutter ==
  ASSUME Disciplined, SessionInv, NEW s \in Sessions, Others(s),
         \/ Begin(s) \/ TryLock(s) \/ LockBusy(s) \/ ReadKey(s) \/ ReadCnt(s)
         \/ ReadGen(s) \/ Crash(s)
  PROVE  Stutter
  <1>1. UNCHANGED files /\ prompt' = prompt /\ verdict' = verdict
    BY DEF Begin, TryLock, LockBusy, ReadKey, ReadCnt, ReadGen, Crash, files
  <1>2. pc[s] \notin MidWritePcs
    BY DEF Begin, TryLock, LockBusy, ReadKey, ReadCnt, ReadGen, Crash, Disciplined,
           MidWritePcs, WritePcs
  <1>3. lock' = lock \/ lock \in {s, NoSession}
    BY DEF Begin, TryLock, LockBusy, ReadKey, ReadCnt, ReadGen, Crash
  <1>4. NextNum' = NextNum
    BY <1>1, <1>2, <1>3, QuietNextNum
  <1> QED BY <1>1, <1>4 DEF Stutter, Asked

\* The steps of writeState but for the truncation of the counter.
LEMMA WritesStutter ==
  ASSUME TypeOK, SessionInv, NEW s \in Sessions,
         TruncKey(s) \/ FlushKey(s) \/ TruncGen(s) \/ FlushCnt(s) \/ FlushGen(s)
  PROVE  Stutter
  <1>1. pc[s] \in WritePcs /\ prompt' = prompt /\ verdict' = verdict /\ lock' = lock
    BY DEF TruncKey, FlushKey, TruncGen, FlushCnt, FlushGen, WritePcs
  <1>2. lock = s
    BY <1>1, Alone DEF CriticalPcs
  <1>3. Rewrites(s)
    BY DEF SessionInv
  <1>4. NextNum' = NextNum
    <2>1. CASE TruncKey(s) \/ FlushKey(s) \/ FlushGen(s)
      <3>1. cntFile' = cntFile /\ cntFile.fmt # "empty"
        BY <1>3, <2>1 DEF TruncKey, FlushKey, FlushGen, Rewrites
      <3> QED BY <3>1 DEF NextNum
    <2>2. CASE TruncGen(s)
      BY <1>1, <2>2 DEF TruncGen, NextNum
    <2>3. CASE FlushCnt(s)
      <3>1. cntFile.fmt = "empty" /\ cntFile'.fmt = "flagged" /\ cntFile'.num = mem[s].cur
        BY <1>3, <2>3 DEF FlushCnt, Rewrites, Written
      <3> QED BY <1>2, <3>1 DEF NextNum
    <2> QED BY <2>1, <2>2, <2>3
  <1> QED BY <1>1, <1>4 DEF Stutter, Asked

\* The counter is truncated: the reserved number is spent.
LEMMA TruncSpends ==
  ASSUME TypeOK, SessionInv, NEW s \in Sessions, TruncCnt(s)
  PROVE  Abstract!Spend
  <1>1. /\ pc[s] = "truncCnt" /\ cntFile' = Empty /\ mem' = mem /\ lock' = lock
        /\ prompt' = prompt /\ verdict' = verdict
    BY DEF TruncCnt
  <1>2. lock = s
    BY <1>1, Alone DEF CriticalPcs, WritePcs
  <1>3. cntFile.fmt # "empty" /\ cntFile.num = mem[s].reserved /\ mem[s].cur = mem[s].reserved + 1
    BY <1>1 DEF SessionInv, Rewrites, Reserves, WritePcs
  <1>4. NextNum' = NextNum + 1
    BY <1>1, <1>2, <1>3 DEF NextNum, Empty
  <1>5. Asked' = Asked
    BY <1>1 DEF Asked
  <1> QED BY <1>1, <1>4, <1>5 DEF Abstract!Spend, Asked

\* The lock is given back and the prompt shown: the user is asked.
LEMMA UnlockAsks ==
  ASSUME TypeOK, SessionInv, NEW s \in Sessions, Others(s), Unlock(s)
  PROVE  Abstract!Ask(s)
  <1>1. pc[s] = "unlock" /\ UNCHANGED files /\ verdict' = verdict
    BY DEF Unlock, files
  <1>2. lock = s
    BY <1>1, Alone DEF CriticalPcs
  <1>3. /\ mem[s].d_reserved /\ mem[s].cur = mem[s].reserved + 1
        /\ mem[s].reserved >= StartCnt /\ cntFile.num = mem[s].cur
        /\ mem[s].reserved \in Int
    BY <1>1 DEF SessionInv, Reserves, Rewrites, TypeOK, Memory
  <1>4. cntFile.fmt # "empty"
    BY <1>1, AtRest DEF Whole, Alike, CriticalPcs, MidWritePcs, WritePcs
  <1>5. NextNum = mem[s].reserved + 1 /\ NextNum' = NextNum
    BY <1>1, <1>3, <1>4 DEF NextNum, files
  <1>6. /\ prompt'[s].shown = TRUE /\ prompt'[s].num = mem[s].reserved
        /\ \A t \in Sessions \ {s} : prompt'[t] = prompt[t]
    BY <1>3, UnlockEffect DEF AuthNum
  <1>7. ~prompt[s].shown
    BY <1>1 DEF SessionInv, Prompted, CriticalPcs
  <1>8. mem[s].reserved \in StartCnt .. NextNum - 1 /\ mem[s].reserved # NoNum
    BY <1>3, <1>5, StartAssumption DEF NoNum
  <1>9. ASSUME NEW t \in Sessions PROVE Asked[t] # mem[s].reserved
    <2>1. prompt[t].shown => prompt[t].num < mem[s].reserved
      BY <1>1 DEF SessionInv, ShownBelowReserved
    <2>2. prompt[t].num \in Int
      BY DEF TypeOK, Prompts
    <2> QED BY <1>3, <1>8, <2>1, <2>2 DEF Asked
  <1>10. Asked[s] = NoNum /\ Asked' = [Asked EXCEPT ![s] = mem[s].reserved]
    BY <1>6, <1>7 DEF Asked
  <1> QED BY <1>1, <1>5, <1>8, <1>9, <1>10 DEF Abstract!Ask, Abstract!Range, Asked

\* The verdict.
LEMMA AnswerJudges ==
  ASSUME TypeOK, SessionInv, NEW s \in Sessions, Others(s),
         NoResponse(s) \/ \E typed \in Typed(s) : Answer(s, typed)
  PROVE  Abstract!Judge(s)
  <1>1. /\ pc[s] = "prompt" /\ UNCHANGED files /\ prompt' = prompt /\ lock' = lock
        /\ \E v \in {"success", "auth_err"} : verdict' = [verdict EXCEPT ![s] = v]
    BY DEF NoResponse, Answer, files
  <1>2. prompt[s].shown /\ prompt[s].num >= StartCnt /\ verdict[s] = "none"
    BY <1>1 DEF SessionInv, Prompted
  <1>3. prompt[s].num # NoNum
    BY <1>2, StartAssumption DEF NoNum, TypeOK, Prompts
  <1>4. NextNum' = NextNum
    BY <1>1, QuietNextNum DEF MidWritePcs, WritePcs
  <1>5. Asked' = Asked /\ Asked[s] # NoNum
    BY <1>1, <1>2, <1>3 DEF Asked
  <1> QED BY <1>1, <1>2, <1>4, <1>5 DEF Abstract!Judge, Asked

LEMMA NextMapped ==
  ASSUME Disciplined, TypeOK, SessionInv, [Next]_vars
  PROVE  [Abstract!Next]_<<NextNum, Asked, verdict>>
  <1>1. CASE UNCHANGED vars
    BY <1>1 DEF vars, NextNum, Asked
  <1>2. CASE Next
    <2> PICK s \in Sessions : Run(s) \/ Outside(s)
      BY <1>2 DEF Next
    <2>1. Others(s)
      BY Frame
    <2>2. \/ Begin(s) \/ TryLock(s) \/ LockBusy(s) \/ ReadKey(s) \/ ReadCnt(s)
          \/ ReadGen(s) \/ Crash(s)
          \/ TruncKey(s) \/ FlushKey(s) \/ TruncGen(s) \/ FlushCnt(s) \/ FlushGen(s)
          \/ TruncCnt(s) \/ Unlock(s)
          \/ NoResponse(s) \/ \E typed \in Typed(s) : Answer(s, typed)
      BY NeverHappens DEF Run, Outside
    <2>3. Stutter \/ Abstract!Spend \/ Abstract!Ask(s) \/ Abstract!Judge(s)
      BY <2>1, <2>2, ReadsStutter, WritesStutter, TruncSpends, UnlockAsks, AnswerJudges
    <2> QED BY <2>3 DEF Abstract!Next, Stutter
  <1> QED BY <1>1, <1>2

(* Disciplined sessions implement the counter that hands out each passcode *)
(* number once: reservePasscodeNum, writeState and pppAuthenticate, step   *)
(* by step, are steps of OneTimeCounter or none.                           *)
THEOREM SessionsImplementCounter == Disciplined => (Spec => ImplementsOneTimeCounter)
  <1> SUFFICES ASSUME Disciplined PROVE Spec => ImplementsOneTimeCounter
    OBVIOUS
  <1>1. Init => Abstract!Init
    BY InitMapped
  <1>2. TypeOK /\ SessionInv /\ [Next]_vars => [Abstract!Next]_<<NextNum, Asked, verdict>>
    BY NextMapped
  <1>3. Asked = [s \in Sessions |-> IF prompt[s].shown THEN prompt[s].num ELSE NoNum]
    BY DEF Asked
  <1> QED BY <1>1, <1>2, TypeCorrect, SessionInvariant, PTL
          DEF Spec, ImplementsOneTimeCounter, Abstract!Spec, Asked
=============================================================================
