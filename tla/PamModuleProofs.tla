-------------------------- MODULE PamModuleProofs --------------------------
(***************************************************************************)
(* Proofs about the PAM module as a library: each safety property of       *)
(* PamModule holds for any users, any options, any number of calls.        *)
(***************************************************************************)
EXTENDS PamModule, FiniteSetTheorems, TLAPS

LEMMA RenewType ==
  ASSUME TypeOK, NEW ps \in SUBSET Pointers, Renew(ps)
  PROVE  ptr' \in [Pointers -> {"null", "allocated", "freed"}] /\ broken' \subseteq Faults
  BY DEF TypeOK, Renew, Faults

LEMMA FreeAllType ==
  ASSUME TypeOK, FreeAll
  PROVE  ptr' \in [Pointers -> {"null", "allocated", "freed"}] /\ broken' \subseteq Faults
  BY DEF TypeOK, FreeAll, Faults

LEMMA NamedType ==
  ASSUME TypeOK, pc = "read", call.user \in Users
  PROVE  Named \in Users
  BY DEF TypeOK, Named

\* A call is about a user, and from the first file on some user's names are kept.
CallsNameUsers ==
    /\ pc # "idle" => call.user \in Users \/ pc = "dead"
    /\ pc \in {"reserve", "prompt", "answer", "warn"} => fname \in Users

Typed == TypeOK /\ CallsNameUsers

LEMMA ConfigurationType ==
  ASSUME NEW c \in Configurations
  PROVE  c \in [reads : Readings, flags : SUBSET {"dontSkip"}, ver : {1, 2}, left : Int]
  <1>1. CASE c \in [reads : {"whole"}, flags : SUBSET {"dontSkip"}, ver : {1, 2}, left : StartLeft]
    BY <1>1, PamModuleAssumption DEF Readings
  <1>2. CASE c \in [reads : Readings \ {"whole"}, flags : SUBSET {"dontSkip"},
                    ver : {2}, left : {0}]
    BY <1>2
  <1> QED BY <1>1, <1>2 DEF Configurations

LEMMA InitType == Init => Typed
  <1> SUFFICES ASSUME Init PROVE Typed
    OBVIOUS
  <1>1. \A c \in Configurations :
          c \in [reads : Readings, flags : SUBSET {"dontSkip"}, ver : {1, 2}, left : Int]
    BY ConfigurationType
  <1>2. conf \in [Users -> [reads : Readings, flags : SUBSET {"dontSkip"},
                            ver : {1, 2}, left : Int]]
    BY <1>1 DEF Init
  <1>3. call \in [kind : Kinds, user : Users \cup {Nobody}]
    BY DEF Init, Kinds
  <1>4. ptr \in [Pointers -> {"null", "allocated", "freed"}] /\ said \in Seq(Messages)
    BY DEF Init
  <1>5. TypeOK
    <2> DEFINE Numbers == /\ numbers \in {"unset", "allocated", "cleared"}
                          /\ flags \in SUBSET {"dontSkip"}
                          /\ keyVer \in 0 .. 2 /\ left \in Int
                          /\ warnNum \in 0 .. 4
                          /\ served \in Nat /\ calls \in Nat /\ edits \in Nat
    <2>1. Numbers
      BY DEF Init
    <2>2. /\ fname \in Users \cup {Nobody} /\ seqKey \in Users \cup {Nobody}
          /\ pc \in Pcs /\ broken \subseteq Faults
      BY DEF Init, Pcs, Faults
    <2>3. d_reserved \in BOOLEAN
      BY Zenon DEF Init
    <2> QED BY <1>2, <1>3, <1>4, <2>1, <2>2, <2>3 DEF TypeOK
  <1>6. CallsNameUsers
    BY DEF Init, CallsNameUsers
  <1> QED BY <1>5, <1>6 DEF Typed

LEMMA NextType == Typed /\ [Next]_vars => Typed'
  <1> SUFFICES ASSUME Typed, [Next]_vars PROVE Typed'
    OBVIOUS
  <1> USE DEF Typed, buffers, statics, history
  <1>0. \A c \in Configurations :
          c \in [reads : Readings, flags : SUBSET {"dontSkip"}, ver : {1, 2}, left : Int]
    BY ConfigurationType
  <1>1. CASE UserEdits
    BY <1>0, <1>1 DEF UserEdits, TypeOK, CallsNameUsers
  <1>2. CASE Enter
    <2>1. call' \in [kind : Kinds, user : Users] /\ pc' = "read"
      BY <1>2 DEF Enter
    <2>2. call'.user \in Users /\ call' \in [kind : Kinds, user : Users \cup {Nobody}]
      BY <2>1
    <2>3. said' \in Seq(Messages) /\ calls' \in Nat
      BY <1>2 DEF Enter, TypeOK
    <2>4. /\ UNCHANGED <<conf, ptr, broken, fname, flags, keyVer, warnNum, served, edits>>
          /\ numbers' = "allocated" /\ seqKey' = Nobody /\ left' = 0 /\ d_reserved' = FALSE
      BY <1>2 DEF Enter
    <2>5. TypeOK'
      <3>1. /\ numbers' \in {"unset", "allocated", "cleared"}
            /\ seqKey' \in Users \cup {Nobody} /\ left' \in Int /\ pc' \in Pcs
        BY <2>1, <2>4 DEF Pcs
      <3>2. d_reserved' \in BOOLEAN
        BY <2>4, Zenon
      <3> QED BY <2>2, <2>3, <2>4, <3>1, <3>2 DEF TypeOK
    <2>6. CallsNameUsers'
      BY <2>1, <2>2 DEF CallsNameUsers
    <2> QED BY <2>5, <2>6 DEF Typed
  <1>3. CASE Abort
    BY <1>3 DEF Abort, TypeOK, CallsNameUsers, Pcs
  <1>4. CASE ReadMissing \/ ReadBadHeader \/ ReadBadCounter \/ ReadWhole
    <2>1. pc = "read" /\ Named \in Users
      BY <1>4, NamedType DEF ReadMissing, ReadBadHeader, ReadBadCounter, ReadWhole, CallsNameUsers
    <2>2. AfterFailedRead(call.kind) \in {"cleanup", "idle"}
      BY DEF AfterFailedRead
    <2>3. conf[Named].left \in Int /\ conf[Named].flags \in SUBSET {"dontSkip"}
                /\ conf[Named].ver \in 0 .. 2
      BY <2>1 DEF TypeOK
    <2>4. CASE ReadMissing
      BY <2>1, <2>2, <2>4 DEF ReadMissing, TypeOK, CallsNameUsers, Pcs
    <2>5. CASE ReadBadHeader
      BY <2>1, <2>2, <2>5 DEF ReadBadHeader, TypeOK, CallsNameUsers, Pcs, Faults
    <2>6. CASE ReadBadCounter
      BY <2>1, <2>2, <2>3, <2>6 DEF ReadBadCounter, TypeOK, CallsNameUsers, Pcs
    <2>7. CASE ReadWhole
      <3>1. ptr' \in [Pointers -> {"null", "allocated", "freed"}] /\ broken' \subseteq Faults
        BY <2>7, RenewType DEF ReadWhole, Pointers
      <3>2. FlagsInForce(call.kind, conf[Named].flags) \in SUBSET {"dontSkip"}
        BY <2>3 DEF FlagsInForce, TypeOK
      <3> QED BY <2>1, <2>3, <2>7, <3>1, <3>2 DEF ReadWhole, TypeOK, CallsNameUsers, Pcs
    <2> QED BY <1>4, <2>4, <2>5, <2>6, <2>7
  <1>5. CASE Reserve \/ Answer
    <2>1. left - 1 \in Int
      BY DEF TypeOK
    <2>2. [conf EXCEPT ![fname].left = left - 1]
             \in [Users -> [reads : Readings, flags : SUBSET {"dontSkip"},
                            ver : {1, 2}, left : Int]]
      <3>1. fname \in Users
        BY <1>5 DEF Reserve, Answer, CallsNameUsers
      <3>2. conf[fname] \in [reads : Readings, flags : SUBSET {"dontSkip"},
                             ver : {1, 2}, left : Int]
        BY <3>1 DEF TypeOK
      <3>3. [conf[fname] EXCEPT !.left = left - 1]
               \in [reads : Readings, flags : SUBSET {"dontSkip"}, ver : {1, 2}, left : Int]
        BY <2>1, <3>2
      <3> QED BY <3>1, <3>3 DEF TypeOK
    <2>3. CASE Reserve
      BY <2>1, <2>2, <2>3 DEF Reserve, TypeOK, CallsNameUsers, Pcs
    <2>4. CASE Answer
      BY <2>1, <2>2, <2>4 DEF Answer, TypeOK, CallsNameUsers, Pcs
    <2> QED BY <1>5, <2>3, <2>4
  <1>6. CASE Prompt
    <2>1. ptr' \in [Pointers -> {"null", "allocated", "freed"}] /\ broken' \subseteq Faults
      BY <1>6, RenewType DEF Prompt, Pointers
    <2> QED BY <1>6, <2>1 DEF Prompt, TypeOK, CallsNameUsers, Pcs
  <1>7. CASE Warn
    <2>1. ptr' \in [Pointers -> {"null", "allocated", "freed"}] /\ broken' \subseteq Faults
      BY <1>7, RenewType DEF Warn, Pointers, TypeOK
    <2>2. AfterWarning(warnNum) \in 0 .. 4
      BY DEF AfterWarning, TypeOK
    <2>3. MessagesAt(warnNum) \subseteq Messages
      BY DEF MessagesAt
    <2>4. said' \in Seq(Messages)
      <3>1. said \in Seq(Messages)
        BY DEF TypeOK
      <3>2. said' = said \/ \E m \in Messages : said' = Append(said, m)
        BY <1>7, <2>3 DEF Warn
      <3> QED BY <3>1, <3>2
    <2> QED BY <1>7, <2>1, <2>2, <2>4 DEF Warn, TypeOK, CallsNameUsers, Pcs
  <1>8. CASE Cleanup
    BY <1>8, FreeAllType DEF Cleanup, TypeOK, CallsNameUsers, Pcs
  <1>9. CASE UNCHANGED vars
    BY <1>9 DEF vars, TypeOK, CallsNameUsers
  <1> QED BY <1>1, <1>2, <1>3, <1>4, <1>5, <1>6, <1>7, <1>8, <1>9 DEF Next

LEMMA AlwaysTyped == Spec => []Typed
  BY InitType, NextType, PTL DEF Spec

\* Every variable keeps the values that its declaration allows, and a call that
\* got past the files has the names of some user's files (ppp.c, keyfiles.c).
THEOREM ModuleTypes == Spec => []TypeOK
  <1>1. Typed => TypeOK
    BY DEF Typed
  <1> QED BY <1>1, AlwaysTyped, PTL

-----------------------------------------------------------------------------
(* What pam_sm_authenticate leaves behind.                                 *)

\* pam_ppp.c, every way out of pam_sm_authenticate goes through pppCleanup: no
\* key and no number is left in memory when it has returned.
THEOREM AuthenticateLeavesNoKey == Spec => []KeyLeavesMemory
  <1>1. Init => KeyLeavesMemory
    BY DEF Init, KeyLeavesMemory
  <1>2. KeyLeavesMemory /\ [Next]_vars => KeyLeavesMemory'
    <2> SUFFICES ASSUME KeyLeavesMemory, [Next]_vars PROVE KeyLeavesMemory'
      OBVIOUS
    <2> USE DEF KeyLeavesMemory, statics, history
    <2>1. CASE UserEdits \/ Enter \/ Abort
      BY <2>1 DEF UserEdits, Enter, Abort
    <2>2. CASE ReadMissing \/ ReadBadHeader \/ ReadBadCounter \/ ReadWhole
      BY <2>2 DEF ReadMissing, ReadBadHeader, ReadBadCounter, ReadWhole, AfterFailedRead
    <2>3. CASE Reserve \/ Prompt \/ Answer \/ Warn
      BY <2>3 DEF Reserve, Prompt, Answer, Warn
    <2>4. CASE Cleanup
      BY <2>4 DEF Cleanup
    <2>5. CASE UNCHANGED vars
      BY <2>5 DEF vars
    <2> QED BY <2>1, <2>2, <2>3, <2>4, <2>5 DEF Next
  <1> QED BY <1>1, <1>2, PTL DEF Spec

-----------------------------------------------------------------------------
(* What "secure" is worth.                                                 *)

\* The option has cleared dontSkip before anything is reserved.
SecureClears ==
    /\ pc \in {"reserve", "prompt", "answer"} => call.kind = "authenticate"
    /\ Secure => /\ pc = "reserve" => "dontSkip" \notin flags
                 /\ pc \in {"prompt", "answer"} => d_reserved

\* README.md:54, secure is to "disallow usage of --dontSkip": with it nobody is
\* prompted without a reservation, whatever flags earlier calls of the process,
\* for whatever users, left in _ppp_flags.
THEOREM SecureReserves == Spec => []SecureAlwaysReserves
  <1>1. Init => SecureClears
    BY DEF Init, SecureClears
  <1>2. Typed /\ SecureClears /\ [Next]_vars => SecureClears'
    <2> SUFFICES ASSUME Typed, SecureClears, [Next]_vars PROVE SecureClears'
      OBVIOUS
    <2> USE DEF SecureClears, statics, history
    <2>1. CASE UserEdits \/ Enter \/ Abort
      BY <2>1 DEF UserEdits, Enter, Abort
    <2>2. CASE ReadMissing \/ ReadBadHeader \/ ReadBadCounter
      BY <2>2 DEF ReadMissing, ReadBadHeader, ReadBadCounter, AfterFailedRead
    <2>3. CASE ReadWhole
      <3>1. call.kind \in Kinds
        BY DEF Typed, TypeOK
      <3>2. CASE call.kind = "authenticate"
        BY <2>3, <3>2 DEF ReadWhole, FlagsInForce
      <3>3. CASE call.kind = "open_session"
        BY <2>3, <3>3 DEF ReadWhole
      <3> QED BY <3>1, <3>2, <3>3 DEF Kinds
    <2>4. CASE Reserve \/ Prompt \/ Answer \/ Warn \/ Cleanup
      BY <2>4 DEF Reserve, Prompt, Answer, Warn, Cleanup
    <2>5. CASE UNCHANGED vars
      BY <2>5 DEF vars
    <2> QED BY <2>1, <2>2, <2>3, <2>4, <2>5 DEF Next
  <1>3. SecureClears => SecureAlwaysReserves
    BY DEF SecureClears, SecureAlwaysReserves
  <1> QED BY <1>1, <1>2, <1>3, AlwaysTyped, PTL DEF Spec

-----------------------------------------------------------------------------
(* What a session is told.                                                 *)

Said == {said[i] : i \in 1 .. Len(said)}

SaidOnce == \A i, j \in 1 .. Len(said) : i # j => said[i] # said[j]

\* What the first n cases of the switch have to say.
Before(n) == UNION {MessagesAt(k) : k \in 0 .. n - 1}

\* warnNum counts the cases that have had their turn, and nothing else moves it.
Telling ==
    /\ pc \notin {"warn", "dead"} => warnNum = 0
    /\ pc \in {"reserve", "prompt", "answer"} => call.kind = "authenticate"
    /\ pc \in {"read", "reserve", "prompt", "answer"} => said = <<>>
    /\ pc = "warn" => Said = Before(warnNum)
    /\ pc = "cleanup" /\ call.kind = "open_session" => Said = Due
    /\ SaidOnce

LEMMA Distinct ==
  ASSUME NEW n \in 0 .. 4
  PROVE  MessagesAt(n) \cap Before(n) = {}
  <1>1. ASSUME NEW k \in 0 .. n - 1, NEW m \in MessagesAt(n), m \in MessagesAt(k)
        PROVE  FALSE
    <2>1. k # n /\ k \in 0 .. 4
      OBVIOUS
    <2> QED BY <1>1, <2>1 DEF MessagesAt
  <1> QED BY <1>1 DEF Before

LEMMA AtMostOne ==
  ASSUME NEW n \in 0 .. 4, NEW a \in MessagesAt(n), NEW b \in MessagesAt(n)
  PROVE  a = b
  BY DEF MessagesAt

LEMMA OneMoreCase ==
  ASSUME NEW n \in 0 .. 3
  PROVE  Before(n + 1) = Before(n) \cup MessagesAt(n)
  <1>1. 0 .. (n + 1) - 1 = (0 .. n - 1) \cup {n}
    OBVIOUS
  <1> QED BY <1>1 DEF Before

LEMMA AppendSaid ==
  ASSUME said \in Seq(Messages), NEW m \in Messages, said' = Append(said, m)
  PROVE  /\ Said' = Said \cup {m}
         /\ SaidOnce /\ m \notin Said => SaidOnce'
  <1>1. /\ Len(said') = Len(said) + 1 /\ Len(said) \in Nat
        /\ \A i \in 1 .. Len(said) : said'[i] = said[i]
        /\ said'[Len(said) + 1] = m
    OBVIOUS
  <1>2. 1 .. Len(said') = (1 .. Len(said)) \cup {Len(said) + 1}
    BY <1>1
  <1>3. Said' = Said \cup {m}
    BY <1>1, <1>2 DEF Said
  <1>4. ASSUME SaidOnce, m \notin Said PROVE SaidOnce'
    <2> SUFFICES ASSUME NEW i \in 1 .. Len(said'), NEW j \in 1 .. Len(said'), i # j
                 PROVE  said'[i] # said'[j]
      BY DEF SaidOnce
    <2>1. CASE i \in 1 .. Len(said) /\ j \in 1 .. Len(said)
      BY <1>1, <1>4, <2>1 DEF SaidOnce
    <2>2. CASE i = Len(said) + 1 /\ j \in 1 .. Len(said)
      BY <1>1, <1>4, <2>2 DEF Said
    <2>3. CASE j = Len(said) + 1 /\ i \in 1 .. Len(said)
      BY <1>1, <1>4, <2>3 DEF Said
    <2> QED BY <1>2, <2>1, <2>2, <2>3
  <1> QED BY <1>3, <1>4

LEMMA WarnTells ==
  ASSUME Typed, Telling, Warn
  PROVE  Telling'
  <1>1. /\ pc = "warn" /\ warnNum \in 0 .. 4 /\ said \in Seq(Messages)
        /\ Said = Before(warnNum) /\ SaidOnce
    BY DEF Warn, Telling, Typed, TypeOK
  <1>2. left' = left /\ keyVer' = keyVer /\ call' = call
    BY DEF Warn
  <1>3. \A n \in 0 .. 4 : MessagesAt(n)' = MessagesAt(n)
    BY <1>2 DEF MessagesAt
  <1>4. \A n \in 0 .. 4 : Before(n)' = Before(n)
    BY <1>3 DEF Before
  <1>5. Due = Before(4) /\ Due' = Due
    <2>1. 0 .. 3 = 0 .. 4 - 1
      OBVIOUS
    <2>2. Due = Before(4)
      BY <2>1 DEF Due, Before
    <2>3. Due' = Before(4)'
      BY <2>1 DEF Due, Before
    <2> QED BY <1>4, <2>2, <2>3
  <1>6. Said' = Said \cup MessagesAt(warnNum) /\ SaidOnce'
    <2>1. CASE MessagesAt(warnNum) = {}
      <3>1. said' = said
        BY <2>1 DEF Warn
      <3> QED BY <1>1, <2>1, <3>1 DEF Said, SaidOnce
    <2>2. CASE MessagesAt(warnNum) # {}
      <3>1. PICK m \in MessagesAt(warnNum) : said' = Append(said, m)
        BY <2>2 DEF Warn
      <3>2. m \in Messages /\ MessagesAt(warnNum) = {m}
        BY <1>1, AtMostOne DEF MessagesAt
      <3>3. m \notin Said
        BY <1>1, Distinct
      <3> QED BY <1>1, <3>1, <3>2, <3>3, AppendSaid
    <2> QED BY <2>1, <2>2
  <1>7. CASE warnNum \in 0 .. 3
    <2>1. warnNum' = warnNum + 1 /\ pc' = "warn"
      BY <1>7 DEF Warn, AfterWarning
    <2>2. Said' = Before(warnNum + 1)
      BY <1>1, <1>6, <1>7, OneMoreCase
    <2>3. Said' = Before(warnNum)'
      <3>1. 0 .. warnNum' - 1 \subseteq 0 .. 4
        BY <1>7, <2>1
      <3>2. Before(warnNum)' = Before(warnNum + 1)
        BY <1>3, <2>1, <3>1 DEF Before
      <3> QED BY <2>2, <3>2
    <2> QED BY <1>6, <2>1, <2>3 DEF Telling
  <1>8. CASE warnNum = 4
    <2>1. warnNum' = 0 /\ pc' = "cleanup"
      BY <1>8 DEF Warn, AfterWarning
    <2>2. MessagesAt(4) = {}
      BY DEF MessagesAt
    <2>3. Said' = Due
      BY <1>1, <1>5, <1>6, <1>8, <2>2
    <2> QED BY <1>5, <1>6, <2>1, <2>3 DEF Telling
  <1> QED BY <1>1, <1>7, <1>8

LEMMA NextTelling == Typed /\ Telling /\ [Next]_vars => Telling'
  <1> SUFFICES ASSUME Typed, Telling, [Next]_vars PROVE Telling'
    OBVIOUS
  <1>0. ASSUME said' = said PROVE Said' = Said /\ (SaidOnce' <=> SaidOnce)
    BY <1>0 DEF Said, SaidOnce
  <1>1. ASSUME said' = <<>> PROVE SaidOnce'
    BY <1>1 DEF SaidOnce
  <1>2. ASSUME UNCHANGED <<left, keyVer>> PROVE Due' = Due
    <2>1. \A n \in 0 .. 3 : MessagesAt(n)' = MessagesAt(n)
      BY <1>2 DEF MessagesAt
    <2> QED BY <2>1 DEF Due
  <1> USE DEF statics, history
  <1>3. CASE UserEdits \/ Abort
    BY <1>0, <1>3 DEF Telling, UserEdits, Abort
  <1>4. CASE Enter
    BY <1>1, <1>4 DEF Telling, Enter
  <1>5. CASE ReadMissing \/ ReadBadHeader \/ ReadBadCounter
    <2>1. /\ said' = said /\ warnNum' = warnNum /\ call' = call /\ pc = "read"
          /\ pc' = AfterFailedRead(call.kind)
      BY <1>5 DEF ReadMissing, ReadBadHeader, ReadBadCounter
    <2>2. pc' = "idle" \/ (pc' = "cleanup" /\ call.kind # "open_session")
      <3>1. CASE call.kind = "authenticate"
        BY <2>1, <3>1 DEF AfterFailedRead
      <3>2. CASE call.kind # "authenticate"
        <4>1. AfterFailedRead(call.kind) = "idle"
          BY <3>2 DEF AfterFailedRead
        <4> QED BY <2>1, <4>1
      <3> QED BY <3>1, <3>2
    <2> QED BY <1>0, <2>1, <2>2 DEF Telling
  <1>6. CASE ReadWhole
    <2>1. /\ said' = said /\ warnNum' = warnNum /\ call' = call /\ pc = "read"
          /\ pc' = IF call.kind = "authenticate" THEN "reserve" ELSE "warn"
      BY <1>6 DEF ReadWhole
    <2>2. said = <<>> /\ warnNum = 0
      BY <2>1 DEF Telling
    <2>3. Said' = {} /\ SaidOnce'
      BY <2>1, <2>2, <1>1 DEF Said
    <2>4. Before(warnNum)' = {}
      BY <2>1, <2>2 DEF Before
    <2> QED BY <2>1, <2>2, <2>3, <2>4 DEF Telling
  <1>7. CASE Reserve \/ Prompt \/ Answer
    <2>1. /\ said' = said /\ warnNum' = warnNum /\ call' = call
          /\ pc \in {"reserve", "prompt", "answer"}
          /\ pc' \in {"prompt", "answer", "cleanup"}
      BY <1>7 DEF Reserve, Prompt, Answer
    <2> QED BY <1>0, <2>1 DEF Telling
  <1>8. CASE Warn
    BY <1>8, WarnTells
  <1>9. CASE Cleanup
    BY <1>0, <1>9 DEF Telling, Cleanup
  <1>10. CASE UNCHANGED vars
    BY <1>0, <1>2, <1>10 DEF Telling, vars, Before, MessagesAt
  <1> QED BY <1>3, <1>4, <1>5, <1>6, <1>7, <1>8, <1>9, <1>10 DEF Next

\* The three messages about passcodes exclude each other, and there is one for
\* every number of passcodes up to a card.
LEMMA OneAboutPasscodes ==
  ASSUME left \in Int
  PROVE  Cardinality(Due \ {"newVersion"}) = IF left <= 70 THEN 1 ELSE 0
  <1>1. Due \ {"newVersion"} =
           {m \in Messages : \/ m = "lastCard" /\ 14 < left /\ left <= 70
                             \/ m = "few" /\ 0 < left /\ left <= 14
                             \/ m = "out" /\ left <= 0}
    <2>1. Due = MessagesAt(0) \cup MessagesAt(1) \cup MessagesAt(2) \cup MessagesAt(3)
      <3>1. 0 .. 3 = {0, 1, 2, 3}
        OBVIOUS
      <3> QED BY <3>1 DEF Due
    <2> QED BY <2>1 DEF MessagesAt, Messages, Cards!OnLastCard, Cards!FewLeft, Cards!OutOfPasscodes
  <1>2. CASE left > 70
    <2>1. Due \ {"newVersion"} = {}
      BY <1>1, <1>2
    <2> QED BY <1>2, <2>1, FS_EmptySet
  <1>3. CASE left <= 70
    <2> DEFINE D == Due \ {"newVersion"}
    <2>1. \E m : D = {m}
      <3>0. left <= 0 \/ (0 < left /\ left <= 14) \/ (14 < left /\ left <= 70)
        BY <1>3
      <3>1. CASE left <= 0
        <4>1. Due \ {"newVersion"} = {"out"}
          BY <1>1, <3>1 DEF Messages
        <4> QED BY <4>1
      <3>2. CASE 0 < left /\ left <= 14
        <4>1. Due \ {"newVersion"} = {"few"}
          BY <1>1, <3>2 DEF Messages
        <4> QED BY <4>1
      <3>3. CASE 14 < left /\ left <= 70
        <4>1. Due \ {"newVersion"} = {"lastCard"}
          BY <1>1, <3>3 DEF Messages
        <4> QED BY <4>1
      <3> HIDE DEF D
      <3> QED BY <3>0, <3>1, <3>2, <3>3, Zenon
    <2> QED BY <1>3, <2>1, FS_Singleton
  <1> QED BY <1>2, <1>3

\* pam_ppp.c's loop over pppWarning shows a session everything that is due and
\* each message once, however many sessions the process has opened and although
\* pppWarning keeps its place in a static variable.
THEOREM SessionsAreTold == Spec => []SessionIsTold
  <1>1. Init => Telling
    BY DEF Init, Telling, SaidOnce
  <1>2. Typed /\ Telling => SessionIsTold
    <2> SUFFICES ASSUME Typed, Telling PROVE SessionIsTold
      OBVIOUS
    <2>1. left \in Int
      BY DEF Typed, TypeOK
    <2> QED BY <2>1, OneAboutPasscodes DEF Telling, SessionIsTold, SaidOnce, Said
  <1> QED BY <1>1, <1>2, NextTelling, AlwaysTyped, PTL DEF Spec

-----------------------------------------------------------------------------
(* Which buffers are freed twice.                                          *)

\* A buffer is allocated, and freed, only in calls that found the files whole;
\* only the end of a call leaves freed buffers behind.
Buffers ==
    /\ (\E p \in Pointers : ptr[p] # "null") => served > 0
    /\ pc \in {"reserve", "prompt", "answer", "warn"} => served > 0
    /\ pc \notin {"idle", "dead"} => calls >= 1
    /\ (\E p \in Pointers : ptr[p] = "freed") =>
          calls >= 1 /\ (pc \notin {"idle", "dead"} => calls > 1)
    /\ "freed" \in broken => calls > 1 /\ served > 0

LEMMA RenewBuffers ==
  ASSUME NEW ps \in SUBSET Pointers, Renew(ps), Buffers, calls \in Nat, served \in Nat,
         pc \notin {"idle", "dead"}
  PROVE  /\ (\E p \in Pointers : ptr'[p] = "freed") => \E p \in Pointers : ptr[p] = "freed"
         /\ "freed" \in broken' => calls > 1 /\ served > 0
  <1>1. \A p \in Pointers : ptr'[p] = IF p \in ps THEN "allocated" ELSE ptr[p]
    BY DEF Renew
  <1>2. "freed" \in broken' => "freed" \in broken \/ \E p \in Pointers : ptr[p] = "freed"
    BY DEF Renew
  <1> QED BY <1>1, <1>2 DEF Buffers

LEMMA NextBuffers == Typed /\ Buffers /\ [Next]_vars => Buffers'
  <1> SUFFICES ASSUME Typed, Buffers, [Next]_vars PROVE Buffers'
    OBVIOUS
  <1>0. calls \in Nat /\ served \in Nat /\ broken \subseteq Faults
    BY DEF Typed, TypeOK
  <1> USE DEF statics, history
  <1>1. CASE UserEdits \/ Enter \/ Abort
    BY <1>0, <1>1 DEF Buffers, UserEdits, Enter, Abort, buffers
  <1>2. CASE ReadMissing \/ ReadBadHeader \/ ReadBadCounter
    <2>1. AfterFailedRead(call.kind) \in {"cleanup", "idle"}
      BY DEF AfterFailedRead
    <2> QED BY <1>0, <1>2, <2>1
            DEF Buffers, ReadMissing, ReadBadHeader, ReadBadCounter, buffers
  <1>3. CASE ReadWhole
    <2>1. Renew({"alphabet"}) /\ served' = served + 1 /\ calls' = calls /\ pc = "read"
              /\ pc' \notin {"idle", "dead"}
      BY <1>3 DEF ReadWhole
    <2> QED BY <1>0, <2>1, RenewBuffers DEF Buffers, Pointers
  <1>4. CASE Reserve \/ Answer
    BY <1>4 DEF Buffers, Reserve, Answer, buffers
  <1>5. CASE Prompt
    <2>1. /\ Renew({"d_prompt", "d_code", "d_buf"}) /\ served' = served /\ calls' = calls
          /\ pc = "prompt" /\ pc' = "answer"
      BY <1>5 DEF Prompt
    <2> QED BY <1>0, <2>1, RenewBuffers DEF Buffers, Pointers
  <1>6. CASE Warn
    <2>1. /\ Renew({"d_buf"}) \/ UNCHANGED buffers
          /\ served' = served /\ calls' = calls
          /\ pc = "warn" /\ pc' \in {"warn", "cleanup"}
      BY <1>6 DEF Warn
    <2>2. CASE Renew({"d_buf"})
      BY <1>0, <2>1, <2>2, RenewBuffers DEF Buffers, Pointers
    <2>3. CASE UNCHANGED buffers
      BY <2>1, <2>3 DEF Buffers, buffers
    <2> QED BY <2>1, <2>2, <2>3
  <1>7. CASE Cleanup
    <2>1. /\ FreeAll /\ served' = served /\ calls' = calls /\ pc = "cleanup" /\ pc' = "idle"
      BY <1>7 DEF Cleanup
    <2>2. "freed" \in broken' => "freed" \in broken \/ \E p \in Pointers : ptr[p] = "freed"
      BY <2>1 DEF FreeAll
    <2>3. \A p \in Pointers : ptr'[p] # "null" => ptr[p] # "null"
      BY <2>1 DEF FreeAll
    <2> QED BY <1>0, <2>1, <2>2, <2>3 DEF Buffers
  <1>8. CASE UNCHANGED vars
    BY <1>8 DEF Buffers, vars, buffers
  <1> QED BY <1>1, <1>2, <1>3, <1>4, <1>5, <1>6, <1>7, <1>8 DEF Next

\* pppCleanup does not set the pointers it frees to NULL, and still no call
\* frees a buffer twice by itself: a block is freed again only in a second or
\* later call, after one that found a user's files whole.
THEOREM CallsFreeOnce == Spec => []FreesOnceInACall
  <1>1. Init => Buffers
    BY DEF Init, Buffers
  <1>2. Buffers => FreesOnceInACall
    BY DEF Buffers, FreesOnceInACall
  <1> QED BY <1>1, <1>2, NextBuffers, AlwaysTyped, PTL DEF Spec

=============================================================================
