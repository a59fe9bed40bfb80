-------------------------- MODULE LogStreamerProofs --------------------------
(***************************************************************************)
(* Theorems about LogStreamer, for any number of calls of Log, in every    *)
(* environment and with any URL.                                           *)
(***************************************************************************)
EXTENDS LogStreamer, FiniteSetTheorems, SequenceTheorems, TLAPS

\* Only in development is there a file, and the mutex is held by the call that
\* writes to it and to the console.
MutexInv ==
  /\ \A e \in Entries :
       /\ pc[e] = "write" => fileMu = e
       /\ pc[e] \in {"lock", "write"} => environment = "development"
       /\ pc[e] = "print" /\ environment = "development" => fileMu = e
       /\ pc[e] = "send" => environment # "development"
  /\ environment # "development" => file = <<>>
  /\ environment = "development" => posting = {}

\* A call has left its traces as far as it has come.
TraceInv ==
  \A e \in Entries :
    /\ e \in Range(file) => pc[e] \in {"print", "done"}
    /\ e \in Range(file) /\ pc[e] = "done" => e \in Range(console) \cup Hidden
    /\ e \in Range(file) /\ pc[e] = "print" => e = file[Len(file)]
    /\ e \in Range(console) => pc[e] = "done"

\* An entry is written once.
OnceInv == IsInjective(file) /\ IsInjective(console)

\* What file and console both show is in the same order.
Agree(f, c) ==
  \A i, j \in DOMAIN f, k, l \in DOMAIN c :
    f[i] = c[k] /\ f[j] = c[l] => (i < j <=> k < l)

\* Both show what they share in the same order.
OrderInv == Agree(file, console)

\* The inductive invariant of the streamer.
StreamInv ==
  TypeOK /\ MutexInv /\ TraceInv /\ OnceInv /\ OrderInv /\ NoPanicAsConfigured
-----------------------------------------------------------------------------
(* Sequences of entries.                                                   *)

\* One more entry.
LEMMA OneMore ==
  ASSUME NEW f \in Seq(Entries), NEW e \in Entries
  PROVE  /\ Append(f, e) \in Seq(Entries)
         /\ DOMAIN f = 1 .. Len(f) /\ Len(f) \in Nat
         /\ DOMAIN Append(f, e) = 1 .. Len(f) + 1
         /\ Len(Append(f, e)) = Len(f) + 1
         /\ \A i \in 1 .. Len(f) : Append(f, e)[i] = f[i]
         /\ Append(f, e)[Len(f) + 1] = e
  BY AppendProperties, LenProperties

\* What is in it now, and that it is there once.
LEMMA OneMoreRange ==
  ASSUME NEW f \in Seq(Entries), NEW e \in Entries
  PROVE  /\ Range(Append(f, e)) = Range(f) \cup {e}
         /\ IsInjective(f) /\ e \notin Range(f) => IsInjective(Append(f, e))
<1> DEFINE g == Append(f, e)
<1>1. /\ DOMAIN f = 1 .. Len(f) /\ Len(f) \in Nat
      /\ DOMAIN g = 1 .. Len(f) + 1
      /\ \A i \in 1 .. Len(f) : g[i] = f[i]
      /\ g[Len(f) + 1] = e
  BY OneMore
<1> HIDE DEF g
<1>2. Range(g) = Range(f) \cup {e}
  BY <1>1 DEF Range
<1>3. IsInjective(f) /\ e \notin Range(f) => IsInjective(g)
  BY <1>1 DEF Range, IsInjective
<1> QED
  BY <1>2, <1>3 DEF g

\* The file may show what the console does not show yet ...
LEMMA FileGrows ==
  ASSUME NEW f \in Seq(Entries), NEW c \in Seq(Entries), NEW e \in Entries,
         Agree(f, c), e \notin Range(c)
  PROVE  Agree(Append(f, e), c)
<1> DEFINE g == Append(f, e)
<1>1. /\ DOMAIN f = 1 .. Len(f) /\ Len(f) \in Nat
      /\ DOMAIN g = 1 .. Len(f) + 1
      /\ \A i \in 1 .. Len(f) : g[i] = f[i]
      /\ g[Len(f) + 1] = e
  BY OneMore
<1> HIDE DEF g
<1>2. \A k \in DOMAIN c : c[k] # e
  BY DEF Range
<1>3. Agree(g, c)
  BY <1>1, <1>2 DEF Agree
<1> QED
  BY <1>3 DEF g

\* ... and the console follows with the last entry of the file, or with one that
\* the file does not have.
LEMMA ConsoleGrows ==
  ASSUME NEW f \in Seq(Entries), NEW c \in Seq(Entries), NEW e \in Entries,
         Agree(f, c), IsInjective(f), e \notin Range(c),
         e \in Range(f) => e = f[Len(f)]
  PROVE  Agree(f, Append(c, e))
<1> DEFINE d == Append(c, e)
<1>1. /\ DOMAIN c = 1 .. Len(c) /\ Len(c) \in Nat
      /\ DOMAIN d = 1 .. Len(c) + 1
      /\ \A i \in 1 .. Len(c) : d[i] = c[i]
      /\ d[Len(c) + 1] = e
  BY OneMore
<1>2. DOMAIN f = 1 .. Len(f) /\ Len(f) \in Nat
  BY LenProperties
<1> HIDE DEF d
<1>3. \A i \in DOMAIN f : f[i] = e => i = Len(f)
  BY <1>2 DEF Range, IsInjective
<1>4. \A k \in DOMAIN c : c[k] # e
  BY DEF Range
<1>5. ASSUME NEW i \in DOMAIN f, NEW j \in DOMAIN f,
             NEW k \in DOMAIN d, NEW l \in DOMAIN d, f[i] = d[k], f[j] = d[l]
      PROVE  i < j <=> k < l
  <2>1. CASE k \in DOMAIN c /\ l \in DOMAIN c
    BY <1>1, <1>5, <2>1 DEF Agree
  <2>2. CASE k \in DOMAIN c /\ l = Len(c) + 1
    <3>1. j = Len(f) /\ f[i] # e
      BY <1>1, <1>3, <1>4, <1>5, <2>2
    <3>2. i # j
      BY <1>1, <1>5, <2>2, <3>1
    <3> QED
      BY <1>1, <1>2, <2>2, <3>1, <3>2
  <2>3. CASE k = Len(c) + 1 /\ l \in DOMAIN c
    <3>1. i = Len(f)
      BY <1>1, <1>3, <1>5, <2>3
    <3> QED
      BY <1>1, <1>2, <2>3, <3>1
  <2>4. CASE k = Len(c) + 1 /\ l = Len(c) + 1
    <3>1. i = Len(f) /\ j = Len(f)
      BY <1>1, <1>3, <1>5, <2>4
    <3> QED
      BY <1>1, <1>2, <2>4, <3>1
  <2> QED
    BY <1>1, <2>1, <2>2, <2>3, <2>4
<1>6. Agree(f, d)
  BY <1>5 DEF Agree
<1> QED
  BY <1>6 DEF d

\* A sequence that has no entry twice is not longer than there are entries.
LEMMA NoLonger ==
  ASSUME NEW f \in Seq(Entries), IsInjective(f)
  PROVE  Len(f) <= Cardinality(Entries)
<1> DEFINE D == 1 .. Len(f)
<1>1. Len(f) \in Nat /\ f \in [D -> Entries]
  BY LenProperties
<1>2. f \in Injection(D, Entries)
  BY <1>1 DEF Injection
<1>3. Cardinality(D) <= Cardinality(Entries)
  BY <1>2, FS_Injection, StreamerAssumption
<1>4. PICK n \in Nat : n = Len(f)
  BY <1>1
<1>5. Cardinality(1 .. n) = n
  <2>1. 1 \in Int /\ n \in Int
    OBVIOUS
  <2>2. Cardinality(1 .. n) = IF 1 > n THEN 0 ELSE n - 1 + 1
    BY <2>1, FS_Interval
  <2> QED
    BY <2>2
<1> QED
  BY <1>3, <1>4, <1>5

-----------------------------------------------------------------------------
(* The inductive invariant.                                                *)

\* Nothing has been logged.
LEMMA StreamInit == Init => StreamInv
<1> SUFFICES ASSUME Init PROVE StreamInv
  OBVIOUS
<1>1. <<>> \in Seq(Entries) /\ Len(<<>>) = 0 /\ DOMAIN <<>> = {} /\ Range(<<>>) = {}
  BY EmptySeq DEF Range
<1>2. Cardinality(Entries) \in Nat
  BY FS_CardinalityType, StreamerAssumption
<1>3. TypeOK
  BY <1>1, <1>2 DEF Init, TypeOK
<1>4. MutexInv /\ TraceInv /\ OrderInv /\ NoPanicAsConfigured
  BY <1>1 DEF Init, MutexInv, TraceInv, OrderInv, Agree, NoPanicAsConfigured
<1>5. OnceInv
  BY <1>1 DEF Init, OnceInv, IsInjective
<1> QED
  BY <1>3, <1>4, <1>5 DEF StreamInv

\* A call that writes nothing.
LEMMA CallMoves ==
  ASSUME StreamInv, NEW e \in Entries, NEW to \in {"lock", "write", "send", "print", "done"},
         pc' = [pc EXCEPT ![e] = to],
         UNCHANGED <<configVars, process, file, received, console>>,
         \/ pc[e] \in {"idle", "send"} /\ UNCHANGED fileMu
              /\ (to = "lock" => environment = "development")
              /\ (to = "send" => environment # "development")
              /\ to # "write" /\ (to = "print" => pc[e] = "send")
         \/ pc[e] = "lock" /\ to = "write" /\ fileMu = Nobody /\ fileMu' = e,
         posting' = posting \/ (posting' = posting \cup {e} /\ pc[e] = "send")
  PROVE  StreamInv'
<1> USE DEF StreamInv, configVars
<1>1. /\ \A d \in Entries : d # e => pc'[d] = pc[d]
      /\ pc'[e] = to
  BY DEF TypeOK
<1>2. e \notin Range(file) /\ e \notin Range(console)
  BY DEF TraceInv
<1>3. TypeOK'
  BY DEF TypeOK
<1>4. \A d \in Entries : d # fileMu => pc[d] # "write"
  BY DEF MutexInv
<1>5. MutexInv'
  BY <1>1, <1>4, StreamerAssumption DEF MutexInv
<1>6. TraceInv'
  BY <1>1, <1>2 DEF TraceInv
<1>7. OnceInv' /\ OrderInv' /\ NoPanicAsConfigured'
  BY DEF OnceInv, OrderInv, Agree, NoPanicAsConfigured
<1> QED
  BY <1>3, <1>5, <1>6, <1>7

\* The write to the file, under the mutex.
LEMMA WriteKeeps ==
  ASSUME StreamInv, NEW e \in Entries, WriteFile(e)
  PROVE  StreamInv'
<1> USE DEF StreamInv
<1>1. /\ pc[e] = "write" /\ pc' = [pc EXCEPT ![e] = "print"]
      /\ file' \in {Append(file, e), file}
      /\ UNCHANGED <<environment, badURL, process, fileMu, posting, received, console>>
  BY DEF WriteFile, configVars, postVars
<1>2. /\ \A d \in Entries : d # e => pc'[d] = pc[d]
      /\ pc'[e] = "print"
  BY <1>1 DEF TypeOK
<1>3. e \notin Range(file) /\ e \notin Range(console)
  BY <1>1 DEF TraceInv
<1>4. file \in Seq(Entries) /\ console \in Seq(Entries)
  BY DEF TypeOK
<1>5. /\ file' \in Seq(Entries) /\ IsInjective(file')
      /\ Range(file') \in {Range(file), Range(file) \cup {e}}
      /\ e \in Range(file') => e = file'[Len(file')]
      /\ Agree(file', console)
  <2>1. CASE file' = file
    BY <1>3, <1>4, <2>1 DEF OnceInv, OrderInv
  <2>2. CASE file' = Append(file, e)
    <3>1. /\ Append(file, e) \in Seq(Entries) /\ IsInjective(Append(file, e))
          /\ Range(Append(file, e)) = Range(file) \cup {e}
          /\ Append(file, e)[Len(Append(file, e))] = e
      BY <1>3, <1>4, OneMore, OneMoreRange DEF OnceInv
    <3>2. Agree(Append(file, e), console)
      BY <1>3, <1>4, FileGrows DEF OrderInv
    <3> QED
      BY <2>2, <3>1, <3>2
  <2> QED
    BY <1>1, <2>1, <2>2
<1>6. environment = "development" /\ fileMu = e
  BY <1>1 DEF MutexInv
<1>7. TypeOK'
  <2>1. Len(file') <= Cardinality(Entries)
    BY <1>5, NoLonger
  <2> QED
    BY <1>1, <1>5, <2>1 DEF TypeOK
<1>8. MutexInv'
  BY <1>1, <1>2, <1>6 DEF MutexInv
<1>9. TraceInv'
  <2>1. ASSUME NEW d \in Entries, d # e
        PROVE  /\ d \in Range(file') <=> d \in Range(file)
               /\ pc[d] # "print"
    BY <1>5, <1>6, <2>1 DEF MutexInv
  <2> QED
    BY <1>1, <1>2, <1>3, <1>5, <2>1 DEF TraceInv
<1>10. OnceInv' /\ OrderInv' /\ NoPanicAsConfigured'
  BY <1>1, <1>5 DEF OnceInv, OrderInv, NoPanicAsConfigured
<1> QED
  BY <1>7, <1>8, <1>9, <1>10

\* The zap logger writes to the console, and the mutex is given up.
LEMMA PrintKeeps ==
  ASSUME StreamInv, NEW e \in Entries, LoggerLog(e)
  PROVE  StreamInv'
<1> USE DEF StreamInv
<1>1. /\ pc[e] = "print" /\ pc' = [pc EXCEPT ![e] = "done"]
      /\ console' = IF e \in Hidden THEN console ELSE Append(console, e)
      /\ process' = IF e \in Fatal THEN "exit" ELSE process
      /\ fileMu' = IF fileMu = e THEN Nobody ELSE fileMu
      /\ UNCHANGED <<environment, badURL, file, posting, received>>
  BY DEF LoggerLog, configVars, postVars
<1>2. /\ \A d \in Entries : d # e => pc'[d] = pc[d]
      /\ pc'[e] = "done"
  BY <1>1 DEF TypeOK
<1>3. e \notin Range(console) /\ (e \in Range(file) => e = file[Len(file)])
  BY <1>1 DEF TraceInv
<1>4. file \in Seq(Entries) /\ console \in Seq(Entries)
  BY DEF TypeOK
<1>5. /\ console' \in Seq(Entries) /\ IsInjective(console')
      /\ Range(console') = IF e \in Hidden THEN Range(console) ELSE Range(console) \cup {e}
      /\ Agree(file, console')
  <2>1. CASE e \in Hidden
    BY <1>1, <1>4, <2>1 DEF OnceInv, OrderInv
  <2>2. CASE e \notin Hidden
    <3>1. /\ Append(console, e) \in Seq(Entries) /\ IsInjective(Append(console, e))
          /\ Range(Append(console, e)) = Range(console) \cup {e}
      BY <1>3, <1>4, OneMore, OneMoreRange DEF OnceInv
    <3>2. Agree(file, Append(console, e))
      BY <1>3, <1>4, ConsoleGrows DEF OrderInv, OnceInv
    <3> QED
      BY <1>1, <2>2, <3>1, <3>2
  <2> QED
    BY <2>1, <2>2
<1>6. TypeOK'
  BY <1>1, <1>5 DEF TypeOK
<1>7. MutexInv'
  BY <1>1, <1>2 DEF MutexInv
<1>8. TraceInv'
  BY <1>1, <1>2, <1>3, <1>5 DEF TraceInv
<1>9. OnceInv' /\ OrderInv'
  BY <1>1, <1>5 DEF OnceInv, OrderInv
<1>10. NoPanicAsConfigured'
  BY <1>1 DEF NoPanicAsConfigured
<1> QED
  BY <1>6, <1>7, <1>8, <1>9, <1>10

\* Every step keeps the invariant.
LEMMA StreamStep == StreamInv /\ [Next]_vars => StreamInv'
<1> SUFFICES ASSUME StreamInv, [Next]_vars PROVE StreamInv'
  OBVIOUS
<1>1. ASSUME NEW e \in Entries, Log(e) PROVE StreamInv'
  <2>1. PICK to \in {"lock", "send", "done"} :
          /\ pc' = [pc EXCEPT ![e] = to]
          /\ to = "lock" => environment = "development"
          /\ to = "send" => environment # "development"
    BY <1>1 DEF Log
  <2>2. pc[e] = "idle" /\ UNCHANGED <<configVars, process, fileMu, file, posting, received, console>>
    BY <1>1 DEF Log, fileVars, postVars
  <2> QED
    BY <2>1, <2>2, CallMoves
<1>2. ASSUME NEW e \in Entries, LockFile(e) PROVE StreamInv'
  BY <1>2, CallMoves DEF LockFile, postVars
<1>3. ASSUME NEW e \in Entries, WriteFile(e) PROVE StreamInv'
  BY <1>3, WriteKeeps
<1>4. ASSUME NEW e \in Entries, Send(e) PROVE StreamInv'
  BY <1>4, CallMoves DEF Send, fileVars
<1>5. ASSUME NEW e \in Entries, LoggerLog(e) PROVE StreamInv'
  BY <1>5, PrintKeeps
<1>6. ASSUME NEW e \in Entries, Do(e) PROVE StreamInv'
  <2>1. environment # "development"
    BY <1>6 DEF Do, StreamInv, MutexInv
  <2>2. /\ UNCHANGED <<environment, badURL, pc, fileMu, file, console>>
        /\ posting' = posting \ {e}
        /\ received' \in SUBSET Entries
        /\ process' = IF environment = "production" THEN process ELSE "panic"
    BY <1>6 DEF Do, HasClient, configVars, fileVars, StreamInv, TypeOK
  <2>3. TypeOK'
    BY <2>2 DEF StreamInv, TypeOK
  <2>4. MutexInv' /\ TraceInv' /\ OnceInv' /\ OrderInv'
    BY <2>1, <2>2 DEF StreamInv, MutexInv, TraceInv, OnceInv, OrderInv
  <2>5. NoPanicAsConfigured'
    BY <2>1, <2>2 DEF StreamInv, NoPanicAsConfigured
  <2> QED
    BY <2>3, <2>4, <2>5 DEF StreamInv
<1>7. ASSUME UNCHANGED vars PROVE StreamInv'
  BY <1>7 DEF vars, configVars, fileVars, postVars, StreamInv, TypeOK, MutexInv, TraceInv,
     OnceInv, OrderInv, Agree, NoPanicAsConfigured
<1> QED
  BY <1>1, <1>2, <1>3, <1>4, <1>5, <1>6, <1>7 DEF Next, Call
-----------------------------------------------------------------------------
(* Theorems.                                                               *)

\* The invariant of the streamer.
THEOREM StreamInvariant == Spec => []StreamInv
  BY StreamInit, StreamStep, PTL DEF Spec

\* The variables keep their types; the file has an entry at most once.
THEOREM StreamTypes == Spec => []TypeOK
<1>1. StreamInv => TypeOK
  BY DEF StreamInv
<1> QED
  BY <1>1, StreamInvariant, PTL

\* The streamer's own goroutines do not end the process as it is configured.
THEOREM NoPanic == Spec => []NoPanicAsConfigured
<1>1. StreamInv => NoPanicAsConfigured
  BY DEF StreamInv
<1> QED
  BY <1>1, StreamInvariant, PTL

\* However many goroutines log at once, file and console agree on the order.
THEOREM OneStory == Spec => []SameStory
<1>1. StreamInv => SameStory
  <2> SUFFICES ASSUME StreamInv PROVE SameStory
    OBVIOUS
  <2>1. \A i, j \in DOMAIN file, k, l \in DOMAIN console :
          file[i] = console[k] /\ file[j] = console[l] => (i < j <=> k < l)
    BY DEF StreamInv, OrderInv, Agree
  <2>2. ASSUME NEW e \in Range(file), e \notin Range(console) \cup Hidden
        PROVE  e = fileMu
    <3>1. e \in Entries /\ file # <<>>
      BY EmptySeq, LenProperties DEF StreamInv, TypeOK, Range
    <3>2. pc[e] = "print" /\ environment = "development"
      BY <2>2, <3>1 DEF StreamInv, TraceInv, MutexInv
    <3> QED
      BY <3>1, <3>2 DEF StreamInv, MutexInv
  <2> QED
    BY <2>1, <2>2 DEF SameStory
<1> QED
  BY <1>1, StreamInvariant, PTL

=============================================================================
