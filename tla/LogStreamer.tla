---------------------------- MODULE LogStreamer ----------------------------
(***************************************************************************)
(* logger/zap_betterstack.go: calls of Log by any number of goroutines.    *)
(* In development an entry goes to a file, under a mutex; otherwise it is  *)
(* posted by a goroutine of its own.  Then it goes to the console as well. *)
(* Lines the streamer itself writes about its errors are left out.         *)
(***************************************************************************)
EXTENDS Naturals, Sequences, FiniteSets, Functions

CONSTANTS
  Entries,   \* bound: calls of Log
  Nobody,    \* fileMu is unlocked
  Hidden,    \* entries below the level of the zap logger, as NOTICE always is
  Fatal      \* entries after which zap ends the process: those of FatalLevel,
             \* and those on whose level it panics, unless the caller recovers

ASSUME StreamerAssumption ==
  /\ IsFiniteSet(Entries)
  /\ Nobody \notin Entries
  /\ Hidden \cup Fatal \subseteq Entries
  /\ Hidden \cap Fatal = {}

VARIABLES
  environment,  \* "development", "production" or anything "else"
  badURL,       \* can http.NewRequest not parse uploadURL?
  process,      \* "up", "exit" (by zap) or "panic" (in a post)
  pc,           \* position of each call
  fileMu,       \* the call that holds the mutex
  file,         \* what fileWriter has written: app.log or, failing that, stderr
  posting,      \* entries with a goroutine that posts them
  received,     \* entries Better Stack has received
  console       \* what the zap logger has written

configVars == <<environment, badURL>>
fileVars == <<fileMu, file>>
postVars == <<posting, received>>
vars == <<configVars, process, pc, fileVars, postVars, console>>

TypeOK ==
  /\ environment \in {"development", "production", "else"}
  /\ badURL \in BOOLEAN
  /\ process \in {"up", "exit", "panic"}
  /\ pc \in [Entries -> {"idle", "lock", "write", "send", "print", "done"}]
  /\ fileMu \in Entries \cup {Nobody}
  /\ file \in Seq(Entries) /\ Len(file) <= Cardinality(Entries)
  /\ posting \in SUBSET Entries
  /\ received \in SUBSET Entries
  /\ console \in Seq(Entries)

\* Mutant: the two environments are mixed up.
HasClient_Swapped == environment = "development"

\* NewBetterStackLogStreamer makes a client for one environment only.
HasClient == environment = "production"
-----------------------------------------------------------------------------
\* The early returns: no traceID, or attributes json.Marshal refuses.
Log(e) ==
  /\ pc[e] = "idle"
  /\ \/ pc' = [pc EXCEPT ![e] = "done"]
     \/ pc' = [pc EXCEPT ![e] = IF environment = "development" THEN "lock" ELSE "send"]
  /\ UNCHANGED <<configVars, process, fileVars, postVars, console>>

LockFile(e) ==
  /\ pc[e] = "lock" /\ fileMu = Nobody
  /\ fileMu' = e
  /\ pc' = [pc EXCEPT ![e] = "write"]
  /\ UNCHANGED <<configVars, process, file, postVars, console>>

\* Mutant: Unlock right after Write, without defer.
WriteFile_Unlocks(e) ==
  /\ pc[e] = "write"
  /\ file' \in {Append(file, e), file}
  /\ fileMu' = Nobody
  /\ pc' = [pc EXCEPT ![e] = "print"]
  /\ UNCHANGED <<configVars, process, postVars, console>>

\* Mutant: a write is tried again, although the first one took effect.
WriteFile_Retried(e) ==
  /\ pc[e] = "write"
  /\ file' \in {file \o <<e, e>>, Append(file, e), file}
  /\ pc' = [pc EXCEPT ![e] = "print"]
  /\ UNCHANGED <<configVars, process, fileMu, postVars, console>>

\* A write that fails is reported, and the call goes on.
WriteFile(e) ==
  /\ pc[e] = "write"
  /\ file' \in {Append(file, e), file}
  /\ pc' = [pc EXCEPT ![e] = "print"]
  /\ UNCHANGED <<configVars, process, fileMu, postVars, console>>

\* http.NewRequest, and the goroutine of client.Do.
Send(e) ==
  /\ pc[e] = "send"
  /\ IF badURL
     THEN pc' = [pc EXCEPT ![e] = "done"] /\ UNCHANGED posting
     ELSE pc' = [pc EXCEPT ![e] = "print"] /\ posting' = posting \cup {e}
  /\ UNCHANGED <<configVars, process, fileVars, received, console>>

\* Mutant: the call waits for the answer.
LoggerLog_Synchronous(e) ==
  /\ pc[e] = "print" /\ e \notin posting
  /\ pc' = [pc EXCEPT ![e] = "done"]
  /\ console' = IF e \in Hidden THEN console ELSE Append(console, e)
  /\ process' = IF e \in Fatal THEN "exit" ELSE process
  /\ fileMu' = IF fileMu = e THEN Nobody ELSE fileMu
  /\ UNCHANGED <<configVars, file, postVars>>

\* The zap logger, and then the deferred unlock.  zap ends the process after a
\* Fatal entry, whatever is still being posted; a caller that recovers from zap's
\* panic has had an entry like any other.
LoggerLog(e) ==
  /\ pc[e] = "print"
  /\ pc' = [pc EXCEPT ![e] = "done"]
  /\ console' = IF e \in Hidden THEN console ELSE Append(console, e)
  /\ process' = IF e \in Fatal THEN "exit" ELSE process
  /\ fileMu' = IF fileMu = e THEN Nobody ELSE fileMu
  /\ UNCHANGED <<configVars, file, postVars>>

\* client.Do: received or not, the answer or the ten seconds end it.  Without a
\* client it is a nil dereference in a goroutine.
Do(e) ==
  /\ e \in posting
  /\ posting' = posting \ {e}
  /\ IF HasClient
     THEN received' \in {received, received \cup {e}} /\ UNCHANGED process
     ELSE process' = "panic" /\ UNCHANGED received
  /\ UNCHANGED <<configVars, pc, fileVars, console>>

Init ==
  /\ environment \in {"development", "production", "else"}
  /\ badURL \in BOOLEAN
  /\ process = "up"
  /\ pc = [e \in Entries |-> "idle"]
  /\ fileMu = Nobody /\ file = <<>>
  /\ posting = {} /\ received = {}
  /\ console = <<>>

Call(e) == LockFile(e) \/ WriteFile(e) \/ Send(e) \/ LoggerLog(e)

Next ==
  /\ process = "up"
  /\ \E e \in Entries : Log(e) \/ Call(e) \/ Do(e)

Spec == Init /\ [][Next]_vars

\* Goroutines run; the network need not answer, nor the ten seconds end.
FairSpec == Spec /\ \A e \in Entries : WF_vars(process = "up" /\ Call(e))
-----------------------------------------------------------------------------
\* The file and the console tell the same story: what both show they show once
\* and in the same order, and the file is ahead by the entry that holds the mutex.
SameStory ==
  /\ \A i, j \in DOMAIN file, k, l \in DOMAIN console :
       file[i] = console[k] /\ file[j] = console[l] => (i < j <=> k < l)
  /\ Range(file) \ (Range(console) \cup Hidden) \subseteq {fileMu}

\* A goroutine of the streamer never kills the process in the environments the
\* constructor knows, whatever the URL is (it does in any other one).
NoPanicAsConfigured ==
  process = "panic" => environment \notin {"development", "production"}

\* A call of Log returns, although a write may fail and Better Stack may never
\* answer (under FairSpec).
LogReturns ==
  \A e \in Entries :
    pc[e] # "idle" ~> pc[e] = "done" \/ process # "up"
=============================================================================
