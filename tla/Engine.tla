------------------------------- MODULE Engine -------------------------------
(***************************************************************************)
(* cmd/main.go and natshandler/handler.go: the engine on the message bus.  *)
(* Each of the two subscriptions has its own queue in the NATS client and  *)
(* one goroutine that runs the callback for one message after the other.   *)
(* The callback waits in ExecuteJob, so a subscription has one job in the  *)
(* pool at most.                                                           *)
(*                                                                         *)
(* The pool is taken by its contract, JobService, which WorkerPool         *)
(* implements.  NATS delivers at most once: what is published while the    *)
(* engine is down, or finds the queue of the subscription full, is lost,   *)
(* and so is what the engine held when it died.  (A request lost on its    *)
(* way to the engine is one that was never published.)  A response is lost *)
(* when nc.Publish fails, whose error nobody looks at.                     *)
(***************************************************************************)
EXTENDS Naturals, Sequences, FiniteSets, CompilerService

CONSTANTS
  Messages,      \* bound: requests ever published
  Nothing,       \* a subscription that handles no message
  RequestSpace,  \* the requests clients may send
  MaxWorkers,
  MaxJobCount,
  PendingLimit,  \* messages a subscription's queue holds
  MayCrash

Subjects == {CompilerSubject, ProblemSubject}

ASSUME EngineAssumption ==
  /\ CompilerSubject # ProblemSubject
  /\ MaxWorkers \in Nat \ {0}
  /\ MaxJobCount \in Nat \ {0}
  /\ PendingLimit \in Nat \ {0}
  /\ Nothing \notin Messages
  /\ MayCrash \in BOOLEAN
  /\ RequestSpace \subseteq
       [subject : Subjects, json : BOOLEAN, base64 : BOOLEAN, language : STRING,
        long : BOOLEAN,
        hits : SUBSET (Common \cup UNION {LanguagePatterns[l] : l \in LanguageConfigs})]

VARIABLES
  subscribed, \* the subjects main has a subscription to
  closed,    \* the running engine's connection has been closed for good
  request,   \* what each message says, once it is published
  inbox,     \* the queue of each subscription
  handled,   \* the message each callback works on
  hpc,       \* position of each callback
  response,  \* what it is about to publish
  reply,     \* the response each message's sender has got, or that it is "lost"
  order,     \* history: messages the running engine has queued, by subject
  pending, answer  \* the worker pool, as JobService has it

busVars == <<subscribed, closed>>
subscriptionVars == <<inbox, handled, hpc, response, order>>
clientVars == <<request, reply>>
poolVars == <<pending, answer>>
vars == <<busVars, subscriptionVars, clientVars, poolVars>>

Unsent == [subject |-> Nothing]
JobAnswers == {"refused", "failed", "output"}
Responses == {"not base64", "too long", "prohibited", "unsupported",
              "not executed", "success"}

Pool == INSTANCE JobService WITH Jobs <- Messages, Answers <- JobAnswers

TypeOK ==
  /\ subscribed \in {{}, {CompilerSubject}, Subjects}
  /\ closed \in BOOLEAN
  /\ request \in [Messages -> RequestSpace \cup {Unsent}]
  /\ inbox \in [Subjects -> Seq(Messages)]
  /\ \A s \in Subjects : Len(inbox[s]) <= PendingLimit
  /\ handled \in [Subjects -> Messages \cup {Nothing}]
  /\ hpc \in [Subjects -> {"wait", "handle", "job", "publish"}]
  /\ response \in [Subjects -> Responses \cup {"none"}]
  /\ reply \in [Messages -> Responses \cup {"none", "lost"}]
  /\ order \in [Subjects -> Seq(Messages)]
  /\ pending \in SUBSET Messages
  /\ answer \in [Messages -> JobAnswers \cup {"none", "full"}]
-----------------------------------------------------------------------------
(* The bus. *)

Publish(m) ==
  /\ request[m] = Unsent
  /\ \E r \in RequestSpace :
       /\ request' = [request EXCEPT ![m] = r]
       /\ IF r.subject \in subscribed /\ Len(inbox[r.subject]) < PendingLimit
          THEN /\ inbox' = [inbox EXCEPT ![r.subject] = Append(@, m)]
               /\ order' = [order EXCEPT ![r.subject] = Append(@, m)]
          ELSE UNCHANGED <<inbox, order>>
  /\ UNCHANGED <<busVars, handled, hpc, response, reply, poolVars>>

\* Mutants, here and below: one plausible slip each.  No specification uses
\* them; a property is exercised by putting one in the place of what it mutates.
\* This one takes the newest message first.
Deliver_Newest(s) ==
  /\ hpc[s] = "wait" /\ ~closed /\ inbox[s] # <<>>
  /\ handled' = [handled EXCEPT ![s] = inbox[s][Len(inbox[s])]]
  /\ inbox' = [inbox EXCEPT ![s] = SubSeq(@, 1, Len(@) - 1)]
  /\ hpc' = [hpc EXCEPT ![s] = "handle"]
  /\ UNCHANGED <<busVars, response, order, clientVars, poolVars>>

\* A closed connection takes what is still queued with it.
Deliver(s) ==
  /\ hpc[s] = "wait" /\ ~closed /\ inbox[s] # <<>>
  /\ handled' = [handled EXCEPT ![s] = Head(inbox[s])]
  /\ inbox' = [inbox EXCEPT ![s] = Tail(@)]
  /\ hpc' = [hpc EXCEPT ![s] = "handle"]
  /\ UNCHANGED <<busVars, response, order, clientVars, poolVars>>
-----------------------------------------------------------------------------
(* HandleCompilerRequest and HandleProblemRunRequest. *)

Finish(s) ==
  /\ handled' = [handled EXCEPT ![s] = Nothing]
  /\ hpc' = [hpc EXCEPT ![s] = "wait"]
  /\ response' = [response EXCEPT ![s] = "none"]

\* json.Unmarshal fails: the callback returns, and nobody is told.
Malformed(s) ==
  /\ hpc[s] = "handle" /\ ~request[handled[s]].json
  /\ Finish(s)
  /\ UNCHANGED <<busVars, inbox, order, clientVars, poolVars>>

\* Mutant: the callback logs the error and returns.
Rejected_Silent(s) ==
  /\ hpc[s] = "handle" /\ request[handled[s]].json
  /\ Verdict(request[handled[s]]) # "clean"
  /\ Finish(s)
  /\ UNCHANGED <<busVars, inbox, order, clientVars, poolVars>>

\* Compile or ExecuteProblemCode answers without the pool.
Rejected(s) ==
  /\ hpc[s] = "handle" /\ request[handled[s]].json
  /\ Verdict(request[handled[s]]) # "clean"
  /\ response' = [response EXCEPT ![s] = Verdict(request[handled[s]])]
  /\ hpc' = [hpc EXCEPT ![s] = "publish"]
  /\ UNCHANGED <<busVars, inbox, handled, order, clientVars, poolVars>>

\* ExecuteJob: the callback waits for the result ...
ExecuteJob(s) ==
  /\ hpc[s] = "handle" /\ request[handled[s]].json
  /\ Verdict(request[handled[s]]) = "clean"
  /\ Pool!Accept(handled[s]) \/ Pool!TurnAway(handled[s])
  /\ hpc' = [hpc EXCEPT ![s] = "job"]
  /\ UNCHANGED <<busVars, inbox, handled, response, order, clientVars>>

\* Mutant: the callback does not wait, and reports a failure.
Executed_NotAwaited(s) ==
  /\ hpc[s] = "job"
  /\ response' = [response EXCEPT ![s] =
                    IF answer[handled[s]] = "output" THEN "success" ELSE "not executed"]
  /\ hpc' = [hpc EXCEPT ![s] = "publish"]
  /\ UNCHANGED <<busVars, inbox, handled, order, clientVars, poolVars>>

\* Mutant: result.Error is not looked at.
Executed_ErrorIgnored(s) ==
  /\ hpc[s] = "job" /\ answer[handled[s]] # "none"
  /\ response' = [response EXCEPT ![s] = "success"]
  /\ hpc' = [hpc EXCEPT ![s] = "publish"]
  /\ UNCHANGED <<busVars, inbox, handled, order, clientVars, poolVars>>

\* Mutant: the result of the pool is passed on as it is.
Executed_Raw(s) ==
  /\ hpc[s] = "job" /\ answer[handled[s]] # "none"
  /\ response' = [response EXCEPT ![s] = answer[handled[s]]]
  /\ hpc' = [hpc EXCEPT ![s] = "publish"]
  /\ UNCHANGED <<busVars, inbox, handled, order, clientVars, poolVars>>

\* ... and turns it into a response.
Executed(s) ==
  /\ hpc[s] = "job" /\ answer[handled[s]] # "none"
  /\ response' = [response EXCEPT ![s] =
                    IF answer[handled[s]] = "output" THEN "success" ELSE "not executed"]
  /\ hpc' = [hpc EXCEPT ![s] = "publish"]
  /\ UNCHANGED <<busVars, inbox, handled, order, clientVars, poolVars>>

\* nc.Publish(msg.Reply, resData): the error is dropped.  It fails when the
\* connection is closed, when the response is larger than the server takes (the
\* output of a program has no bound) or when the request names no subject to
\* reply to; and the server may lose what was sent.
PublishReply(s) ==
  /\ hpc[s] = "publish"
  /\ \E r \in {response[s], "lost"} :
       /\ closed => r = "lost"
       /\ reply' = [reply EXCEPT ![handled[s]] = r]
  /\ Finish(s)
  /\ UNCHANGED <<busVars, inbox, order, request, poolVars>>

PoolReplies(m) ==
  /\ \E a \in JobAnswers : Pool!Reply(m, a)
  /\ UNCHANGED <<busVars, subscriptionVars, clientVars>>
-----------------------------------------------------------------------------
\* The NATS client has tried to reconnect as often as it does by default and
\* gives up.  main sets no handler: the engine stays up and hears nothing more,
\* and the callbacks go on with what they have.
ConnectionCloses ==
  /\ MayCrash /\ ~closed /\ subscribed # {}
  /\ closed' = TRUE /\ subscribed' = {}
  /\ UNCHANGED <<subscriptionVars, clientVars, poolVars>>

\* The process dies, in main's logger.Fatal, by a panic of the container
\* manager or by a deployment, and the jobs in the pool with it.
Crash ==
  /\ MayCrash /\ (subscribed # {} \/ closed)
  /\ subscribed' = {} /\ closed' = FALSE
  /\ inbox' = [s \in Subjects |-> <<>>]
  /\ handled' = [s \in Subjects |-> Nothing]
  /\ hpc' = [s \in Subjects |-> "wait"]
  /\ response' = [s \in Subjects |-> "none"]
  /\ order' = [s \in Subjects |-> <<>>]
  /\ pending' = {}
  /\ UNCHANGED <<clientVars, answer>>

\* main, once the worker pool and the connection are there: one subject after the
\* other.  Requests are already served on the first while the second has no
\* subscriber.
Subscribe(s) ==
  /\ s \notin subscribed /\ ~closed
  /\ s = ProblemSubject => CompilerSubject \in subscribed
  /\ subscribed' = subscribed \cup {s}
  /\ UNCHANGED <<closed, subscriptionVars, clientVars, poolVars>>

Init ==
  /\ subscribed = {} /\ closed = FALSE
  /\ request = [m \in Messages |-> Unsent]
  /\ inbox = [s \in Subjects |-> <<>>]
  /\ handled = [s \in Subjects |-> Nothing]
  /\ hpc = [s \in Subjects |-> "wait"]
  /\ response = [s \in Subjects |-> "none"]
  /\ reply = [m \in Messages |-> "none"]
  /\ order = [s \in Subjects |-> <<>>]
  /\ pending = {}
  /\ answer = [m \in Messages |-> "none"]

Callback(s) ==
  \/ Deliver(s)
  \/ Malformed(s) \/ Rejected(s)
  \/ ExecuteJob(s) \/ Executed(s)
  \/ PublishReply(s)

Next ==
  \/ \E m \in Messages : Publish(m) \/ PoolReplies(m)
  \/ \E s \in Subjects : Callback(s) \/ Subscribe(s)
  \/ ConnectionCloses \/ Crash

Spec == Init /\ [][Next]_vars

\* The callbacks run, and the pool answers every job (WorkerPool's
\* JobsAnswered).
FairSpec ==
  /\ Spec
  /\ \A s \in Subjects : WF_vars(Callback(s)) /\ WF_vars(Subscribe(s))
  /\ \A m \in Messages : WF_vars(PoolReplies(m))
-----------------------------------------------------------------------------
(* Safety. *)

\* The pool only sees jobs it can execute: executeCode's "unsupported language"
\* is never reached, for SanitizeCode knows the languages LanguageConfigs has.
OnlySupportedExecuted ==
  \A m \in Messages :
    m \in pending \/ answer[m] # "none"
      => normalizeLanguage(request[m].language) \in LanguageConfigs

\* The pool never works on a job nobody waits for: a callback stays in
\* ExecuteJob until its own job is answered, so the two subscriptions have two
\* jobs in the pool at most, whatever was turned away or lost in a crash.
PendingAwaited ==
  pending \subseteq {handled[s] : s \in {t \in Subjects : hpc[t] = "job"}}

\* Of the requests on one subject, none has its response published before an
\* earlier one that can be read has had its turn, whatever of the responses gets
\* lost and whatever the other subject does.
RepliesInOrder ==
  \A s \in Subjects : \A i, k \in DOMAIN order[s] :
    i < k /\ reply[order[s][k]] # "none" /\ request[order[s][i]].json
      => reply[order[s][i]] # "none"

\* The response tells of this request: success if and only if its own job has
\* succeeded, across the waiting, other subjects' jobs and restarts.
SuccessIsReal ==
  \A m \in Messages :
    reply[m] \notin {"none", "lost"} => (reply[m] = "success" <=> answer[m] = "output")

-----------------------------------------------------------------------------
(* Liveness, under FairSpec. *)

\* A request that can be read and has been queued has its turn, a response of its
\* own that is published or lost in the attempt, unless the engine dies or loses
\* its connection, however slow the jobs before it are.
RequestsAnswered ==
  \A m \in Messages :
    (\E s \in Subjects : m \in {order[s][i] : i \in DOMAIN order[s]}) /\ request[m].json
      ~> reply[m] # "none" \/ subscribed = {}
=============================================================================
