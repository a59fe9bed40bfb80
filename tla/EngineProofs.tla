----------------------------- MODULE EngineProofs -----------------------------
(***************************************************************************)
(* Theorems about Engine, for any number of messages, any requests, any    *)
(* size of the pool and of the queues, with and without crashes.           *)
(***************************************************************************)
EXTENDS Engine, SequenceTheorems, TLAPS

\* How many messages of o, all that came, are no longer in the queue q.
Taken(o, q) == Len(o) - Len(q)

\* A subject's queue q is what its callback has not taken yet of o, in the order
\* in which it came.  All but the last one taken have had their turn, and so has
\* that one, h, once the callback waits for the next: those that can be read have
\* a response, published or lost in the attempt.
Line(s, o, q, position, h, req, rep) ==
  /\ Len(q) <= Len(o)
  /\ IsInjective(o)
  /\ \A i \in 1 .. Len(o) : req[o[i]] \in RequestSpace /\ req[o[i]].subject = s
  /\ \A i \in 1 .. Len(q) : q[i] = o[Taken(o, q) + i]
  /\ position # "wait" => Taken(o, q) > 0 /\ h = o[Taken(o, q)]
  /\ \A i \in 1 .. Len(o) :
       IF i < Taken(o, q) \/ (i = Taken(o, q) /\ position = "wait")
       THEN req[o[i]].json => rep[o[i]] # "none"
       ELSE rep[o[i]] = "none"

\* The line of the subject s as it stands.
InOrder(s) == Line(s, order[s], inbox[s], hpc[s], handled[s], request, reply)

\* Each subject's messages are dealt with one by one, in the order they came in.
OrderInv == \A s \in Subjects : InOrder(s)

\* A response that is about to be published is one, and true.
CallbackInv ==
  \A s \in Subjects :
    hpc[s] = "publish" =>
      /\ response[s] \in Responses
      /\ response[s] = "success" <=> answer[handled[s]] = "output"

\* No message in the queue q is answered by ans.
Unanswered(q, ans) == \A i \in 1 .. Len(q) : ans[q[i]] = "none"

\* The pool has not seen what a callback has yet to look at.
FreshInv ==
  \A s \in Subjects :
    /\ Unanswered(inbox[s], answer)
    /\ hpc[s] = "handle" => answer[handled[s]] = "none"

\* What the pool has or has had was published, and can be executed.
MessageInv ==
  \A m \in Messages :
    /\ request[m] = Unsent => reply[m] = "none"
    /\ m \in pending => answer[m] = "none"
    /\ m \in pending \/ answer[m] # "none" =>
         /\ request[m] \in RequestSpace
         /\ normalizeLanguage(request[m].language) \in LanguageConfigs

\* The inductive invariant of the engine.
EngineInv ==
  /\ TypeOK /\ OrderInv /\ CallbackInv /\ FreshInv /\ MessageInv
  /\ PendingAwaited /\ SuccessIsReal
-----------------------------------------------------------------------------
(* What the steps start from.                                              *)

\* A request has a subject of its own, and is not the absence of one.
LEMMA RequestType ==
  ASSUME NEW r \in RequestSpace
  PROVE  /\ r.subject \in Subjects /\ r.json \in BOOLEAN
         /\ r # Unsent
<1>1. r \in [subject : Subjects, json : BOOLEAN, base64 : BOOLEAN, language : STRING,
             long : BOOLEAN,
             hits : SUBSET (Common \cup UNION {LanguagePatterns[l] : l \in LanguageConfigs})]
  BY EngineAssumption
<1>2. r.subject \in Subjects /\ r.json \in BOOLEAN
  BY <1>1
<1>3. DOMAIN r # DOMAIN Unsent
  BY <1>1 DEF Unsent
<1> QED
  BY <1>2, <1>3

\* What Compile and ExecuteProblemCode come to, and what "clean" means.
LEMMA VerdictType ==
  ASSUME NEW r
  PROVE  /\ Verdict(r) \in {"clean", "not base64", "too long", "prohibited", "unsupported"}
         /\ Verdict(r) = "clean" => normalizeLanguage(r.language) \in LanguageConfigs
  BY DEF Verdict, Compile, ExecuteProblemCode, SanitizeCode, LanguagePatterns, LanguageConfigs

\* A callback that is not waiting works on a request of its own subject, which
\* has no reply yet.
LEMMA AtHand ==
  ASSUME EngineInv, NEW s \in Subjects, hpc[s] # "wait"
  PROVE  /\ handled[s] \in Messages
         /\ request[handled[s]] \in RequestSpace
         /\ request[handled[s]].subject = s
         /\ reply[handled[s]] = "none"
<1>1. PICK o \in Seq(Messages), q \in Seq(Messages) : o = order[s] /\ q = inbox[s]
  BY DEF EngineInv, TypeOK
<1>2. Line(s, o, q, hpc[s], handled[s], request, reply)
  BY <1>1 DEF EngineInv, OrderInv, InOrder
<1>3. Len(o) \in Nat /\ Len(q) \in Nat /\ DOMAIN o = 1 .. Len(o)
  BY LenProperties
<1>4. Taken(o, q) \in 1 .. Len(o) /\ handled[s] = o[Taken(o, q)]
  <2>1. Taken(o, q) > 0 /\ handled[s] = o[Taken(o, q)]
    BY <1>2 DEF Line
  <2> QED
    BY <1>3, <2>1 DEF Taken
<1>5. o[Taken(o, q)] \in Messages
  BY <1>3, <1>4
<1>6. ~(Taken(o, q) < Taken(o, q) \/ (Taken(o, q) = Taken(o, q) /\ hpc[s] = "wait"))
  BY <1>3, <1>4
<1> QED
  BY <1>2, <1>4, <1>5, <1>6 DEF Line

\* A message says what it says for good.
LEMMA RequestsLast ==
  TypeOK /\ [Next]_vars =>
    \A m \in Messages : request[m] # Unsent => request'[m] = request[m]
<1> SUFFICES ASSUME TypeOK, [Next]_vars, NEW m \in Messages, request[m] # Unsent
             PROVE  request'[m] = request[m]
  OBVIOUS
<1>1. ASSUME NEW k \in Messages, Publish(k) PROVE request'[m] = request[m]
  BY <1>1 DEF Publish, TypeOK
<1>2. ASSUME NEW k \in Messages, PoolReplies(k) PROVE request' = request
  BY <1>2 DEF PoolReplies, clientVars
<1>3. ASSUME NEW s \in Subjects, Callback(s) \/ Subscribe(s) PROVE request' = request
  BY <1>3 DEF Callback, Deliver, Malformed, Rejected, ExecuteJob, Executed, PublishReply,
     Subscribe, clientVars
<1>4. ASSUME Crash \/ ConnectionCloses \/ UNCHANGED vars PROVE request' = request
  BY <1>4 DEF Crash, ConnectionCloses, vars, clientVars
<1> QED
  BY <1>1, <1>2, <1>3, <1>4 DEF Next

-----------------------------------------------------------------------------
(* What the steps keep.                                                    *)

\* A queue is empty at first ...
LEMMA NoMessages == <<>> \in Seq(Messages) /\ Len(<<>>) = 0 /\ Len(<<>>) <= PendingLimit
<1>1. PendingLimit \in Nat
  BY EngineAssumption
<1> QED
  BY <1>1, EmptySeq

\* ... a message is added at the end ...
LEMMA Enqueue ==
  ASSUME NEW q \in Seq(Messages), NEW m \in Messages
  PROVE  /\ Append(q, m) \in Seq(Messages)
         /\ Len(q) < PendingLimit => Len(Append(q, m)) <= PendingLimit
<1>1. Append(q, m) \in Seq(Messages) /\ Len(Append(q, m)) = Len(q) + 1 /\ Len(q) \in Nat
  BY AppendProperties, LenProperties
<1>2. PendingLimit \in Nat
  BY EngineAssumption
<1> QED
  BY <1>1, <1>2

\* ... and taken from the front.
LEMMA Dequeue ==
  ASSUME NEW q \in Seq(Messages), q # <<>>
  PROVE  /\ Head(q) \in Messages /\ Tail(q) \in Seq(Messages)
         /\ Len(Tail(q)) = Len(q) - 1 /\ Len(q) \in Nat \ {0} /\ Head(q) = q[1]
         /\ \A i \in 1 .. Len(Tail(q)) : Tail(q)[i] = q[i + 1]
         /\ Len(q) <= PendingLimit => Len(Tail(q)) <= PendingLimit
<1>1. /\ Head(q) \in Messages /\ Tail(q) \in Seq(Messages)
      /\ Len(Tail(q)) = Len(q) - 1
      /\ \A i \in 1 .. Len(Tail(q)) : Tail(q)[i] = q[i + 1]
  BY HeadTailProperties
<1>2. Len(q) \in Nat \ {0} /\ Head(q) = q[1]
  BY LenProperties, EmptySeq
<1>3. PendingLimit \in Nat
  BY EngineAssumption
<1> QED
  BY <1>1, <1>2, <1>3

\* Every step keeps the types.
LEMMA TypeKept == EngineInv /\ [Next]_vars => TypeOK'
<1> SUFFICES ASSUME EngineInv, [Next]_vars PROVE TypeOK'
  OBVIOUS
<1>0. TypeOK /\ PendingLimit \in Nat \ {0}
  BY EngineAssumption DEF EngineInv
<1> USE <1>0 DEF TypeOK, busVars, subscriptionVars, clientVars, poolVars, Responses, JobAnswers
<1>1. ASSUME NEW m \in Messages, Publish(m) PROVE TypeOK'
  <2>1. PICK r \in RequestSpace :
          /\ request' = [request EXCEPT ![m] = r]
          /\ IF r.subject \in subscribed /\ Len(inbox[r.subject]) < PendingLimit
             THEN /\ inbox' = [inbox EXCEPT ![r.subject] = Append(@, m)]
                  /\ order' = [order EXCEPT ![r.subject] = Append(@, m)]
             ELSE UNCHANGED <<inbox, order>>
    BY <1>1 DEF Publish
  <2>2. PICK t \in Subjects : t = r.subject
    BY RequestType
  <2>3. PICK q \in Seq(Messages), o \in Seq(Messages) : q = inbox[t] /\ o = order[t]
    OBVIOUS
  <2>4. /\ Append(q, m) \in Seq(Messages) /\ Append(o, m) \in Seq(Messages)
        /\ Len(q) < PendingLimit => Len(Append(q, m)) <= PendingLimit
    BY Enqueue
  <2>5. \/ /\ inbox' = [inbox EXCEPT ![t] = Append(q, m)]
           /\ order' = [order EXCEPT ![t] = Append(o, m)]
           /\ Len(q) < PendingLimit
        \/ UNCHANGED <<inbox, order>>
    BY <2>1, <2>2, <2>3
  <2>6. /\ inbox' \in [Subjects -> Seq(Messages)]
        /\ order' \in [Subjects -> Seq(Messages)]
        /\ \A s \in Subjects : Len(inbox'[s]) <= PendingLimit
    BY <2>4, <2>5
  <2>7. request' \in [Messages -> RequestSpace \cup {Unsent}]
    BY <2>1
  <2> QED
    BY <1>1, <2>6, <2>7 DEF Publish
<1>2. ASSUME NEW m \in Messages, PoolReplies(m) PROVE TypeOK'
  <2>1. PICK a \in JobAnswers : Pool!Reply(m, a)
    BY <1>2 DEF PoolReplies
  <2>2. pending' \in SUBSET Messages /\ answer' \in [Messages -> JobAnswers \cup {"none", "full"}]
    BY <2>1 DEF Pool!Reply
  <2> QED
    BY <1>2, <2>2 DEF PoolReplies
<1>3. ASSUME NEW s \in Subjects, Deliver(s) PROVE TypeOK'
  <2>1. PICK q \in Seq(Messages) : q = inbox[s] /\ q # <<>>
    BY <1>3 DEF Deliver
  <2>2. /\ Head(q) \in Messages /\ Tail(q) \in Seq(Messages)
        /\ Len(Tail(q)) <= PendingLimit
    BY <2>1, Dequeue
  <2>3. /\ inbox' = [inbox EXCEPT ![s] = Tail(q)]
        /\ handled' = [handled EXCEPT ![s] = Head(q)]
    BY <1>3, <2>1 DEF Deliver
  <2>4. /\ inbox' \in [Subjects -> Seq(Messages)]
        /\ \A t \in Subjects : Len(inbox'[t]) <= PendingLimit
    BY <2>2, <2>3
  <2>5. handled' \in [Subjects -> Messages \cup {Nothing}]
    BY <2>2, <2>3
  <2> QED
    BY <1>3, <2>4, <2>5 DEF Deliver
<1>4. ASSUME NEW s \in Subjects, Malformed(s) \/ PublishReply(s) PROVE TypeOK'
  <2>1. Finish(s) /\ handled' \in [Subjects -> Messages \cup {Nothing}]
    BY <1>4 DEF Malformed, PublishReply, Finish
  <2>2. reply' \in [Messages -> Responses \cup {"none", "lost"}]
    BY <1>4 DEF Malformed, PublishReply
  <2> QED
    BY <1>4, <2>1, <2>2 DEF Malformed, PublishReply, Finish
<1>5. ASSUME NEW s \in Subjects, Rejected(s) PROVE TypeOK'
  <2>1. Verdict(request[handled[s]]) \in Responses
    BY <1>5, VerdictType DEF Rejected
  <2> QED
    BY <1>5, <2>1 DEF Rejected
<1>6. ASSUME NEW s \in Subjects, ExecuteJob(s) PROVE TypeOK'
  <2>1. handled[s] \in Messages
    BY <1>6, AtHand DEF ExecuteJob
  <2>2. pending' \in SUBSET Messages /\ answer' \in [Messages -> JobAnswers \cup {"none", "full"}]
    BY <1>6, <2>1 DEF ExecuteJob, Pool!Accept, Pool!TurnAway
  <2> QED
    BY <1>6, <2>2 DEF ExecuteJob
<1>7. ASSUME NEW s \in Subjects, Executed(s) PROVE TypeOK'
  BY <1>7 DEF Executed
<1>8. ASSUME Crash PROVE TypeOK'
  <2>1. /\ inbox' \in [Subjects -> Seq(Messages)]
        /\ order' \in [Subjects -> Seq(Messages)]
        /\ \A s \in Subjects : Len(inbox'[s]) <= PendingLimit
    BY <1>8, NoMessages DEF Crash
  <2> QED
    BY <1>8, <2>1 DEF Crash
<1>9. ASSUME NEW s \in Subjects, Subscribe(s) PROVE TypeOK'
  BY <1>9 DEF Subscribe, Subjects
<1>10. ASSUME ConnectionCloses \/ UNCHANGED vars PROVE TypeOK'
  BY <1>10 DEF ConnectionCloses, vars
<1> QED
  BY <1>1, <1>2, <1>3, <1>4, <1>5, <1>6, <1>7, <1>8, <1>9, <1>10 DEF Next, Callback

\* A step hands at most the message of one callback to the pool, and takes
\* nothing back from it.
LEMMA MessageStep == EngineInv /\ [Next]_vars => MessageInv'
<1> SUFFICES ASSUME EngineInv, [Next]_vars, NEW m \in Messages
             PROVE  /\ request'[m] = Unsent => reply'[m] = "none"
                    /\ m \in pending' => answer'[m] = "none"
                    /\ m \in pending' \/ answer'[m] # "none" =>
                         /\ request'[m] \in RequestSpace
                         /\ normalizeLanguage(request'[m].language) \in LanguageConfigs
  BY DEF MessageInv
<1> DEFINE Known == m \in pending \/ answer[m] # "none"
<1> USE DEF subscriptionVars, clientVars, poolVars
<1>1. /\ request[m] # Unsent => request'[m] = request[m]
      /\ request'[m] = Unsent => request[m] = Unsent
      /\ request[m] = Unsent => reply[m] = "none"
      /\ m \in pending => answer[m] = "none"
      /\ Known => /\ request[m] \in RequestSpace
                  /\ normalizeLanguage(request[m].language) \in LanguageConfigs
  BY RequestsLast DEF EngineInv, MessageInv
<1>2. Known => request'[m] = request[m]
  BY <1>1, RequestType
<1>3. reply'[m] = reply[m] \/ request[m] # Unsent
  <2>1. ASSUME NEW s \in Subjects, PublishReply(s) PROVE reply'[m] = reply[m] \/ request[m] # Unsent
    <3>1. request[handled[s]] \in RequestSpace
      BY <2>1, AtHand DEF PublishReply
    <3> QED
      BY <2>1, <3>1, RequestType DEF PublishReply, EngineInv, TypeOK
  <2>2. ASSUME ~\E s \in Subjects : PublishReply(s) PROVE reply' = reply
    BY <2>2 DEF Next, Callback, Publish, PoolReplies, Deliver, Malformed, Rejected,
       ExecuteJob, Executed, Subscribe, Crash, ConnectionCloses, vars
  <2> QED
    BY <2>1, <2>2
<1>4. ASSUME NEW s \in Subjects, ExecuteJob(s)
      PROVE  /\ request' = request
             /\ m \in pending' => answer'[m] = "none"
             /\ m \in pending' \/ answer'[m] # "none" => Known \/ m = handled[s]
             /\ normalizeLanguage(request[handled[s]].language) \in LanguageConfigs
             /\ request[handled[s]] \in RequestSpace
  <2>1. handled[s] \in Messages /\ request[handled[s]] \in RequestSpace
    BY <1>4, AtHand DEF ExecuteJob
  <2>2. normalizeLanguage(request[handled[s]].language) \in LanguageConfigs
    BY <1>4, VerdictType DEF ExecuteJob
  <2> QED
    BY <1>1, <1>4, <2>1, <2>2 DEF ExecuteJob, Pool!Accept, Pool!TurnAway, EngineInv, TypeOK
<1>5. ASSUME ~\E s \in Subjects : ExecuteJob(s)
      PROVE  /\ m \in pending' => m \in pending /\ answer'[m] = "none"
             /\ m \in pending' \/ answer'[m] # "none" => Known
  <2>1. ASSUME NEW k \in Messages, PoolReplies(k)
        PROVE  /\ k \in pending /\ pending' = pending \ {k}
               /\ \A i \in Messages : i # k => answer'[i] = answer[i]
    BY <2>1 DEF PoolReplies, Pool!Reply, EngineInv, TypeOK
  <2>2. ASSUME ~\E k \in Messages : PoolReplies(k)
        PROVE  answer' = answer /\ pending' \subseteq pending
    BY <1>5, <2>2 DEF Next, Callback, Publish, Deliver, Malformed, Rejected,
       Executed, PublishReply, Subscribe, Crash, ConnectionCloses, vars
  <2> QED
    BY <1>1, <2>1, <2>2
<1> QED
  BY <1>1, <1>2, <1>3, <1>4, <1>5

\* A callback leaves ExecuteJob only once its job has been answered, and what is
\* answered is not pending.
LEMMA AwaitStep == EngineInv /\ [Next]_vars => PendingAwaited'
<1> SUFFICES ASSUME EngineInv, [Next]_vars, NEW m \in pending'
             PROVE  \E s \in Subjects : hpc'[s] = "job" /\ handled'[s] = m
  BY DEF PendingAwaited
<1> USE DEF subscriptionVars, clientVars, poolVars
<1>1. ASSUME m \in pending
      PROVE  /\ m \in Messages /\ answer[m] = "none"
             /\ \E s \in Subjects : hpc[s] = "job" /\ handled[s] = m
  BY <1>1 DEF EngineInv, TypeOK, MessageInv, PendingAwaited
<1>2. hpc \in [Subjects -> {"wait", "handle", "job", "publish"}]
  BY DEF EngineInv, TypeOK
<1>3. handled \in [Subjects -> Messages \cup {Nothing}]
  BY DEF EngineInv, TypeOK
<1>4. ASSUME NEW t \in Subjects, ExecuteJob(t)
      PROVE  \E s \in Subjects : hpc'[s] = "job" /\ handled'[s] = m
  <2>1. m = handled[t] \/ m \in pending
    BY <1>4 DEF ExecuteJob, Pool!Accept, Pool!TurnAway
  <2> QED
    BY <1>1, <1>2, <1>4, <2>1 DEF ExecuteJob
<1>5. ASSUME NEW t \in Subjects,
             Deliver(t) \/ Malformed(t) \/ Rejected(t) \/ Executed(t) \/ PublishReply(t)
      PROVE  \E s \in Subjects : hpc'[s] = "job" /\ handled'[s] = m
  <2>1. m \in pending
    BY <1>5 DEF Deliver, Malformed, Rejected, Executed, PublishReply
  <2>2. PICK s \in Subjects : hpc[s] = "job" /\ handled[s] = m
    BY <1>1, <2>1
  <2>3. s # t
    BY <1>1, <1>5, <2>1, <2>2 DEF Deliver, Malformed, Rejected, Executed, PublishReply
  <2>4. hpc'[s] = hpc[s] /\ handled'[s] = handled[s]
    BY <1>2, <1>3, <1>5, <2>3 DEF Deliver, Malformed, Rejected, Executed, PublishReply, Finish
  <2> QED
    BY <2>2, <2>4
<1>6. ASSUME NEW k \in Messages, Publish(k) \/ PoolReplies(k)
      PROVE  m \in pending /\ UNCHANGED <<hpc, handled>>
  BY <1>6 DEF Publish, PoolReplies, Pool!Reply
<1>7. ASSUME NEW t \in Subjects, Subscribe(t)
      PROVE  m \in pending /\ UNCHANGED <<hpc, handled>>
  BY <1>7 DEF Subscribe
<1>8. ASSUME Crash PROVE FALSE
  BY <1>8 DEF Crash
<1>9. ASSUME ConnectionCloses \/ UNCHANGED vars
      PROVE  m \in pending /\ UNCHANGED <<hpc, handled>>
  BY <1>9 DEF ConnectionCloses, vars
<1> QED
  BY <1>1, <1>4, <1>5, <1>6, <1>7, <1>8, <1>9 DEF Next, Callback

\* Places behind those taken.
LEMMA Behind ==
  ASSUME NEW n \in Nat, NEW k \in Nat, k <= n, NEW i \in 1 .. k
  PROVE  /\ n - k \in Nat /\ n - k <= n
         /\ (n - k) + i \in 1 .. n /\ (n - k) + i # n - k
  OBVIOUS

\* The message that a callback works on is nobody else's, and in no queue.
LEMMA Apart ==
  ASSUME EngineInv, NEW s \in Subjects, hpc[s] # "wait", NEW t \in Subjects
  PROVE  /\ t # s /\ hpc[t] # "wait" => handled[t] # handled[s]
         /\ \A i \in 1 .. Len(inbox[t]) : inbox[t][i] # handled[s]
<1>1. PICK o \in Seq(Messages), q \in Seq(Messages) : o = order[t] /\ q = inbox[t]
  BY DEF EngineInv, TypeOK
<1>2. Line(t, o, q, hpc[t], handled[t], request, reply)
  BY <1>1 DEF EngineInv, OrderInv, InOrder
<1>3. Len(o) \in Nat /\ Len(q) \in Nat /\ DOMAIN o = 1 .. Len(o) /\ Len(q) <= Len(o)
  BY <1>2, LenProperties DEF Line
<1>4. t # s /\ hpc[t] # "wait" => handled[t] # handled[s]
  BY AtHand
<1>5. ASSUME NEW i \in 1 .. Len(q) PROVE q[i] # handled[s]
  <2>0. /\ Taken(o, q) \in Nat /\ Taken(o, q) <= Len(o)
        /\ Taken(o, q) + i \in 1 .. Len(o) /\ Taken(o, q) + i # Taken(o, q)
    BY <1>3, Behind DEF Taken
  <2>1. q[i] = o[Taken(o, q) + i]
    BY <1>2 DEF Line
  <2>2. request[q[i]].subject = t
    BY <1>2, <2>0, <2>1 DEF Line
  <2>3. CASE t # s
    BY <2>2, <2>3, AtHand
  <2>4. CASE t = s
    <3>1. handled[s] = o[Taken(o, q)] /\ Taken(o, q) > 0
      BY <1>2, <2>4 DEF Line
    <3>2. Taken(o, q) \in 1 .. Len(o)
      BY <1>3, <2>0, <3>1
    <3> QED
      BY <1>2, <1>3, <2>0, <2>1, <3>1, <3>2 DEF Line, IsInjective
  <2> QED
    BY <2>3, <2>4
<1> QED
  BY <1>1, <1>4, <1>5

\* The pool answers only a message that a callback is waiting for, or has just
\* tried to hand over.
LEMMA AnswersAwaited ==
  EngineInv /\ [Next]_vars =>
    \A m \in Messages : answer'[m] # answer[m] =>
      \E s \in Subjects : hpc[s] # "wait" /\ hpc'[s] = "job" /\ handled[s] = m
<1> SUFFICES ASSUME EngineInv, [Next]_vars, NEW m \in Messages, answer'[m] # answer[m]
             PROVE  \E s \in Subjects : hpc[s] # "wait" /\ hpc'[s] = "job" /\ handled[s] = m
  OBVIOUS
<1>0. /\ hpc \in [Subjects -> {"wait", "handle", "job", "publish"}]
      /\ answer \in [Messages -> JobAnswers \cup {"none", "full"}]
  BY DEF EngineInv, TypeOK
<1>1. ASSUME NEW k \in Messages, PoolReplies(k)
      PROVE  \E s \in Subjects : hpc[s] # "wait" /\ hpc'[s] = "job" /\ handled[s] = m
  <2>1. m \in pending /\ hpc' = hpc
    BY <1>0, <1>1 DEF PoolReplies, Pool!Reply, subscriptionVars
  <2> QED
    BY <2>1 DEF EngineInv, PendingAwaited
<1>2. ASSUME NEW s \in Subjects, ExecuteJob(s)
      PROVE  hpc[s] # "wait" /\ hpc'[s] = "job" /\ handled[s] = m
  BY <1>0, <1>2 DEF ExecuteJob, Pool!Accept, Pool!TurnAway
<1>3. ASSUME ~\E k \in Messages : PoolReplies(k), ~\E s \in Subjects : ExecuteJob(s)
      PROVE  answer' = answer
  BY <1>3 DEF Next, Callback, Publish, Deliver, Malformed, Rejected, Executed,
     PublishReply, Subscribe, Crash, ConnectionCloses, vars, poolVars
<1> QED
  BY <1>1, <1>2, <1>3

\* A queue stays unanswered when a message joins it that has no answer, and when
\* one leaves it.
LEMMA StillUnanswered ==
  ASSUME NEW q \in Seq(Messages), NEW ans, Unanswered(q, ans)
  PROVE  /\ \A m \in Messages : ans[m] = "none" => Unanswered(Append(q, m), ans)
         /\ q # <<>> => Unanswered(Tail(q), ans) /\ ans[Head(q)] = "none"
<1>1. ASSUME NEW m \in Messages, ans[m] = "none"
      PROVE  Unanswered(Append(q, m), ans)
  <2>1. /\ Len(Append(q, m)) = Len(q) + 1 /\ Append(q, m)[Len(q) + 1] = m
        /\ \A i \in 1 .. Len(q) : Append(q, m)[i] = q[i]
        /\ Len(q) \in Nat
    BY AppendProperties, LenProperties
  <2> QED
    BY <1>1, <2>1 DEF Unanswered
<1>2. ASSUME q # <<>> PROVE Unanswered(Tail(q), ans) /\ ans[Head(q)] = "none"
  BY <1>2, Dequeue DEF Unanswered
<1> QED
  BY <1>1, <1>2

\* What comes into a queue is new to the pool, and stays so until its callback
\* has looked at it.
LEMMA FreshStep == EngineInv /\ [Next]_vars => FreshInv'
<1> SUFFICES ASSUME EngineInv, [Next]_vars, NEW t \in Subjects
             PROVE  /\ Unanswered(inbox'[t], answer')
                    /\ hpc'[t] = "handle" => answer'[handled'[t]] = "none"
  BY DEF FreshInv, Unanswered
<1> USE DEF subscriptionVars, clientVars, poolVars
<1>1. PICK q \in Seq(Messages) : q = inbox[t]
  BY DEF EngineInv, TypeOK
<1>2. /\ hpc \in [Subjects -> {"wait", "handle", "job", "publish"}]
      /\ handled \in [Subjects -> Messages \cup {Nothing}]
      /\ inbox \in [Subjects -> Seq(Messages)]
  BY DEF EngineInv, TypeOK
<1>3. Unanswered(q, answer) /\ (hpc[t] = "handle" => answer[handled[t]] = "none")
  BY <1>1 DEF EngineInv, FreshInv
<1>4. \A i \in 1 .. Len(q) : q[i] \in Messages /\ answer'[q[i]] = answer[q[i]]
  BY <1>1, Apart, AnswersAwaited, ElementOfSeq
<1>5. Unanswered(q, answer')
  BY <1>3, <1>4 DEF Unanswered
<1>6. CASE UNCHANGED <<inbox[t], hpc[t], handled[t]>>
  <2>1. ASSUME hpc[t] = "handle" PROVE answer'[handled[t]] = answer[handled[t]]
    BY <1>6, <2>1, AtHand, Apart, AnswersAwaited
  <2> QED
    BY <1>1, <1>3, <1>5, <1>6, <2>1
<1>7. ASSUME NEW m \in Messages, Publish(m)
      PROVE  /\ Unanswered(inbox'[t], answer')
             /\ UNCHANGED <<hpc, handled, answer>>
  <2>1. inbox'[t] \in {q, Append(q, m)} /\ UNCHANGED <<hpc, handled, answer>>
    BY <1>1, <1>2, <1>7 DEF Publish
  <2>2. request[m] \notin RequestSpace
    BY <1>7, RequestType DEF Publish
  <2>3. answer[m] = "none"
    BY <2>2 DEF EngineInv, MessageInv
  <2>4. Unanswered(Append(q, m), answer)
    BY <1>3, <2>3, StillUnanswered
  <2> QED
    BY <1>3, <2>1, <2>4
<1>8. ASSUME Deliver(t)
      PROVE  /\ Unanswered(inbox'[t], answer')
             /\ answer'[handled'[t]] = "none"
  <2>1. q # <<>> /\ inbox'[t] = Tail(q) /\ handled'[t] = Head(q)
    BY <1>1, <1>2, <1>8 DEF Deliver
  <2>2. Unanswered(Tail(q), answer') /\ answer'[Head(q)] = "none"
    BY <1>5, <2>1, StillUnanswered
  <2> QED
    BY <2>1, <2>2
<1>9. ASSUME Malformed(t) \/ Rejected(t) \/ ExecuteJob(t) \/ Executed(t) \/ PublishReply(t)
      PROVE  inbox'[t] = q /\ hpc'[t] # "handle"
  BY <1>1, <1>2, <1>9 DEF Malformed, Rejected, ExecuteJob, Executed, PublishReply, Finish
<1>10. ASSUME NEW s \in Subjects, s # t, Callback(s)
       PROVE  UNCHANGED <<inbox[t], hpc[t], handled[t]>>
  BY <1>2, <1>10 DEF Callback, Deliver, Malformed, Rejected, ExecuteJob, Executed,
     PublishReply, Finish
<1>11. ASSUME Crash PROVE inbox'[t] = <<>> /\ hpc'[t] # "handle"
  BY <1>11 DEF Crash
<1>12. Unanswered(<<>>, answer')
  BY NoMessages DEF Unanswered
<1>13. ASSUME ~Crash, ~\E s \in Subjects : Callback(s), ~\E m \in Messages : Publish(m)
       PROVE  UNCHANGED <<inbox, hpc, handled>>
  BY <1>13 DEF Next, PoolReplies, Subscribe, ConnectionCloses, vars
<1>14. ASSUME Callback(t)
       PROVE  /\ Unanswered(inbox'[t], answer')
              /\ hpc'[t] = "handle" => answer'[handled'[t]] = "none"
  BY <1>5, <1>8, <1>9, <1>14 DEF Callback
<1>15. ASSUME NEW m \in Messages, Publish(m)
       PROVE  /\ Unanswered(inbox'[t], answer')
              /\ hpc'[t] = "handle" => answer'[handled'[t]] = "none"
  BY <1>3, <1>7, <1>15
<1>16. ASSUME Crash
       PROVE  /\ Unanswered(inbox'[t], answer')
              /\ hpc'[t] = "handle" => answer'[handled'[t]] = "none"
  BY <1>11, <1>12, <1>16
<1> QED
  BY <1>6, <1>10, <1>13, <1>14, <1>15, <1>16

\* A response tells of its own job, which no other can have answered meanwhile.
LEMMA CallbackStep == EngineInv /\ [Next]_vars => CallbackInv'
<1> SUFFICES ASSUME EngineInv, [Next]_vars, NEW s \in Subjects, hpc'[s] = "publish"
             PROVE  /\ response'[s] \in Responses
                    /\ response'[s] = "success" <=> answer'[handled'[s]] = "output"
  BY DEF CallbackInv
<1> USE DEF subscriptionVars, clientVars, poolVars
<1>1. /\ hpc \in [Subjects -> {"wait", "handle", "job", "publish"}]
      /\ handled \in [Subjects -> Messages \cup {Nothing}]
      /\ response \in [Subjects -> Responses \cup {"none"}]
  BY DEF EngineInv, TypeOK
<1>2. CASE hpc[s] = "publish" /\ UNCHANGED <<hpc[s], handled[s], response[s]>>
  <2>1. handled[s] \in Messages
    BY <1>2, AtHand
  <2>2. /\ response[s] \in Responses
        /\ response[s] = "success" <=> answer[handled[s]] = "output"
    BY <1>2 DEF EngineInv, CallbackInv
  <2>3. answer'[handled[s]] = answer[handled[s]]
    BY <1>2, <2>1, Apart, AnswersAwaited
  <2> QED
    BY <1>2, <2>2, <2>3
<1>3. ASSUME Rejected(s) \/ Executed(s)
      PROVE  /\ response'[s] \in Responses
             /\ response'[s] = "success" <=> answer'[handled'[s]] = "output"
  <2>1. CASE Rejected(s)
    <3>1. answer[handled[s]] = "none"
      BY <2>1 DEF Rejected, EngineInv, FreshInv
    <3> QED
      BY <1>1, <2>1, <3>1, VerdictType DEF Rejected, Responses
  <2>2. CASE Executed(s)
    BY <1>1, <2>2 DEF Executed, Responses
  <2> QED
    BY <1>3, <2>1, <2>2
<1>4. ASSUME NEW t \in Subjects, Callback(t), ~(t = s /\ (Rejected(s) \/ Executed(s)))
      PROVE  hpc[s] = "publish" /\ UNCHANGED <<hpc[s], handled[s], response[s]>>
  BY <1>1, <1>4 DEF Callback, Deliver, Malformed, Rejected, ExecuteJob, Executed,
     PublishReply, Finish
<1>5. ASSUME ~Crash, ~\E t \in Subjects : Callback(t)
      PROVE  UNCHANGED <<hpc, handled, response>>
  BY <1>5 DEF Next, Publish, PoolReplies, Subscribe, ConnectionCloses, vars
<1>6. ASSUME Crash PROVE FALSE
  BY <1>6 DEF Crash
<1> QED
  BY <1>2, <1>3, <1>4, <1>5, <1>6

\* A reply is published of an answer that stays, and what has been replied to is
\* not answered any more.
LEMMA SuccessStep == EngineInv /\ [Next]_vars => SuccessIsReal'
<1> SUFFICES ASSUME EngineInv, [Next]_vars, NEW m \in Messages,
                    reply'[m] \notin {"none", "lost"}
             PROVE  reply'[m] = "success" <=> answer'[m] = "output"
  BY DEF SuccessIsReal
<1>1. CASE reply[m] # "none" /\ reply'[m] = reply[m]
  <2>1. answer'[m] = answer[m]
    BY <1>1, AtHand, AnswersAwaited
  <2> QED
    BY <1>1, <2>1 DEF EngineInv, SuccessIsReal
<1>2. ASSUME NEW s \in Subjects, PublishReply(s), reply'[m] # reply[m]
      PROVE  reply'[m] = "success" <=> answer'[m] = "output"
  <2>1. m = handled[s] /\ reply'[m] \in {response[s], "lost"} /\ hpc[s] = "publish"
    BY <1>2 DEF PublishReply, EngineInv, TypeOK
  <2>2. response[s] = "success" <=> answer[m] = "output"
    BY <2>1 DEF EngineInv, CallbackInv
  <2>3. answer' = answer
    BY <1>2 DEF PublishReply, poolVars
  <2> QED
    BY <2>1, <2>2, <2>3
<1>3. ASSUME ~\E s \in Subjects : PublishReply(s) PROVE reply' = reply
  BY <1>3 DEF Next, Callback, Publish, PoolReplies, Deliver, Malformed, Rejected,
     ExecuteJob, Executed, Subscribe, Crash, ConnectionCloses, vars, clientVars
<1> QED
  BY <1>1, <1>2, <1>3

-----------------------------------------------------------------------------
(* The order of the replies.                                               *)

\* An engine that has just come up has queued nothing.
LEMMA LineEmpty ==
  ASSUME NEW s, NEW h, NEW req, NEW rep
  PROVE  Line(s, <<>>, <<>>, "wait", h, req, rep)
  BY EmptySeq DEF Line, IsInjective

\* What happens to other messages does not disturb the line.
LEMMA LineKept ==
  ASSUME NEW s, NEW o \in Seq(Messages), NEW q, NEW p, NEW h, NEW req, NEW rep,
         Line(s, o, q, p, h, req, rep), NEW p2, NEW req2, NEW rep2,
         p2 = "wait" <=> p = "wait",
         \A i \in 1 .. Len(o) : req2[o[i]] = req[o[i]] /\ rep2[o[i]] = rep[o[i]]
  PROVE  Line(s, o, q, p2, h, req2, rep2)
  BY DEF Line

\* A new message goes to the end of the line.
LEMMA LineQueues ==
  ASSUME NEW s, NEW o \in Seq(Messages), NEW q \in Seq(Messages), NEW p, NEW h,
         NEW req, NEW rep, Line(s, o, q, p, h, req, rep),
         NEW m \in Messages, NEW req2,
         \A i \in 1 .. Len(o) : o[i] # m /\ req2[o[i]] = req[o[i]],
         req2[m] \in RequestSpace, req2[m].subject = s, rep[m] = "none"
  PROVE  Line(s, Append(o, m), Append(q, m), p, h, req2, rep)
<1> DEFINE o2 == Append(o, m)
           q2 == Append(q, m)
<1>1. /\ Len(o2) = Len(o) + 1 /\ Len(q2) = Len(q) + 1
      /\ o2[Len(o) + 1] = m /\ q2[Len(q) + 1] = m
      /\ \A i \in 1 .. Len(o) : o2[i] = o[i]
      /\ \A i \in 1 .. Len(q) : q2[i] = q[i]
  BY AppendProperties
<1>2. /\ Len(o) \in Nat /\ Len(q) \in Nat /\ DOMAIN o = 1 .. Len(o)
      /\ DOMAIN o2 = 1 .. Len(o) + 1
  BY <1>1, LenProperties, AppendProperties
<1> HIDE DEF o2, q2
<1>3. /\ Len(q) <= Len(o) /\ IsInjective(o)
      /\ Taken(o2, q2) = Taken(o, q) /\ Taken(o, q) \in Nat /\ Taken(o, q) <= Len(o)
      /\ Taken(o, q) + Len(q) = Len(o)
  <2>1. Len(q) <= Len(o) /\ IsInjective(o)
    BY DEF Line
  <2> QED
    BY <1>1, <1>2, <2>1 DEF Taken
<1> DEFINE n == Taken(o, q)
<1>4. IsInjective(o2)
  BY <1>1, <1>2, <1>3 DEF IsInjective
<1>5. \A i \in 1 .. Len(o2) : req2[o2[i]] \in RequestSpace /\ req2[o2[i]].subject = s
  BY <1>1, <1>2 DEF Line
<1>6. \A i \in 1 .. Len(q2) : q2[i] = o2[n + i]
  <2> SUFFICES ASSUME NEW i \in 1 .. Len(q2) PROVE q2[i] = o2[n + i]
    OBVIOUS
  <2>1. CASE i \in 1 .. Len(q)
    <3>1. q[i] = o[n + i] /\ n + i \in 1 .. Len(o)
      BY <1>2, <1>3, <2>1 DEF Line
    <3> QED
      BY <1>1, <2>1, <3>1
  <2>2. CASE i = Len(q) + 1
    BY <1>1, <1>2, <1>3, <2>2
  <2> QED
    BY <1>1, <1>2, <2>1, <2>2
<1>7. p # "wait" => n > 0 /\ h = o2[n]
  BY <1>1, <1>2, <1>3 DEF Line
<1>8. \A i \in 1 .. Len(o2) :
        IF i < n \/ (i = n /\ p = "wait")
        THEN req2[o2[i]].json => rep[o2[i]] # "none"
        ELSE rep[o2[i]] = "none"
  <2> SUFFICES ASSUME NEW i \in 1 .. Len(o2)
               PROVE  IF i < n \/ (i = n /\ p = "wait")
                      THEN req2[o2[i]].json => rep[o2[i]] # "none"
                      ELSE rep[o2[i]] = "none"
    OBVIOUS
  <2>1. CASE i \in 1 .. Len(o)
    BY <1>1, <2>1 DEF Line
  <2>2. CASE i = Len(o) + 1
    <3>1. ~(i < n \/ (i = n /\ p = "wait"))
      BY <1>2, <1>3, <2>2
    <3> QED
      BY <1>1, <2>2, <3>1
  <2> QED
    BY <1>1, <1>2, <2>1, <2>2
<1>9. Len(q2) <= Len(o2)
  BY <1>1, <1>2, <1>3
<1> QED
  BY <1>3, <1>4, <1>5, <1>6, <1>7, <1>8, <1>9 DEF Line, o2, q2

\* The callback takes the first one that waits, all before it being dealt with.
LEMMA LineDelivers ==
  ASSUME NEW s, NEW o \in Seq(Messages), NEW q \in Seq(Messages), NEW h,
         NEW req, NEW rep, Line(s, o, q, "wait", h, req, rep), q # <<>>
  PROVE  Line(s, o, Tail(q), "handle", Head(q), req, rep)
<1> DEFINE t == Tail(q)
<1>1. /\ Len(t) = Len(q) - 1 /\ Len(q) \in Nat \ {0} /\ Head(q) = q[1]
      /\ \A i \in 1 .. Len(t) : t[i] = q[i + 1]
      /\ Len(o) \in Nat
  BY Dequeue, LenProperties
<1> HIDE DEF t
<1>2. Len(q) <= Len(o)
  BY DEF Line
<1>3. /\ Taken(o, q) \in Nat /\ Taken(o, t) = Taken(o, q) + 1
      /\ Taken(o, q) + Len(q) = Len(o) /\ Len(t) \in Nat /\ Len(t) <= Len(o)
  BY <1>1, <1>2 DEF Taken
<1>4. \A i \in 1 .. Len(q) : q[i] = o[Taken(o, q) + i]
  BY DEF Line
<1>5. Head(q) = o[Taken(o, t)] /\ Taken(o, t) > 0
  BY <1>1, <1>3, <1>4
<1>6. \A i \in 1 .. Len(t) : t[i] = o[Taken(o, t) + i]
  <2> SUFFICES ASSUME NEW i \in 1 .. Len(t) PROVE t[i] = o[Taken(o, t) + i]
    OBVIOUS
  <2>1. i + 1 \in 1 .. Len(q) /\ Taken(o, q) + (i + 1) = Taken(o, t) + i
    BY <1>1, <1>3
  <2> QED
    BY <1>1, <1>4, <2>1
<1>7. \A i \in 1 .. Len(o) :
        IF i < Taken(o, t) \/ (i = Taken(o, t) /\ "handle" = "wait")
        THEN req[o[i]].json => rep[o[i]] # "none"
        ELSE rep[o[i]] = "none"
  <2> SUFFICES ASSUME NEW i \in 1 .. Len(o)
               PROVE  IF i < Taken(o, t)
                      THEN req[o[i]].json => rep[o[i]] # "none"
                      ELSE rep[o[i]] = "none"
    OBVIOUS
  <2>1. i < Taken(o, t) <=> (i < Taken(o, q) \/ i = Taken(o, q))
    BY <1>1, <1>3
  <2> QED
    BY <2>1 DEF Line
<1> QED
  BY <1>3, <1>5, <1>6, <1>7 DEF Line, t

\* The callback is done with the message at hand.
LEMMA LineFinishes ==
  ASSUME NEW s, NEW o \in Seq(Messages), NEW q \in Seq(Messages), NEW p, NEW h,
         NEW req, NEW rep, Line(s, o, q, p, h, req, rep), p # "wait",
         NEW rep2, NEW h2,
         \A i \in 1 .. Len(o) : o[i] # h => rep2[o[i]] = rep[o[i]],
         req[h].json => rep2[h] # "none"
  PROVE  Line(s, o, q, "wait", h2, req, rep2)
<1> DEFINE n == Taken(o, q)
<1>1. /\ Len(o) \in Nat /\ Len(q) \in Nat /\ DOMAIN o = 1 .. Len(o)
  BY LenProperties
<1>2. n \in 1 .. Len(o) /\ h = o[n] /\ IsInjective(o)
  <2>1. n > 0 /\ h = o[n] /\ IsInjective(o)
    BY DEF Line
  <2> QED
    BY <1>1, <2>1 DEF Taken
<1>3. \A i \in 1 .. Len(o) : o[i] = h => i = n
  BY <1>1, <1>2 DEF IsInjective
<1>4. \A i \in 1 .. Len(o) :
        IF i < n \/ (i = n /\ "wait" = "wait")
        THEN req[o[i]].json => rep2[o[i]] # "none"
        ELSE rep2[o[i]] = "none"
  <2> SUFFICES ASSUME NEW i \in 1 .. Len(o)
               PROVE  IF i < n \/ i = n
                      THEN req[o[i]].json => rep2[o[i]] # "none"
                      ELSE rep2[o[i]] = "none"
    OBVIOUS
  <2>1. IF i < n THEN req[o[i]].json => rep[o[i]] # "none"
                 ELSE rep[o[i]] = "none"
    BY DEF Line
  <2> HIDE DEF n
  <2>2. CASE i = n
    BY <1>2, <2>2
  <2>3. CASE i # n
    BY <1>3, <2>1, <2>3
  <2> QED
    BY <2>2, <2>3
<1> QED
  BY <1>4 DEF Line

\* Every step keeps the lines of both subjects.
LEMMA OrderStep == EngineInv /\ [Next]_vars => OrderInv'
<1> SUFFICES ASSUME EngineInv, [Next]_vars, NEW s \in Subjects PROVE InOrder(s)'
  BY DEF OrderInv
<1>1. PICK o \in Seq(Messages), q \in Seq(Messages) : o = order[s] /\ q = inbox[s]
  BY DEF EngineInv, TypeOK
<1>2. Line(s, o, q, hpc[s], handled[s], request, reply)
  BY <1>1 DEF EngineInv, OrderInv, InOrder
<1>3. \A i \in 1 .. Len(o) :
        /\ o[i] \in Messages /\ request[o[i]] # Unsent /\ request[o[i]].subject = s
        /\ request'[o[i]] = request[o[i]]
  <2> SUFFICES ASSUME NEW i \in 1 .. Len(o)
               PROVE  /\ o[i] \in Messages /\ request[o[i]] # Unsent
                      /\ request[o[i]].subject = s
                      /\ request'[o[i]] = request[o[i]]
    OBVIOUS
  <2>1. o[i] \in Messages
    BY LenProperties
  <2>2. request[o[i]] \in RequestSpace /\ request[o[i]].subject = s
    BY <1>2 DEF Line
  <2>3. request[o[i]] # Unsent
    BY <2>2, RequestType
  <2> QED
    BY <2>1, <2>2, <2>3, RequestsLast DEF EngineInv
<1>4. /\ hpc \in [Subjects -> {"wait", "handle", "job", "publish"}]
      /\ handled \in [Subjects -> Messages \cup {Nothing}]
      /\ order \in [Subjects -> Seq(Messages)] /\ inbox \in [Subjects -> Seq(Messages)]
      /\ request \in [Messages -> RequestSpace \cup {Unsent}]
      /\ reply \in [Messages -> Responses \cup {"none", "lost"}]
  BY DEF EngineInv, TypeOK
<1>5. ASSUME order'[s] = o, inbox'[s] = q, handled'[s] = handled[s],
             hpc'[s] = "wait" <=> hpc[s] = "wait",
             \A i \in 1 .. Len(o) : reply'[o[i]] = reply[o[i]]
      PROVE  InOrder(s)'
  BY <1>2, <1>3, <1>5, LineKept DEF InOrder
<1> USE DEF subscriptionVars, clientVars, poolVars
<1>6. ASSUME NEW m \in Messages, Publish(m) PROVE InOrder(s)'
  <2>1. PICK r \in RequestSpace :
          /\ request' = [request EXCEPT ![m] = r]
          /\ IF r.subject \in subscribed /\ Len(inbox[r.subject]) < PendingLimit
             THEN /\ inbox' = [inbox EXCEPT ![r.subject] = Append(@, m)]
                  /\ order' = [order EXCEPT ![r.subject] = Append(@, m)]
             ELSE UNCHANGED <<inbox, order>>
    BY <1>6 DEF Publish
  <2>2. request[m] = Unsent /\ UNCHANGED <<hpc, handled, reply>>
    BY <1>6 DEF Publish
  <2>3. CASE order'[s] = Append(o, m) /\ inbox'[s] = Append(q, m) /\ r.subject = s
    <3>1. request'[m] = r /\ request'[m] \in RequestSpace /\ request'[m].subject = s
      BY <1>4, <2>1, <2>3
    <3>2. reply[m] = "none"
      BY <2>2 DEF EngineInv, MessageInv
    <3>3. \A i \in 1 .. Len(o) : o[i] # m /\ request'[o[i]] = request[o[i]]
      BY <1>3, <2>2
    <3>4. Line(s, Append(o, m), Append(q, m), hpc[s], handled[s], request', reply)
      BY <1>2, <3>1, <3>2, <3>3, LineQueues
    <3> QED
      BY <2>2, <2>3, <3>4 DEF InOrder
  <2>4. CASE order'[s] = o /\ inbox'[s] = q
    BY <1>5, <2>2, <2>4
  <2> QED
    BY <1>1, <1>4, <2>1, <2>3, <2>4
<1>7. ASSUME Deliver(s) PROVE InOrder(s)'
  <2>1. /\ hpc[s] = "wait" /\ q # <<>>
        /\ handled'[s] = Head(q) /\ inbox'[s] = Tail(q) /\ hpc'[s] = "handle"
        /\ order'[s] = o /\ UNCHANGED <<request, reply>>
    BY <1>1, <1>4, <1>7 DEF Deliver
  <2>2. Line(s, o, Tail(q), "handle", Head(q), request, reply)
    BY <1>2, <2>1, LineDelivers
  <2> QED
    BY <2>1, <2>2 DEF InOrder
<1>8. ASSUME Malformed(s) \/ PublishReply(s) PROVE InOrder(s)'
  <2>1. /\ hpc[s] # "wait" /\ hpc'[s] = "wait"
        /\ inbox'[s] = q /\ order'[s] = o /\ request' = request
    BY <1>1, <1>4, <1>8 DEF Malformed, PublishReply, Finish
  <2>2. handled[s] \in Messages
    BY <2>1, AtHand
  <2>3. request[handled[s]].json => reply'[handled[s]] # "none"
    <3>1. CASE Malformed(s)
      BY <3>1 DEF Malformed
    <3>2. CASE PublishReply(s)
      <4>1. response[s] \in Responses
        BY <3>2 DEF PublishReply, EngineInv, CallbackInv
      <4> QED
        BY <1>4, <2>2, <3>2, <4>1 DEF PublishReply, Responses
    <3> QED
      BY <1>8, <3>1, <3>2
  <2>4. \A i \in 1 .. Len(o) : o[i] # handled[s] => reply'[o[i]] = reply[o[i]]
    BY <1>3, <1>4, <1>8 DEF Malformed, PublishReply
  <2>5. Line(s, o, q, "wait", handled'[s], request, reply')
    BY <1>2, <2>1, <2>3, <2>4, LineFinishes
  <2> QED
    BY <2>1, <2>5 DEF InOrder
<1>9. ASSUME Rejected(s) \/ ExecuteJob(s) \/ Executed(s) PROVE InOrder(s)'
  BY <1>1, <1>4, <1>5, <1>9 DEF Rejected, ExecuteJob, Executed
<1>10. ASSUME NEW t \in Subjects, t # s, Callback(t) PROVE InOrder(s)'
  <2>1. /\ order'[s] = o /\ inbox'[s] = q /\ UNCHANGED <<hpc[s], handled[s]>>
    BY <1>1, <1>4, <1>10 DEF Callback, Deliver, Malformed, Rejected, ExecuteJob, Executed,
       PublishReply, Finish
  <2>2. \A i \in 1 .. Len(o) : reply'[o[i]] = reply[o[i]]
    <3>1. CASE PublishReply(t)
      <4>1. request[handled[t]].subject = t /\ handled[t] \in Messages
        BY <3>1, AtHand DEF PublishReply
      <4>2. \A i \in 1 .. Len(o) : o[i] # handled[t]
        BY <1>3, <1>10, <4>1
      <4> QED
        BY <1>3, <1>4, <3>1, <4>1, <4>2 DEF PublishReply
    <3>2. CASE ~PublishReply(t)
      BY <1>10, <3>2 DEF Callback, Deliver, Malformed, Rejected, ExecuteJob, Executed
    <3> QED
      BY <3>1, <3>2
  <2> QED
    BY <1>5, <2>1, <2>2
<1>11. ASSUME Crash PROVE InOrder(s)'
  <2>1. order'[s] = <<>> /\ inbox'[s] = <<>> /\ hpc'[s] = "wait"
    BY <1>11 DEF Crash
  <2> QED
    BY <2>1, LineEmpty DEF InOrder
<1>12. CASE UNCHANGED <<order, inbox, handled, hpc, reply>>
  BY <1>1, <1>5, <1>12
<1>13. ASSUME (\E m \in Messages : PoolReplies(m)) \/ (\E t \in Subjects : Subscribe(t))
                \/ ConnectionCloses \/ UNCHANGED vars
       PROVE  UNCHANGED <<order, inbox, handled, hpc, reply>>
  BY <1>13 DEF PoolReplies, Subscribe, ConnectionCloses, vars
<1> QED
  BY <1>6, <1>7, <1>8, <1>9, <1>10, <1>11, <1>12, <1>13 DEF Next, Callback
-----------------------------------------------------------------------------
(* Theorems.                                                               *)

\* Before the engine's first request.
LEMMA EngineInit == Init => EngineInv
<1> SUFFICES ASSUME Init PROVE EngineInv
  OBVIOUS
<1>1. TypeOK
  BY NoMessages DEF Init, TypeOK
<1>2. OrderInv
  BY LineEmpty DEF Init, OrderInv, InOrder
<1>3. CallbackInv /\ MessageInv /\ PendingAwaited /\ SuccessIsReal
  BY DEF Init, CallbackInv, MessageInv, PendingAwaited, SuccessIsReal
<1>4. FreshInv
  BY NoMessages DEF Init, FreshInv, Unanswered
<1> QED
  BY <1>1, <1>2, <1>3, <1>4 DEF EngineInv

\* The invariant of the engine, through any number of crashes and restarts, lost
\* responses and a connection that closes.
THEOREM EngineInvariant == Spec => []EngineInv
<1>1. EngineInv /\ [Next]_vars => EngineInv'
  BY TypeKept, OrderStep, CallbackStep, FreshStep, MessageStep, AwaitStep, SuccessStep
     DEF EngineInv
<1> QED
  BY <1>1, EngineInit, PTL DEF Spec

\* The variables keep their types.
THEOREM EngineTypes == Spec => []TypeOK
<1>1. EngineInv => TypeOK
  BY DEF EngineInv
<1> QED
  BY <1>1, EngineInvariant, PTL

\* The pool never gets a job in a language it cannot execute.
THEOREM NothingUnsupported == Spec => []OnlySupportedExecuted
<1>1. EngineInv => OnlySupportedExecuted
  BY DEF EngineInv, MessageInv, OnlySupportedExecuted
<1> QED
  BY <1>1, EngineInvariant, PTL

\* The pool never works for nobody.
THEOREM JobsAwaited == Spec => []PendingAwaited
<1>1. EngineInv => PendingAwaited
  BY DEF EngineInv
<1> QED
  BY <1>1, EngineInvariant, PTL

\* A reply tells of success if and only if the request's own job has succeeded.
THEOREM SuccessReal == Spec => []SuccessIsReal
<1>1. EngineInv => SuccessIsReal
  BY DEF EngineInv
<1> QED
  BY <1>1, EngineInvariant, PTL

\* On a subject no response is published before every earlier request that can be
\* read has had its turn; what is published may be lost.
THEOREM OrderedReplies == Spec => []RepliesInOrder
<1>1. EngineInv => RepliesInOrder
  <2> SUFFICES ASSUME EngineInv, NEW s \in Subjects,
                      NEW i \in DOMAIN order[s], NEW k \in DOMAIN order[s], i < k,
                      reply[order[s][k]] # "none", request[order[s][i]].json
               PROVE  reply[order[s][i]] # "none"
    BY DEF RepliesInOrder
  <2>1. PICK o \in Seq(Messages), q \in Seq(Messages) : o = order[s] /\ q = inbox[s]
    BY DEF EngineInv, TypeOK
  <2>2. Line(s, o, q, hpc[s], handled[s], request, reply)
    BY <2>1 DEF EngineInv, OrderInv, InOrder
  <2>3. i \in 1 .. Len(o) /\ k \in 1 .. Len(o) /\ Len(o) \in Nat /\ Len(q) \in Nat
    BY <2>1, LenProperties
  <2>4. k < Taken(o, q) \/ (k = Taken(o, q) /\ hpc[s] = "wait")
    BY <2>1, <2>2, <2>3 DEF Line
  <2>5. i < Taken(o, q)
    BY <2>3, <2>4 DEF Taken
  <2> QED
    BY <2>1, <2>2, <2>3, <2>5 DEF Line
<1> QED
  BY <1>1, EngineInvariant, PTL

=============================================================================
