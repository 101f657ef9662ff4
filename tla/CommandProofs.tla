---------------------------- MODULE CommandProofs ----------------------------
(***************************************************************************)
(* Proofs about CommandExec, for any bound on the output: the type         *)
(* invariant, the inductive invariant CommandInv, and from it that the     *)
(* output is complete and in order and that no shell is left running.      *)
(***************************************************************************)
EXTENDS CommandExec, SequenceTheorems, TLAPS

USE DEF Stream, Exit, Event, Item

-----------------------------------------------------------------------------
(* Sequences of events *)

\* Its elements are events.
LEMMA Elements ==
    ASSUME NEW q \in Seq(Event)
    PROVE  /\ Len(q) \in Nat /\ DOMAIN q = 1..Len(q)
           /\ \A i \in DOMAIN q : q[i] \in Event
  <1>1. q \in [1..Len(q) -> Event] /\ Len(q) \in Nat
    BY LenProperties
  <1> QED BY <1>1

\* What Append does to a sequence of events.
LEMMA Appended ==
    ASSUME NEW q \in Seq(Event), NEW e \in Event
    PROVE  /\ Append(q, e) \in Seq(Event)
           /\ Len(Append(q, e)) = Len(q) + 1
           /\ DOMAIN Append(q, e) = 1..(Len(q) + 1)
           /\ \A i \in 1..Len(q) : Append(q, e)[i] = q[i]
           /\ Append(q, e)[Len(q) + 1] = e
  OBVIOUS

\* What Tail does to one that is not empty.
LEMMA Dropped ==
    ASSUME NEW q \in Seq(Event), q # <<>>
    PROVE  /\ Tail(q) \in Seq(Event)
           /\ Len(q) \in Nat \ {0}
           /\ DOMAIN q = 1..Len(q)
           /\ DOMAIN Tail(q) = 1..(Len(q) - 1)
           /\ \A i \in 1..(Len(q) - 1) : Tail(q)[i] = q[i + 1]
           /\ Head(q) = q[1] /\ Head(q) \in Event
  <1>1. Tail(q) \in Seq(Event) /\ Head(q) \in Event
    BY HeadTailProperties
  <1>0. Head(q) = q[1]
    OBVIOUS
  <1>2. Len(q) \in Nat \ {0} /\ DOMAIN q = 1..Len(q)
    BY LenProperties, EmptySeq
  <1>3. /\ DOMAIN Tail(q) = 1..(Len(q) - 1)
        /\ \A i \in 1..(Len(q) - 1) : Tail(q)[i] = q[i + 1]
    BY <1>2, HeadTailProperties, LenProperties
  <1> QED BY <1>0, <1>1, <1>2, <1>3

\* What a sequence has after an item is added, or the first is taken away.
LEMMA HasAppended ==
    ASSUME NEW q \in Seq(Event), NEW e \in Event, NEW x
    PROVE  Has(Append(q, e), x) <=> Has(q, x) \/ x = e
  <1>1. DOMAIN q = 1..Len(q) /\ Len(q) \in Nat
    BY LenProperties
  <1>2. \A i \in DOMAIN q : i \in DOMAIN Append(q, e) /\ Append(q, e)[i] = q[i]
    BY <1>1, Appended
  <1>3. Has(Append(q, e), e)
    <2>1. /\ Len(q) + 1 \in DOMAIN Append(q, e)
          /\ Append(q, e)[Len(q) + 1] = e
      BY <1>1, Appended
    <2> QED BY <2>1 DEF Has
  <1>4. \A i \in DOMAIN Append(q, e) : i \in DOMAIN q \/ Append(q, e)[i] = e
    BY <1>1, Appended
  <1> QED BY <1>2, <1>3, <1>4 DEF Has

LEMMA HasDropped ==
    ASSUME NEW q \in Seq(Event), q # <<>>, NEW x
    PROVE  Has(q, x) <=> Has(Tail(q), x) \/ x = Head(q)
  <1>1. ASSUME Has(q, x)
        PROVE  Has(Tail(q), x) \/ x = Head(q)
    <2>1. PICK i \in DOMAIN q : q[i] = x
      BY <1>1 DEF Has
    <2>2. CASE i = 1
      BY <2>1, <2>2, Dropped
    <2>3. CASE i # 1
      <3>1. i - 1 \in DOMAIN Tail(q) /\ Tail(q)[i - 1] = q[(i - 1) + 1]
        BY <2>3, Dropped
      <3> QED BY <2>1, <3>1, Dropped DEF Has
    <2> QED BY <2>2, <2>3
  <1>2. ASSUME Has(Tail(q), x)
        PROVE  Has(q, x)
    <2>1. PICK i \in DOMAIN Tail(q) : Tail(q)[i] = x
      BY <1>2 DEF Has
    <2>2. i + 1 \in DOMAIN q /\ q[i + 1] = x
      BY <2>1, Dropped
    <2> QED BY <2>2 DEF Has
  <1>3. Has(q, Head(q))
    BY Dropped DEF Has
  <1> QED BY <1>1, <1>2, <1>3

-----------------------------------------------------------------------------
(* Type correctness *)

LEMMA SendType ==
    ASSUME TypeOK, NEW x \in Exit
    PROVE  Append(sent, Item(x, 0)) \in Seq(Event)
  <1>1. sent \in Seq(Event) /\ Item(x, 0) \in Event
    BY MaxChunksAssumption DEF TypeOK
  <1> QED BY <1>1, Appended

LEMMA QueueType ==
    ASSUME TypeOK, queue # <<>>
    PROVE  /\ Tail(queue) \in Seq(Event)
           /\ Append(sent, Item(Head(queue).label, Head(queue).n)) \in Seq(Event)
  <1>1. Tail(queue) \in Seq(Event) /\ Head(queue) \in Event
    BY Dropped DEF TypeOK
  <1>2. Item(Head(queue).label, Head(queue).n) = Head(queue)
    BY <1>1
  <1> QED BY <1>1, <1>2, Appended DEF TypeOK

LEMMA HandlerType ==
    TypeOK /\ OpenCounts /\ (Handler \/ RunFails) => TypeOK'
  <1> SUFFICES ASSUME TypeOK, OpenCounts, Handler \/ RunFails
               PROVE  TypeOK'
    OBVIOUS
  <1>0. \A x \in Exit : Append(sent, Item(x, 0)) \in Seq(Event)
    BY SendType
  <1> USE <1>0 DEF TypeOK, childVars, Send, KillTree, WritingStdin
  <1>1. CASE Launch
    <2>0. UNCHANGED <<kind, timed, stdin, open, expired, client, reader,
                      queue, helper, written, taken>>
      BY <1>1 DEF Launch
    <2>1. sent' \in Seq(Event)
      BY <1>1 DEF Launch
    <2>2. holds' \in [Stream -> SUBSET {"shell", "helper"}]
      BY <1>1 DEF Launch
    <2>3. shell' \in {"none", "running", "exited"}
          /\ pc' \in {"encode", "headers", "done"}
      BY <1>1 DEF Launch
    <2> QED BY <2>0, <2>1, <2>2, <2>3
  <1>2. CASE RunEncodes
    BY <1>2 DEF RunEncodes
  <1>3. ASSUME NEW s \in Stream, RunReads(s)
        PROVE  TypeOK'
    <2>1. Item(s, taken[s] + 1) \in Event
      BY <1>3, MaxChunksAssumption DEF RunReads
    <2>2. sent' \in Seq(Event)
      BY <1>3, <2>1, Appended DEF RunReads
    <2>3. taken' \in [Stream -> 0..MaxChunks]
      BY <1>3, MaxChunksAssumption DEF RunReads
    <2>4. UNCHANGED <<kind, timed, stdin, pc, open, expired, client, reader,
                      queue, shell, helper, holds, written>>
      BY <1>3 DEF RunReads
    <2> QED BY <2>2, <2>3, <2>4
  <1>4. CASE RunCompletes
    BY <1>4 DEF RunCompletes
  <1>5. CASE RunTimesOut
    BY <1>5 DEF RunTimesOut
  <1>5a. CASE RunTimesOutInWait
    <2>1. <<Item("exit_timed_out", 0)>> \in Seq(Event)
      BY MaxChunksAssumption
    <2> QED BY <1>5a, <2>1 DEF RunTimesOutInWait
  <1>6. CASE RunFinally
    <2>1. /\ shell' \in {"none", "running", "exited"}
          /\ helper' \in {"none", "running", "exited", "killed"}
          /\ holds' \in [Stream -> SUBSET {"shell", "helper"}]
          /\ written' = written
      BY <1>6 DEF RunFinally
    <2>2. /\ UNCHANGED <<kind, timed, stdin, open, expired, client, reader,
                         queue, taken>>
          /\ sent' \in Seq(Event) /\ pc' = "done"
      BY <1>6 DEF RunFinally
    <2> QED BY <2>1, <2>2
  <1>7. CASE StreamFails
    BY <1>7 DEF StreamFails
  <1>8. CASE StartWorkers
    BY <1>8 DEF StartWorkers
  <1>9. CASE PumpHead
    BY <1>9 DEF PumpHead
  <1>10. CASE GetEmpty
    BY <1>10 DEF GetEmpty
  <1>11. CASE GetEnd
    BY <1>11, QueueType DEF GetEnd, OpenCounts
  <1>12. CASE GetChunk
    BY <1>12, QueueType DEF GetChunk
  <1>13. CASE Drain
    <2>1. CASE /\ queue # <<>> /\ queue' = Tail(queue)
               /\ Head(queue).n = 0 /\ open' = open - 1 /\ UNCHANGED sent
      BY <1>13, <2>1, QueueType DEF Drain, OpenCounts
    <2>2. CASE /\ queue # <<>> /\ queue' = Tail(queue)
               /\ Send(Head(queue).label, Head(queue).n) /\ UNCHANGED open
      BY <1>13, <2>2, QueueType DEF Drain
    <2>3. CASE UNCHANGED <<open, queue, sent>>
      BY <1>13, <2>3 DEF Drain
    <2> QED BY <1>13, <2>1, <2>2, <2>3 DEF Drain
  <1>14. CASE ReapLate
    BY <1>14 DEF ReapLate
  <1>15. CASE Reap
    BY <1>15 DEF Reap
  <1>16. CASE Gone
    BY <1>16 DEF Gone
  <1>17. CASE RunFails
    BY <1>17 DEF RunFails
  <1> QED
    BY <1>1, <1>2, <1>3, <1>4, <1>5, <1>5a, <1>6, <1>7, <1>8, <1>9, <1>10,
       <1>11, <1>12, <1>13, <1>14, <1>15, <1>16, <1>17 DEF Handler

LEMMA BesideType ==
    ASSUME TypeOK,
           \/ \E s \in Stream : Reader(s)
           \/ \E p \in {"shell", "helper"}, s \in Stream :
                 Writes(p, s) \/ Closes(p, s)
           \/ Backgrounds \/ ShellExits \/ HelperExits \/ StdinWritten
           \/ Stalls \/ Disconnects \/ Expire \/ Rest
    PROVE  TypeOK'
  <1> USE MaxChunksAssumption DEF TypeOK, childVars
  <1>1. ASSUME NEW s \in Stream, Reader(s)
        PROVE  TypeOK'
    <2>1. CASE /\ taken[s] < written[s]
               /\ taken' = [taken EXCEPT ![s] = @ + 1]
               /\ queue' = Append(queue, Item(s, taken[s] + 1))
               /\ UNCHANGED reader
      <3>1. Item(s, taken[s] + 1) \in Event
        BY <2>1
      <3>2. queue' \in Seq(Event)
        BY <2>1, <3>1, Appended
      <3>3. taken' \in [Stream -> 0..MaxChunks]
        BY <2>1
      <3> QED BY <1>1, <2>1, <3>2, <3>3 DEF Reader
    <2>2. CASE /\ queue' = Append(queue, Item(s, 0))
               /\ reader' = reader \ {s}
               /\ UNCHANGED taken
      <3>1. Item(s, 0) \in Event
        OBVIOUS
      <3>2. queue' \in Seq(Event)
        BY <2>2, <3>1, Appended
      <3> QED BY <1>1, <2>2, <3>2 DEF Reader
    <2> QED BY <1>1, <2>1, <2>2 DEF Reader
  <1>2. ASSUME NEW p \in {"shell", "helper"}, NEW s \in Stream, Writes(p, s)
        PROVE  TypeOK'
    BY <1>2 DEF Writes
  <1>3. ASSUME NEW p \in {"shell", "helper"}, NEW s \in Stream, Closes(p, s)
        PROVE  TypeOK'
    BY <1>3 DEF Closes
  <1>4. CASE Backgrounds
    BY <1>4 DEF Backgrounds
  <1>5. CASE ShellExits
    <2>1. holds' \in [Stream -> SUBSET {"shell", "helper"}]
      BY <1>5 DEF ShellExits
    <2> QED BY <1>5, <2>1 DEF ShellExits
  <1>6. CASE HelperExits
    <2>1. holds' \in [Stream -> SUBSET {"shell", "helper"}]
      BY <1>6 DEF HelperExits
    <2> QED BY <1>6, <2>1 DEF HelperExits
  <1>7. CASE StdinWritten
    BY <1>7 DEF StdinWritten
  <1>8. CASE Stalls \/ Disconnects
    <2>1. client' \in {"reads", "stalled", "gone"}
      BY <1>8 DEF Stalls, Disconnects
    <2>2. UNCHANGED <<kind, timed, stdin, pc, open, expired, reader, queue,
                      sent, childVars, taken>>
      BY <1>8 DEF Stalls, Disconnects
    <2> QED BY <2>1, <2>2
  <1>9. CASE Expire
    BY <1>9 DEF Expire
  <1>10. CASE Rest
    BY <1>10 DEF Rest, vars
  <1> QED BY <1>1, <1>2, <1>3, <1>4, <1>5, <1>6, <1>7, <1>8, <1>9, <1>10

LEMMA NextType == TypeOK /\ CommandInv /\ [Next]_vars => TypeOK'
  <1>1. TypeOK /\ CommandInv /\ Next => TypeOK'
    BY HandlerType, BesideType DEF Next, CommandInv
  <1>2. TypeOK /\ UNCHANGED vars => TypeOK'
    BY DEF TypeOK, vars, childVars
  <1> QED BY <1>1, <1>2

-----------------------------------------------------------------------------
(* What a step may do to the output on its way *)

\* Nothing; an exit event is sent; a chunk is read and sent (by /run).
Quiet == UNCHANGED <<sent, queue, taken, reader>>

SendsExit ==
    /\ pc \notin {"finally", "done"} /\ pc' \in {"finally", "done"}
    /\ \E x \in Exit :
          /\ sent' = Append(sent, Item(x, 0))
          /\ x = "exit_code" =>
                /\ \/ pc = "communicate" /\ \A s \in Stream : Ended(s)
                   \/ pc = "reap"
                /\ UNCHANGED <<holds, written>>
    /\ UNCHANGED <<queue, taken, reader>>

Reads(s) ==
    /\ pc = "communicate" /\ pc' = pc
    /\ queue = <<>> /\ taken[s] < written[s]
    /\ taken' = [taken EXCEPT ![s] = @ + 1]
    /\ sent' = Append(sent, Item(s, taken[s] + 1))
    /\ UNCHANGED <<queue, reader>>

\* A reader puts a chunk, or its end.
Puts(s) ==
    /\ pc' = pc
    /\ s \in reader /\ taken[s] < written[s]
    /\ taken' = [taken EXCEPT ![s] = @ + 1]
    /\ queue' = Append(queue, Item(s, taken[s] + 1))
    /\ UNCHANGED <<sent, reader>>

PutsEnd(s) ==
    /\ pc' = pc
    /\ s \in reader /\ Ended(s)
    /\ queue' = Append(queue, Item(s, 0))
    /\ reader' = reader \ {s}
    /\ UNCHANGED <<sent, taken>>

\* The head of the queue goes to the client, or is an end.
Passes ==
    /\ pc \in {"get", "drain"}
    /\ queue # <<>> /\ Head(queue).n > 0
    /\ queue' = Tail(queue)
    /\ sent' = Append(sent, Head(queue))
    /\ UNCHANGED <<taken, reader>>

DropsEnd ==
    /\ pc \in {"get", "drain"}
    /\ queue # <<>> /\ Head(queue).n = 0
    /\ queue' = Tail(queue)
    /\ UNCHANGED <<sent, taken, reader>>

\* The readers start.
Starts == /\ pc = "headers" /\ pc' = "pump" /\ queue = <<>>
          /\ reader' = Stream
          /\ UNCHANGED <<sent, queue, taken>>

\* The output of a /run is dropped for the exit event.
Forgets ==
    /\ pc = "communicate" /\ pc' = "finally"
    /\ kind' = "run" /\ sent' = <<Item("exit_timed_out", 0)>>
    /\ UNCHANGED <<queue, taken, reader>>

LineStep ==
    \/ Forgets \/ Quiet \/ SendsExit \/ Passes \/ DropsEnd \/ Starts
    \/ \E s \in Stream : Reads(s) \/ Puts(s) \/ PutsEnd(s)

LEMMA LineSteps ==
    ASSUME TypeOK, Phases, Next
    PROVE  LineStep
  <1> USE DEF LineStep, Send, childVars
  <1>1. CASE Launch
    BY <1>1 DEF Launch, SendsExit, Quiet
  <1>2. CASE RunEncodes
    BY <1>2 DEF RunEncodes, SendsExit, Quiet
  <1>3. ASSUME NEW s \in Stream, RunReads(s)
        PROVE  Reads(s)
    BY <1>3 DEF RunReads, Reads, Phases
  <1>4. CASE RunTimesOut \/ StreamFails \/ ReapLate
    BY <1>4 DEF RunTimesOut, RunTimesOutInWait, StreamFails, ReapLate, SendsExit
  <1>4a. CASE RunCompletes
    BY <1>4a DEF RunCompletes, SendsExit, Ended
  <1>4c. CASE RunTimesOutInWait
    BY <1>4c DEF RunTimesOutInWait, Forgets, Phases
  <1>4b. CASE Reap
    BY <1>4b DEF Reap, SendsExit, KillTree
  <1>5. CASE RunFinally
    BY <1>5 DEF RunFinally, SendsExit, Quiet
  <1>6. CASE StartWorkers
    BY <1>6 DEF StartWorkers, Starts, Phases
  <1>7. CASE PumpHead \/ GetEmpty \/ Gone \/ RunFails
    BY <1>7 DEF PumpHead, GetEmpty, Gone, RunFails, Quiet
  <1>8. CASE GetEnd
    BY <1>8 DEF GetEnd, DropsEnd
  <1>9. queue # <<>> => Item(Head(queue).label, Head(queue).n) = Head(queue)
    BY Dropped DEF TypeOK
  <1>10. CASE GetChunk
    BY <1>9, <1>10 DEF GetChunk, Passes
  <1>11. CASE Drain
    <2>1. CASE queue # <<>> /\ queue' = Tail(queue)
      <3>1. Head(queue).n = 0 \/ Head(queue).n > 0
        <4>1. Head(queue) \in Event
          BY <2>1, Dropped DEF TypeOK
        <4> QED BY <4>1, MaxChunksAssumption
      <3> QED BY <1>9, <1>11, <2>1, <3>1 DEF Drain, DropsEnd, Passes, Quiet
    <2>2. CASE UNCHANGED <<open, queue, sent>>
      BY <1>11, <2>2 DEF Drain, Quiet
    <2> QED BY <1>11, <2>1, <2>2 DEF Drain
  <1>12. ASSUME NEW s \in Stream, Reader(s)
         PROVE  Puts(s) \/ PutsEnd(s)
    BY <1>12 DEF Reader, Puts, PutsEnd, Ended
  <1>13. ASSUME NEW p \in {"shell", "helper"}, NEW s \in Stream,
                Writes(p, s) \/ Closes(p, s)
         PROVE  Quiet
    BY <1>13 DEF Writes, Closes, Quiet
  <1>14. CASE \/ Backgrounds \/ ShellExits \/ HelperExits \/ StdinWritten
              \/ Stalls \/ Disconnects \/ Expire
    BY <1>14 DEF Backgrounds, ShellExits, HelperExits, StdinWritten,
                 Stalls, Disconnects, Expire, Quiet
  <1>15. CASE Rest
    BY <1>15 DEF Rest, vars, Quiet
  <1> QED
    BY <1>1, <1>2, <1>3, <1>4, <1>4a, <1>4b, <1>4c, <1>5, <1>6, <1>7, <1>8, <1>10,
       <1>11, <1>12, <1>13, <1>14, <1>15 DEF Next, Handler

\* Once the shell has been started, a pipe that has lost its last writer keeps
\* none, and nothing more is written to it.
LEMMA PipesStay ==
    ASSUME TypeOK, Next, NEW s \in Stream
    PROVE  /\ written'[s] \in written[s]..MaxChunks
           /\ pc # "start" /\ holds[s] = {} =>
                 holds'[s] = {} /\ written'[s] = written[s]
  <1> USE MaxChunksAssumption DEF TypeOK, childVars, KillTree
  <1>1. CASE Handler \/ RunFails \/ \E t \in Stream : Reader(t)
    <2>1. written' = written
      BY <1>1 DEF Handler, RunEncodes, RunReads, RunCompletes, RunTimesOut,
                  RunTimesOutInWait,
                  RunFinally, StreamFails, StartWorkers, PumpHead, GetEmpty,
                  GetEnd, GetChunk, Drain, ReapLate, Reap, Gone, RunFails,
                  Reader, Launch
    <2>2. pc = "start" \/ holds' = holds \/ holds' = [t \in Stream |-> {}]
      BY <1>1 DEF Handler, RunEncodes, RunReads, RunCompletes, RunTimesOut,
                  RunTimesOutInWait,
                  RunFinally, StreamFails, StartWorkers, PumpHead, GetEmpty,
                  GetEnd, GetChunk, Drain, ReapLate, Reap, Gone, RunFails,
                  Reader, Launch
    <2> QED BY <2>1, <2>2
  <1>2. ASSUME NEW p \in {"shell", "helper"}, NEW t \in Stream,
               Writes(p, t) \/ Closes(p, t)
        PROVE  /\ written'[s] \in written[s]..MaxChunks
               /\ holds[s] = {} => holds'[s] = {} /\ written'[s] = written[s]
    BY <1>2 DEF Writes, Closes
  <1>3. CASE Backgrounds \/ ShellExits \/ HelperExits
    BY <1>3 DEF Backgrounds, ShellExits, HelperExits
  <1>4. CASE StdinWritten \/ Stalls \/ Disconnects \/ Expire \/ Rest
    BY <1>4 DEF StdinWritten, Stalls, Disconnects, Expire, Rest, vars
  <1> QED BY <1>1, <1>2, <1>3, <1>4 DEF Next

-----------------------------------------------------------------------------
(* Nothing is lost, repeated or reordered *)

\* The answer to a /run is final.
LEMMA AnswerStays ==
    ASSUME Next, pc \in {"finally", "done"}
    PROVE  sent' = sent /\ kind' = kind
  BY DEF Next, Handler, Launch, RunEncodes, RunReads, RunCompletes, RunTimesOut,
                  RunTimesOutInWait,
         RunFinally, StreamFails, StartWorkers, PumpHead, GetEmpty, GetEnd,
         GetChunk, Drain, ReapLate, Reap, Gone, RunFails, Reader, Writes,
         Closes, Backgrounds, ShellExits, HelperExits, StdinWritten,
         Stalls, Disconnects, Expire, Rest, vars

\* Whatever has been read stays in the queue or sent, but for the output of a
\* /run that timed out in its wait.
LEMMA NothingIsLost ==
    ASSUME TypeOK, NothingLost, ExitIsFinal, LineStep, Next
    PROVE  NothingLost'
  <1>f. CASE Forgets
    BY <1>f DEF Forgets, NothingLost
  <1>g. CASE kind = "run" /\ sent = <<Item("exit_timed_out", 0)>>
    <2>1. 1 \in DOMAIN sent /\ sent[1].label \in Exit
      BY <1>g
    <2>2. pc \in {"finally", "done"}
      BY <2>1 DEF ExitIsFinal
    <2> QED BY <1>g, <2>2, AnswerStays DEF NothingLost
  <1> SUFFICES ASSUME ~Forgets,
                      ~(kind = "run" /\ sent = <<Item("exit_timed_out", 0)>>)
               PROVE  NothingLost'
    BY <1>f, <1>g
  <1> SUFFICES ASSUME NEW s \in Stream, NEW n \in 1..taken'[s]
               PROVE  Has(sent', Item(s, n)) \/ Has(queue', Item(s, n))
    BY DEF NothingLost
  <1> USE MaxChunksAssumption DEF TypeOK
  <1> DEFINE m == Item(s, n)
  <1>0. /\ n \in 1..taken[s] => Has(sent, m) \/ Has(queue, m)
        /\ m = Item(s, n) /\ m.n = n
    BY DEF NothingLost
  <1> SUFFICES Has(sent', m) \/ Has(queue', m)
    OBVIOUS
  <1> HIDE DEF m
  <1>1. CASE Quiet \/ Starts
    BY <1>0, <1>1 DEF Quiet, Starts
  <1>2. CASE SendsExit
    <2>1. PICK x \in Exit : sent' = Append(sent, Item(x, 0))
      BY <1>2 DEF SendsExit
    <2>2. Item(x, 0) \in Event
      OBVIOUS
    <2>3. Has(sent, m) => Has(sent', m)
      BY <2>1, <2>2, HasAppended
    <2> QED BY <1>0, <1>2, <2>3 DEF SendsExit
  <1>3. ASSUME NEW t \in Stream, Reads(t)
        PROVE  Has(sent', m) \/ Has(queue', m)
    <2>1. Item(t, taken[t] + 1) \in Event
      BY <1>3 DEF Reads
    <2>2. n \in 1..taken[s] \/ m = Item(t, taken[t] + 1)
      BY <1>0, <1>3 DEF Reads
    <2>3. Has(sent, m) \/ m = Item(t, taken[t] + 1) => Has(sent', m)
      BY <1>3, <2>1, HasAppended DEF Reads
    <2> QED BY <1>0, <1>3, <2>2, <2>3 DEF Reads
  <1>4. ASSUME NEW t \in Stream, Puts(t)
        PROVE  Has(sent', m) \/ Has(queue', m)
    <2>1. Item(t, taken[t] + 1) \in Event
      BY <1>4 DEF Puts
    <2>2. n \in 1..taken[s] \/ m = Item(t, taken[t] + 1)
      BY <1>0, <1>4 DEF Puts
    <2>3. Has(queue, m) \/ m = Item(t, taken[t] + 1) => Has(queue', m)
      BY <1>4, <2>1, HasAppended DEF Puts
    <2> QED BY <1>0, <1>4, <2>2, <2>3 DEF Puts
  <1>5. ASSUME NEW t \in Stream, PutsEnd(t)
        PROVE  Has(sent', m) \/ Has(queue', m)
    <2>1. Item(t, 0) \in Event
      OBVIOUS
    <2>2. Has(queue, m) => Has(queue', m)
      BY <1>5, <2>1, HasAppended DEF PutsEnd
    <2> QED BY <1>0, <1>5, <2>2 DEF PutsEnd
  <1>6. CASE Passes
    <2>1. Head(queue) \in Event
      BY <1>6, Dropped DEF Passes
    <2>2. Has(sent, m) \/ m = Head(queue) => Has(sent', m)
      BY <1>6, <2>1, HasAppended DEF Passes
    <2>3. Has(queue, m) => Has(queue', m) \/ m = Head(queue)
      BY <1>6, HasDropped DEF Passes
    <2> QED BY <1>0, <1>6, <2>2, <2>3 DEF Passes
  <1>7. CASE DropsEnd
    <2>1. n # 0 /\ taken' = taken
      BY <1>7 DEF DropsEnd
    <2>2. m # Head(queue)
      BY <1>0, <1>7, <2>1 DEF DropsEnd
    <2>3. Has(queue, m) => Has(queue', m)
      BY <1>7, <2>2, HasDropped DEF DropsEnd
    <2> QED BY <1>0, <1>7, <2>1, <2>3 DEF DropsEnd
  <1> QED BY <1>1, <1>2, <1>3, <1>4, <1>5, <1>6, <1>7 DEF LineStep

\* The parts of LineInOrder: what was sent is in order, it is older than what is
\* in the queue, and the queue is in order.
SentInOrder(q, t) ==
    \A i \in DOMAIN q : q[i].label \in Stream =>
        /\ q[i].n \in 1..t[q[i].label]
        /\ \A j \in DOMAIN q :
              i < j /\ q[j].label = q[i].label => q[i].n < q[j].n

SentIsOlder(p, q) ==
    \A i \in DOMAIN p : p[i].label \in Stream =>
        \A j \in DOMAIN q :
            q[j].label = p[i].label /\ q[j].n > 0 => p[i].n < q[j].n

QueueInOrder(q, t, r) ==
    \A i \in DOMAIN q :
        /\ q[i].label \in Stream
        /\ q[i].n <= t[q[i].label]
        /\ q[i].n = 0 => q[i].label \notin r
        /\ \A j \in DOMAIN q :
              i < j /\ q[j].label = q[i].label =>
                  /\ q[i].n > 0
                  /\ q[j].n > 0 => q[i].n < q[j].n

LEMMA LineParts ==
    /\ LineInOrder <=> /\ SentInOrder(sent, taken) /\ SentIsOlder(sent, queue)
                       /\ QueueInOrder(queue, taken, reader)
    /\ LineInOrder' <=> /\ SentInOrder(sent', taken')
                        /\ SentIsOlder(sent', queue')
                        /\ QueueInOrder(queue', taken', reader')
  BY DEF LineInOrder, SentInOrder, SentIsOlder, QueueInOrder

\* Adding an event to what was sent.
LEMMA SentGrows ==
    ASSUME NEW q \in Seq(Event), NEW e \in Event,
           NEW t \in [Stream -> 0..MaxChunks], NEW u \in [Stream -> 0..MaxChunks],
           SentInOrder(q, t), \A s \in Stream : t[s] <= u[s],
           e.label \in Stream =>
              /\ e.n \in 1..u[e.label]
              /\ \A i \in DOMAIN q : q[i].label = e.label => q[i].n < e.n
    PROVE  SentInOrder(Append(q, e), u)
  <1> DEFINE r == Append(q, e)
  <1>0. /\ DOMAIN q = 1..Len(q) /\ Len(q) \in Nat
        /\ \A i \in DOMAIN q : q[i] \in Event
    BY Elements
  <1>1. /\ DOMAIN q = 1..Len(q) /\ Len(q) \in Nat
        /\ DOMAIN r = 1..(Len(q) + 1)
        /\ \A i \in DOMAIN q : r[i] = q[i] /\ q[i] \in Event
        /\ r[Len(q) + 1] = e
    <2>1. /\ DOMAIN r = 1..(Len(q) + 1)
          /\ \A i \in 1..Len(q) : r[i] = q[i]
          /\ r[Len(q) + 1] = e
      BY Appended
    <2> HIDE DEF r
    <2> QED BY <1>0, <2>1
  <1> HIDE DEF r
  <1> SUFFICES ASSUME NEW i \in DOMAIN r, r[i].label \in Stream
               PROVE  /\ r[i].n \in 1..u[r[i].label]
                      /\ \A j \in DOMAIN r :
                            i < j /\ r[j].label = r[i].label => r[i].n < r[j].n
    BY DEF SentInOrder, r
  <1>2. CASE i = Len(q) + 1
    BY <1>1, <1>2
  <1>3. CASE i \in DOMAIN q
    <2>1. /\ q[i].n \in 1..t[q[i].label]
          /\ \A j \in DOMAIN q :
                i < j /\ q[j].label = q[i].label => q[i].n < q[j].n
      BY <1>1, <1>3 DEF SentInOrder
    <2>2. r[i].n \in 1..u[r[i].label]
      BY <1>1, <1>3, <2>1, MaxChunksAssumption
    <2>3. ASSUME NEW j \in DOMAIN r, i < j, r[j].label = r[i].label
          PROVE  r[i].n < r[j].n
      <3>1. CASE j \in DOMAIN q
        BY <1>1, <1>3, <2>1, <2>3, <3>1
      <3>2. CASE j = Len(q) + 1
        BY <1>1, <1>3, <2>3, <3>2
      <3> QED BY <1>1, <3>1, <3>2
    <2> QED BY <2>2, <2>3
  <1> QED BY <1>1, <1>2, <1>3

\* Adding an item to the queue.
LEMMA QueueGrows ==
    ASSUME NEW q \in Seq(Event), NEW e \in Event, e.label \in Stream,
           NEW t \in [Stream -> 0..MaxChunks], NEW u \in [Stream -> 0..MaxChunks],
           NEW r, NEW v,
           QueueInOrder(q, t, r), \A s \in Stream : t[s] <= u[s], v \subseteq r,
           e.n <= u[e.label], e.n = 0 => e.label \notin v,
           \A i \in DOMAIN q : q[i].label = e.label =>
              q[i].n > 0 /\ (e.n > 0 => q[i].n < e.n)
    PROVE  QueueInOrder(Append(q, e), u, v)
  <1> DEFINE p == Append(q, e)
  <1>0. /\ DOMAIN q = 1..Len(q) /\ Len(q) \in Nat
        /\ \A i \in DOMAIN q : q[i] \in Event
    BY Elements
  <1>1. /\ DOMAIN q = 1..Len(q) /\ Len(q) \in Nat
        /\ DOMAIN p = 1..(Len(q) + 1)
        /\ \A i \in DOMAIN q : p[i] = q[i] /\ q[i] \in Event
        /\ p[Len(q) + 1] = e
    <2>1. /\ DOMAIN p = 1..(Len(q) + 1)
          /\ \A i \in 1..Len(q) : p[i] = q[i]
          /\ p[Len(q) + 1] = e
      BY Appended
    <2> HIDE DEF p
    <2> QED BY <1>0, <2>1
  <1> HIDE DEF p
  <1> SUFFICES ASSUME NEW i \in DOMAIN p
               PROVE  /\ p[i].label \in Stream
                      /\ p[i].n <= u[p[i].label]
                      /\ p[i].n = 0 => p[i].label \notin v
                      /\ \A j \in DOMAIN p :
                            i < j /\ p[j].label = p[i].label =>
                                /\ p[i].n > 0
                                /\ p[j].n > 0 => p[i].n < p[j].n
    BY DEF QueueInOrder, p
  <1>2. CASE i = Len(q) + 1
    BY <1>1, <1>2
  <1>3. CASE i \in DOMAIN q
    <2>1. /\ q[i].label \in Stream /\ q[i].n <= t[q[i].label]
          /\ q[i].n = 0 => q[i].label \notin r
          /\ \A j \in DOMAIN q :
                i < j /\ q[j].label = q[i].label =>
                    q[i].n > 0 /\ (q[j].n > 0 => q[i].n < q[j].n)
      BY <1>1, <1>3 DEF QueueInOrder
    <2>2. p[i].n <= u[p[i].label]
      <3>1. q[i].n \in 0..MaxChunks /\ t[q[i].label] <= u[q[i].label]
        BY <1>1, <1>3, <2>1
      <3>2. t[q[i].label] \in 0..MaxChunks /\ u[q[i].label] \in 0..MaxChunks
        BY <2>1
      <3> QED BY <1>1, <1>3, <2>1, <3>1, <3>2, MaxChunksAssumption
    <2>3. ASSUME NEW j \in DOMAIN p, i < j, p[j].label = p[i].label
          PROVE  p[i].n > 0 /\ (p[j].n > 0 => p[i].n < p[j].n)
      <3>1. CASE j \in DOMAIN q
        BY <1>1, <1>3, <2>1, <2>3, <3>1
      <3>2. CASE j = Len(q) + 1
        BY <1>1, <1>3, <2>3, <3>2
      <3> QED BY <1>1, <3>1, <3>2
    <2> QED BY <1>1, <1>3, <2>1, <2>2, <2>3
  <1> QED BY <1>1, <1>2, <1>3

\* Taking the first item from the queue.
LEMMA QueueShrinks ==
    ASSUME NEW q \in Seq(Event), q # <<>>, NEW t, NEW r, QueueInOrder(q, t, r)
    PROVE  QueueInOrder(Tail(q), t, r)
  <1> DEFINE p == Tail(q)
  <1>1. /\ Len(q) \in Nat /\ DOMAIN q = 1..Len(q) /\ DOMAIN p = 1..(Len(q) - 1)
        /\ \A i \in DOMAIN p : p[i] = q[i + 1] /\ i + 1 \in DOMAIN q
    BY Dropped
  <1> HIDE DEF p
  <1>2. \A i, j \in DOMAIN p : i < j => i + 1 < j + 1
    BY <1>1
  <1> QED BY <1>1, <1>2 DEF QueueInOrder, p

\* What is sent stays older than what is queued.
LEMMA OlderSent ==
    ASSUME NEW p \in Seq(Event), NEW q \in Seq(Event), NEW e \in Event,
           SentIsOlder(p, q),
           e.label \in Stream =>
              \A j \in DOMAIN q :
                  q[j].label = e.label /\ q[j].n > 0 => e.n < q[j].n
    PROVE  SentIsOlder(Append(p, e), q)
  <1> DEFINE r == Append(p, e)
  <1>1. \A i \in DOMAIN r : \/ i \in DOMAIN p /\ r[i] = p[i]
                            \/ r[i] = e
    BY Appended, Elements
  <1> HIDE DEF r
  <1> QED BY <1>1 DEF SentIsOlder, r

LEMMA OlderQueued ==
    ASSUME NEW p \in Seq(Event), NEW q \in Seq(Event), NEW e \in Event,
           SentIsOlder(p, q), e.label \in Stream,
           e.n > 0 => \A i \in DOMAIN p : p[i].label = e.label => p[i].n < e.n
    PROVE  SentIsOlder(p, Append(q, e))
  <1> DEFINE r == Append(q, e)
  <1>1. \A j \in DOMAIN r : \/ j \in DOMAIN q /\ r[j] = q[j]
                            \/ r[j] = e
    BY Appended, Elements
  <1> HIDE DEF r
  <1> QED BY <1>1 DEF SentIsOlder, r

LEMMA OlderTail ==
    ASSUME NEW p, NEW q \in Seq(Event), q # <<>>, SentIsOlder(p, q)
    PROVE  SentIsOlder(p, Tail(q))
  <1> DEFINE r == Tail(q)
  <1>1. \A j \in DOMAIN r : r[j] = q[j + 1] /\ j + 1 \in DOMAIN q
    BY Dropped
  <1> HIDE DEF r
  <1> QED BY <1>1 DEF SentIsOlder, r

\* The order is kept by every step.
LEMMA OrderIsKept ==
    ASSUME TypeOK, LineInOrder, Phases, LineStep
    PROVE  LineInOrder'
  <1> USE MaxChunksAssumption DEF TypeOK
  <1>0. /\ SentInOrder(sent, taken) /\ SentIsOlder(sent, queue)
        /\ QueueInOrder(queue, taken, reader)
    BY LineParts
  <1>t. \A s \in Stream : taken[s] <= taken[s]
    OBVIOUS
  <1>e. /\ \A i \in DOMAIN sent : sent[i].n \in 0..MaxChunks
        /\ \A i \in DOMAIN queue : queue[i].n \in 0..MaxChunks
    <2>1. /\ \A i \in DOMAIN sent : sent[i] \in Event
          /\ \A i \in DOMAIN queue : queue[i] \in Event
      BY Elements
    <2> QED BY <2>1
  <1> SUFFICES /\ SentInOrder(sent', taken') /\ SentIsOlder(sent', queue')
               /\ QueueInOrder(queue', taken', reader')
    BY LineParts
  <1>1. CASE Quiet
    BY <1>0, <1>1 DEF Quiet
  <1>2. CASE Starts
    <2>1. QueueInOrder(queue', taken', reader')
      BY <1>2 DEF Starts, QueueInOrder
    <2> QED BY <1>0, <1>2, <2>1 DEF Starts
  <1>3. CASE SendsExit
    <2>1. PICK x \in Exit : sent' = Append(sent, Item(x, 0))
      BY <1>3 DEF SendsExit
    <2>2. Item(x, 0) \in Event /\ Item(x, 0).label \notin Stream
      OBVIOUS
    <2>3. SentInOrder(Append(sent, Item(x, 0)), taken)
      BY <1>0, <1>t, <2>2, SentGrows
    <2>4. SentIsOlder(Append(sent, Item(x, 0)), queue)
      BY <1>0, <2>2, OlderSent
    <2> QED BY <1>0, <1>3, <2>1, <2>3, <2>4 DEF SendsExit
  <1>4. ASSUME NEW s \in Stream, Reads(s)
        PROVE  /\ SentInOrder(sent', taken') /\ SentIsOlder(sent', queue')
               /\ QueueInOrder(queue', taken', reader')
    <2> DEFINE e == Item(s, taken[s] + 1)
    <2>1. /\ e \in Event /\ e.label = s /\ e.n = taken[s] + 1
          /\ sent' = Append(sent, e)
          /\ taken' \in [Stream -> 0..MaxChunks] /\ taken'[s] = taken[s] + 1
          /\ \A t \in Stream : taken[t] <= taken'[t]
          /\ queue' = <<>>
      BY <1>4 DEF Reads
    <2>2. ASSUME NEW i \in DOMAIN sent, sent[i].label = e.label
          PROVE  sent[i].n < e.n
      <3>1. sent[i].n \in 1..taken[s]
        BY <1>0, <2>2 DEF SentInOrder
      <3> QED BY <3>1
    <2>0. e.label \in Stream /\ e.n \in 1..taken'[e.label]
      BY <2>1
    <2> HIDE DEF e
    <2>3. SentInOrder(Append(sent, e), taken')
      BY <2>0, <1>0, <2>1, <2>2, SentGrows
    <2>4. /\ SentIsOlder(sent', queue')
          /\ QueueInOrder(queue', taken', reader')
      BY <2>1 DEF SentIsOlder, QueueInOrder
    <2> QED BY <2>1, <2>3, <2>4
  <1>5. ASSUME NEW s \in Stream, Puts(s)
        PROVE  /\ SentInOrder(sent', taken') /\ SentIsOlder(sent', queue')
               /\ QueueInOrder(queue', taken', reader')
    <2> DEFINE e == Item(s, taken[s] + 1)
    <2>1. /\ e \in Event /\ e.label = s /\ e.n = taken[s] + 1
          /\ queue' = Append(queue, e)
          /\ taken' \in [Stream -> 0..MaxChunks] /\ taken'[s] = taken[s] + 1
          /\ \A t \in Stream : taken[t] <= taken'[t]
          /\ sent' = sent /\ reader' = reader /\ s \in reader
      BY <1>5 DEF Puts
    <2>2. ASSUME NEW i \in DOMAIN sent, sent[i].label = e.label
          PROVE  sent[i].n < e.n
      <3>1. sent[i].n \in 1..taken[s] /\ taken[s] \in Nat
        BY <1>0, <2>1, <2>2 DEF SentInOrder
      <3>2. e.n = taken[s] + 1
        BY <2>1
      <3> HIDE DEF e
      <3> QED BY <3>1, <3>2
    <2>3. ASSUME NEW i \in DOMAIN queue, queue[i].label = e.label
          PROVE  queue[i].n > 0 /\ queue[i].n < e.n
      <3>1. /\ queue[i].n <= taken[s] /\ taken[s] \in Nat
            /\ queue[i].n = 0 => s \notin reader
        BY <1>0, <2>1, <2>3 DEF QueueInOrder
      <3>2. e.n = taken[s] + 1 /\ s \in reader /\ queue[i].n \in Nat
        BY <1>e, <2>1
      <3> HIDE DEF e
      <3> QED BY <3>1, <3>2
    <2>0. e.label \in Stream /\ e.n <= taken'[e.label] /\ e.n # 0
      BY <2>1
    <2> HIDE DEF e
    <2>4. SentInOrder(sent, taken')
      <3>1. SUFFICES ASSUME NEW i \in DOMAIN sent, sent[i].label \in Stream
                     PROVE  sent[i].n \in 1..taken'[sent[i].label]
        BY <1>0 DEF SentInOrder
      <3>2. sent[i].n \in 1..taken[sent[i].label]
        BY <1>0, <3>1 DEF SentInOrder
      <3>3. taken[sent[i].label] <= taken'[sent[i].label]
        BY <2>1, <3>1
      <3> QED BY <1>e, <2>1, <3>1, <3>2, <3>3
    <2>5. SentIsOlder(sent, Append(queue, e))
      BY <1>0, <2>0, <2>1, <2>2, OlderQueued
    <2>6. QueueInOrder(Append(queue, e), taken', reader)
      BY <1>0, <2>0, <2>1, <2>3, QueueGrows
    <2> QED BY <2>1, <2>4, <2>5, <2>6
  <1>6. ASSUME NEW s \in Stream, PutsEnd(s)
        PROVE  /\ SentInOrder(sent', taken') /\ SentIsOlder(sent', queue')
               /\ QueueInOrder(queue', taken', reader')
    <2> DEFINE e == Item(s, 0)
    <2>1. /\ e \in Event /\ e.label = s /\ e.n = 0
          /\ queue' = Append(queue, e)
          /\ sent' = sent /\ taken' = taken
          /\ reader' = reader \ {s} /\ s \in reader
          /\ reader' \subseteq reader /\ e.label \notin reader'
      BY <1>6 DEF PutsEnd
    <2>2. e.label \in Stream /\ e.n <= taken[e.label] /\ ~(e.n > 0)
      BY <2>1
    <2>3. \A i \in DOMAIN queue : queue[i].label = e.label => queue[i].n > 0
      BY <1>0, <1>e, <2>1 DEF QueueInOrder
    <2> HIDE DEF e
    <2>4. SentIsOlder(sent, Append(queue, e))
      BY <1>0, <2>1, <2>2, OlderQueued
    <2>5. QueueInOrder(Append(queue, e), taken, reader')
      BY <1>0, <1>t, <2>1, <2>2, <2>3, QueueGrows
    <2> QED BY <1>0, <2>1, <2>4, <2>5
  <1>7. CASE Passes
    <2> DEFINE e == Head(queue)
    <2>1. /\ e \in Event /\ e.n > 0 /\ e = queue[1] /\ 1 \in DOMAIN queue
          /\ \A j \in DOMAIN Tail(queue) : /\ Tail(queue)[j] = queue[j + 1]
                                           /\ j + 1 \in DOMAIN queue /\ 1 < j + 1
          /\ sent' = Append(sent, e) /\ queue' = Tail(queue)
          /\ taken' = taken /\ reader' = reader
          /\ Tail(queue) \in Seq(Event)
      <3>1. /\ queue # <<>> /\ e.n > 0
            /\ sent' = Append(sent, e) /\ queue' = Tail(queue)
            /\ taken' = taken /\ reader' = reader
        BY <1>7 DEF Passes
      <3>2. /\ e \in Event /\ e = queue[1] /\ Tail(queue) \in Seq(Event)
            /\ Len(queue) \in Nat \ {0} /\ DOMAIN queue = 1..Len(queue)
            /\ DOMAIN Tail(queue) = 1..(Len(queue) - 1)
            /\ \A j \in 1..(Len(queue) - 1) : Tail(queue)[j] = queue[j + 1]
        BY <3>1, Dropped
      <3>3. \A j \in 1..(Len(queue) - 1) :
               j + 1 \in 1..Len(queue) /\ 1 < j + 1 /\ 1 \in 1..Len(queue)
        BY <3>2
      <3>4. 1 \in 1..Len(queue)
        BY <3>2
      <3> HIDE DEF e
      <3> QED BY <3>1, <3>2, <3>3, <3>4
    <2> HIDE DEF e
    <2>2. e.label \in Stream /\ e.n \in 1..taken[e.label]
      BY <1>0, <2>1 DEF QueueInOrder
    <2>3. \A i \in DOMAIN sent : sent[i].label = e.label => sent[i].n < e.n
      BY <1>0, <2>1, <2>2 DEF SentIsOlder
    <2>4. \A j \in DOMAIN Tail(queue) :
             Tail(queue)[j].label = e.label /\ Tail(queue)[j].n > 0 =>
                 e.n < Tail(queue)[j].n
      BY <1>0, <2>1 DEF QueueInOrder
    <2>5. SentInOrder(Append(sent, e), taken)
      BY <1>0, <1>t, <2>1, <2>2, <2>3, SentGrows
    <2>6. SentIsOlder(Append(sent, e), Tail(queue))
      <3>1. SentIsOlder(sent, Tail(queue))
        BY <1>0, <1>7, OlderTail DEF Passes
      <3> QED BY <2>1, <2>4, <3>1, OlderSent
    <2>7. QueueInOrder(Tail(queue), taken, reader)
      BY <1>0, <1>7, QueueShrinks DEF Passes
    <2> QED BY <2>1, <2>5, <2>6, <2>7
  <1>9. CASE Forgets
    <2>1. queue' = queue /\ taken' = taken /\ reader' = reader
          /\ sent' = <<Item("exit_timed_out", 0)>>
      BY <1>9 DEF Forgets
    <2>2. \A i \in DOMAIN sent' : sent'[i].label \notin Stream
      BY <2>1
    <2> QED BY <1>0, <2>1, <2>2 DEF SentInOrder, SentIsOlder
  <1>8. CASE DropsEnd
    <2>1. /\ SentIsOlder(sent, Tail(queue))
          /\ QueueInOrder(Tail(queue), taken, reader)
      BY <1>0, <1>8, OlderTail, QueueShrinks DEF DropsEnd
    <2> QED BY <1>0, <1>8, <2>1 DEF DropsEnd
  <1> QED BY <1>1, <1>2, <1>3, <1>4, <1>5, <1>6, <1>7, <1>8, <1>9 DEF LineStep

-----------------------------------------------------------------------------
(* Where the handler is *)

\* What is done and sent stays so.
LEMMA DoneStays ==
    ASSUME Next, pc \in {"finally", "done"}
    PROVE  pc' \in {"finally", "done"}
  BY DEF Next, Handler, Launch, RunEncodes, RunReads, RunCompletes, RunTimesOut,
                  RunTimesOutInWait,
         RunFinally, StreamFails, StartWorkers, PumpHead, GetEmpty, GetEnd,
         GetChunk, Drain, ReapLate, Reap, Gone, RunFails, Reader, Writes,
         Closes, Backgrounds, ShellExits, HelperExits, StdinWritten,
         Stalls, Disconnects, Expire, Rest, vars

LEMMA PhasesKept ==
    ASSUME TypeOK, Phases, Next
    PROVE  Phases'
  <1> USE DEF Phases, childVars
  <1>1. CASE Handler \/ RunFails
    BY <1>1 DEF Handler, Launch, RunEncodes, RunReads, RunCompletes,
         RunTimesOut, RunTimesOutInWait,
         RunFinally, StreamFails, StartWorkers, PumpHead, GetEmpty,
         GetEnd, GetChunk, Drain, ReapLate, Reap, Gone, RunFails
  <1>2. ASSUME NEW s \in Stream, Reader(s)
        PROVE  Phases'
    BY <1>2 DEF Reader
  <1>3. CASE UNCHANGED <<kind, pc, sent, open, taken, reader, queue>>
    BY <1>3
  <1>4. Handler \/ RunFails \/ (\E s \in Stream : Reader(s))
        \/ UNCHANGED <<kind, pc, sent, open, taken, reader, queue>>
    BY DEF Next, Writes, Closes, Backgrounds, ShellExits, HelperExits,
           StdinWritten, Stalls, Disconnects, Expire, Rest, vars
  <1> QED BY <1>1, <1>2, <1>3, <1>4

\* A shell does not run when it has not been started, or was killed.
LEMMA ShellKept ==
    ASSUME TypeOK, Phases, ShellIsKept, NoShellLeft, Next
    PROVE  ShellIsKept' /\ NoShellLeft'
  <1> USE DEF ShellIsKept, NoShellLeft, Phases, childVars, KillTree, WritingStdin
  <1>1. CASE Launch
    BY <1>1 DEF Launch
  <1>2. CASE RunEncodes \/ (\E s \in Stream : RunReads(s)) \/ RunCompletes
             \/ RunFails
    BY <1>2 DEF RunEncodes, RunReads, RunCompletes, RunFails
  <1>3. CASE RunTimesOut \/ RunTimesOutInWait \/ RunFinally \/ StreamFails
    BY <1>3 DEF RunTimesOut, RunTimesOutInWait,
         RunFinally, StreamFails
  <1>4. CASE StartWorkers \/ PumpHead \/ GetEmpty \/ GetEnd
    BY <1>4 DEF StartWorkers, PumpHead, GetEmpty, GetEnd
  <1>5. CASE GetChunk \/ Drain \/ ReapLate \/ Reap \/ Gone
    BY <1>5 DEF GetChunk, Drain, ReapLate, Reap, Gone
  <1>6. CASE (\E s \in Stream : Reader(s))
             \/ \E p \in {"shell", "helper"}, s \in Stream :
                    Writes(p, s) \/ Closes(p, s)
    BY <1>6 DEF Reader, Writes, Closes
  <1>7. CASE Backgrounds \/ ShellExits \/ HelperExits
    BY <1>7 DEF Backgrounds, ShellExits, HelperExits
  <1>8. CASE StdinWritten \/ Stalls \/ Disconnects \/ Expire \/ Rest
    BY <1>8 DEF StdinWritten, Stalls, Disconnects, Expire, Rest, vars
  <1> QED
    BY <1>1, <1>2, <1>3, <1>4, <1>5, <1>6, <1>7, <1>8 DEF Next, Handler

\* The loops begin with both readers.
LEMMA WorkingBegins ==
    ASSUME Next, pc' \in Working
    PROVE  pc \in Working \/ (pc = "headers" /\ reader' = Stream)
  BY DEF Working, Next, Handler, Launch, RunEncodes, RunReads, RunCompletes,
         RunTimesOut, RunTimesOutInWait,
         RunFinally, StreamFails, StartWorkers, PumpHead, GetEmpty,
         GetEnd, GetChunk, Drain, ReapLate, Reap, Gone, RunFails, Reader, Writes,
         Closes, Backgrounds, ShellExits, HelperExits, StdinWritten,
         Stalls, Disconnects, Expire, Rest, vars

\* A reader that has ended has read everything.
LEMMA ReadAllKept ==
    ASSUME TypeOK, TypeOK', ReadersReadAll, LineStep, Next
    PROVE  ReadersReadAll'
  <1> USE MaxChunksAssumption DEF TypeOK
  <1>1. ASSUME NEW s \in Stream
        PROVE  taken'[s] <= written'[s]
    <2>1. written'[s] \in written[s]..MaxChunks /\ taken[s] <= written[s]
      BY PipesStay DEF ReadersReadAll
    <2>2. taken'[s] <= written[s]
      <3>1. ASSUME NEW t \in Stream, Reads(t) \/ Puts(t)
            PROVE  taken'[s] <= written[s]
        <4>1. /\ taken' = [taken EXCEPT ![t] = @ + 1]
              /\ taken[t] < written[t]
          BY <3>1 DEF Reads, Puts
        <4> QED BY <2>1, <4>1
      <3>2. taken' = taken \/ \E t \in Stream : Reads(t) \/ Puts(t)
        BY DEF LineStep, Forgets, Quiet, SendsExit, PutsEnd, Passes, DropsEnd, Starts
      <3> QED BY <2>1, <3>1, <3>2
    <2> QED BY <2>1, <2>2
  <1>2. ASSUME pc' \in Working, NEW s \in Stream \ reader'
        PROVE  Ended(s)'
    <2>1. pc \in Working
      BY <1>2, WorkingBegins
    <2>2. pc # "start" /\ pc # "communicate"
      BY <2>1 DEF Working
    <2>3. CASE s \in reader
      <3>1. PutsEnd(s)
        BY <1>2, <2>1, <2>2, <2>3
           DEF LineStep, Forgets, Quiet, SendsExit, Reads, Puts, PutsEnd, Passes,
               DropsEnd, Starts, Working
      <3> QED BY <2>2, <3>1, PipesStay DEF PutsEnd, Ended
    <2>4. CASE s \notin reader
      <3>1. Ended(s)
        BY <2>1, <2>4 DEF ReadersReadAll
      <3>2. taken'[s] = taken[s]
        BY <2>2, <2>4 DEF LineStep, Forgets, Quiet, SendsExit, Reads, Puts, PutsEnd,
                          Passes, DropsEnd, Starts
      <3> QED BY <2>2, <3>1, <3>2, PipesStay DEF Ended
    <2> QED BY <2>3, <2>4
  <1> QED BY <1>1, <1>2 DEF ReadersReadAll

-----------------------------------------------------------------------------
(* The loop of _pump_output *)

\* How the handler comes to stay in the loop, or to leave it for the exit code.
LEMMA LoopSteps ==
    ASSUME TypeOK, Phases, Next, pc' \in {"pump", "get"}
    PROVE  \/ Starts /\ open = 2 /\ open' = open
           \/ pc = "get" /\ DropsEnd /\ open' = open - 1 /\ open # 1
           \/ /\ pc \in {"pump", "get"} /\ open' = open
              /\ Quiet \/ Passes \/ \E s \in Stream : Puts(s) \/ PutsEnd(s)
  <1> USE DEF childVars
  <1>1. CASE StartWorkers
    BY <1>1 DEF StartWorkers, Starts, Phases
  <1>2. CASE GetEnd
    BY <1>2 DEF GetEnd, DropsEnd
  <1>3. CASE PumpHead \/ GetEmpty
    BY <1>3 DEF PumpHead, GetEmpty, Quiet
  <1>4. CASE GetChunk
    <2>1. Item(Head(queue).label, Head(queue).n) = Head(queue)
      BY <1>4, Dropped DEF TypeOK, GetChunk
    <2> QED BY <1>4, <2>1 DEF GetChunk, Passes, Send
  <1>5. CASE \/ Launch \/ RunEncodes \/ (\E s \in Stream : RunReads(s))
             \/ RunCompletes \/ RunTimesOut \/ RunTimesOutInWait
             \/ RunFinally \/ RunFails
             \/ StreamFails \/ Drain \/ ReapLate \/ Reap \/ Gone
    BY <1>5 DEF Launch, RunEncodes, RunReads, RunCompletes, RunTimesOut,
                  RunTimesOutInWait,
                RunFinally, RunFails, StreamFails, Drain, ReapLate, Reap, Gone
  <1>6. ASSUME NEW s \in Stream, Reader(s)
        PROVE  /\ pc \in {"pump", "get"} /\ open' = open
               /\ Puts(s) \/ PutsEnd(s)
    BY <1>6 DEF Reader, Puts, PutsEnd, Ended
  <1>7. CASE \/ \E p \in {"shell", "helper"}, s \in Stream :
                   Writes(p, s) \/ Closes(p, s)
             \/ Backgrounds \/ ShellExits \/ HelperExits \/ StdinWritten
             \/ Stalls \/ Disconnects \/ Expire \/ Rest
    BY <1>7 DEF Writes, Closes, Backgrounds, ShellExits, HelperExits,
                StdinWritten, Stalls, Disconnects, Expire, Rest, vars, Quiet
  <1> QED
    BY <1>1, <1>2, <1>3, <1>4, <1>5, <1>6, <1>7 DEF Next, Handler

LEMMA ReapSteps ==
    ASSUME TypeOK, Next, pc' = "reap"
    PROVE  \/ pc = "get" /\ DropsEnd /\ open = 1
           \/ pc = "reap" /\ (Quiet \/ \E s \in Stream : s \in reader)
  <1> USE DEF childVars
  <1>1. CASE GetEnd
    BY <1>1 DEF GetEnd, DropsEnd
  <1>2. CASE (Handler \/ RunFails) /\ ~GetEnd
    BY <1>2 DEF Handler, Launch, RunEncodes, RunReads, RunCompletes,
                RunTimesOut, RunTimesOutInWait,
         RunFinally, RunFails, StreamFails, StartWorkers,
                PumpHead, GetEmpty, GetChunk, Drain, ReapLate, Reap, Gone
  <1>3. ASSUME NEW s \in Stream, Reader(s)
        PROVE  pc = "reap" /\ s \in reader
    BY <1>3 DEF Reader
  <1>4. CASE \/ \E p \in {"shell", "helper"}, s \in Stream :
                   Writes(p, s) \/ Closes(p, s)
             \/ Backgrounds \/ ShellExits \/ HelperExits \/ StdinWritten
             \/ Stalls \/ Disconnects \/ Expire \/ Rest
    BY <1>4 DEF Writes, Closes, Backgrounds, ShellExits, HelperExits,
                StdinWritten, Stalls, Disconnects, Expire, Rest, vars, Quiet
  <1> QED BY <1>1, <1>2, <1>3, <1>4 DEF Next

\* In the drain at least one end is waited for.
LEMMA DrainSteps ==
    ASSUME TypeOK, OpenCounts, Next, pc' = "drain"
    PROVE  open' \in {1, 2}
  <1> USE DEF childVars, OpenCounts, TypeOK
  <1>1. CASE PumpHead \/ Drain
    BY <1>1 DEF PumpHead, Drain
  <1>2. CASE (Handler \/ RunFails) /\ ~PumpHead /\ ~Drain
    BY <1>2 DEF Handler, Launch, RunEncodes, RunReads, RunCompletes,
                RunTimesOut, RunTimesOutInWait,
         RunFinally, RunFails, StreamFails, StartWorkers,
                GetEmpty, GetEnd, GetChunk, ReapLate, Reap, Gone
  <1>3. CASE \/ \E s \in Stream : Reader(s)
             \/ \E p \in {"shell", "helper"}, s \in Stream :
                   Writes(p, s) \/ Closes(p, s)
             \/ Backgrounds \/ ShellExits \/ HelperExits \/ StdinWritten
             \/ Stalls \/ Disconnects \/ Expire \/ Rest
    BY <1>3 DEF Reader, Writes, Closes, Backgrounds, ShellExits, HelperExits,
                StdinWritten, Stalls, Disconnects, Expire, Rest, vars
  <1> QED BY <1>1, <1>2, <1>3 DEF Next

\* Has(queue, e), said of its positions.
LEMMA LabelsAppended ==
    ASSUME NEW q \in Seq(Event), NEW e \in Event, NEW s,
           \A i \in DOMAIN q : q[i].label # s, e.label # s
    PROVE  \A i \in DOMAIN Append(q, e) : Append(q, e)[i].label # s
  <1>1. \A i \in DOMAIN Append(q, e) : \/ i \in DOMAIN q /\ Append(q, e)[i] = q[i]
                                       \/ Append(q, e)[i] = e
    BY Appended, Elements
  <1> QED BY <1>1

LEMMA LabelsDropped ==
    ASSUME NEW q \in Seq(Event), q # <<>>, NEW s,
           \A i \in DOMAIN q : i # 1 => q[i].label # s
    PROVE  \A i \in DOMAIN Tail(q) : Tail(q)[i].label # s
  <1>1. \A i \in DOMAIN Tail(q) :
           Tail(q)[i] = q[i + 1] /\ i + 1 \in DOMAIN q /\ i + 1 # 1
    BY Dropped
  <1> QED BY <1>1

\* Nothing of a stream is in the queue behind its end.
LEMMA EndIsLast ==
    ASSUME TypeOK, LineInOrder, queue # <<>>, Head(queue).n = 0
    PROVE  /\ Head(queue).label \in Stream \ reader
           /\ \A i \in DOMAIN queue : i # 1 => queue[i].label # Head(queue).label
  <1>1. Head(queue) = queue[1] /\ 1 \in DOMAIN queue
    BY Dropped DEF TypeOK
  <1>2. \A i \in DOMAIN queue : i # 1 => 1 < i
    BY Dropped DEF TypeOK
  <1>3. QueueInOrder(queue, taken, reader)
    BY LineParts
  <1> QED BY <1>1, <1>2, <1>3 DEF QueueInOrder

LEMMA OpenCountsKept ==
    ASSUME TypeOK, Phases, LineInOrder, OpenCounts, Next
    PROVE  OpenCounts'
  <1> USE MaxChunksAssumption DEF TypeOK
  <1>1. pc' = "drain" => open' \in {1, 2}
    BY DrainSteps
  <1>2. ASSUME pc' \in {"pump", "get"}
        PROVE  /\ open' = 2 \/ (open' = 1 /\ \E s \in Stream : ~Awaited(s)')
               /\ \A s \in Stream : ~Awaited(s)' =>
                     \A i \in DOMAIN queue' : queue'[i].label # s
    <2>1. CASE Starts /\ open = 2 /\ open' = open
      BY <2>1 DEF Starts, Awaited
    <2>2. CASE pc = "get" /\ DropsEnd /\ open' = open - 1 /\ open # 1
      <3>1. /\ queue # <<>> /\ Head(queue).n = 0 /\ queue' = Tail(queue)
            /\ reader' = reader
        BY <2>2 DEF DropsEnd
      <3>2. PICK t \in Stream \ reader :
               /\ t = Head(queue).label
               /\ \A i \in DOMAIN queue : i # 1 => queue[i].label # t
        BY <3>1, EndIsLast
      <3>3. \A i \in DOMAIN queue' : queue'[i].label # t
        BY <3>1, <3>2, LabelsDropped
      <3>4. ~Awaited(t)'
        <4>1. ~Has(queue', Item(t, 0))
          BY <3>3 DEF Has
        <4> QED BY <3>1, <3>2, <4>1 DEF Awaited
      <3>5. open' = 1
        BY <2>2 DEF OpenCounts
      <3>6. ASSUME NEW s \in Stream, s # t, ~Awaited(s)'
            PROVE  \A i \in DOMAIN queue' : queue'[i].label # s
        <4>1. Item(s, 0) # Head(queue)
          BY <3>2, <3>6
        <4>2. ~Awaited(s)
          BY <3>1, <3>6, <4>1, HasDropped DEF Awaited
        <4>3. \A i \in DOMAIN queue : queue[i].label # s
          BY <2>2, <4>2 DEF OpenCounts
        <4> QED BY <3>1, <4>3, LabelsDropped
      <3> QED BY <3>2, <3>3, <3>4, <3>5, <3>6
    <2>3. CASE /\ pc \in {"pump", "get"} /\ open' = open
               /\ Quiet \/ Passes \/ \E s \in Stream : Puts(s) \/ PutsEnd(s)
      <3>0. /\ open = 2 \/ (open = 1 /\ \E s \in Stream : ~Awaited(s))
            /\ \A s \in Stream : ~Awaited(s) =>
                  \A i \in DOMAIN queue : queue[i].label # s
        BY <2>3 DEF OpenCounts
      <3> SUFFICES ASSUME NEW s \in Stream
                   PROVE  /\ ~Awaited(s) => ~Awaited(s)'
                          /\ ~Awaited(s)' =>
                                \A i \in DOMAIN queue' : queue'[i].label # s
        BY <2>3, <3>0
      <3>1. CASE Quiet
        BY <3>0, <3>1 DEF Quiet, Awaited
      <3>2. CASE Passes
        <4>1. Item(s, 0) # Head(queue) /\ reader' = reader
              /\ queue # <<>> /\ queue' = Tail(queue)
          BY <3>2 DEF Passes
        <4>2. Awaited(s)' <=> Awaited(s)
          BY <4>1, HasDropped DEF Awaited
        <4> QED BY <3>0, <4>1, <4>2, LabelsDropped
      <3>3. ASSUME NEW t \in Stream, Puts(t)
            PROVE  /\ ~Awaited(s) => ~Awaited(s)'
                   /\ ~Awaited(s)' =>
                         \A i \in DOMAIN queue' : queue'[i].label # s
        <4> DEFINE e == Item(t, taken[t] + 1)
        <4>1. /\ e \in Event /\ e # Item(s, 0) /\ e.label = t /\ t \in reader
              /\ reader' = reader /\ queue' = Append(queue, e)
          BY <3>3, MaxChunksAssumption DEF Puts
        <4> HIDE DEF e
        <4>2. Awaited(s)' <=> Awaited(s)
          <5> DEFINE m == Item(s, 0)
          <5>1. queue \in Seq(Event)
            OBVIOUS
          <5> HIDE DEF m
          <5>2. Has(Append(queue, e), m) <=> Has(queue, m) \/ m = e
            BY <4>1, <5>1, HasAppended
          <5>3. Has(queue', m) <=> Has(queue, m) \/ m = e
            BY <4>1, <5>2
          <5> QED BY <4>1, <5>3 DEF Awaited, m
        <4>3. ~Awaited(s) => e.label # s
          BY <4>1 DEF Awaited
        <4>4. e.label # s /\ (\A i \in DOMAIN queue : queue[i].label # s) =>
                 \A i \in DOMAIN queue' : queue'[i].label # s
          <5>1. queue \in Seq(Event)
            OBVIOUS
          <5> QED BY <4>1, <5>1, LabelsAppended
        <4> QED BY <3>0, <4>2, <4>3, <4>4
      <3>4. ASSUME NEW t \in Stream, PutsEnd(t)
            PROVE  /\ ~Awaited(s) => ~Awaited(s)'
                   /\ ~Awaited(s)' =>
                         \A i \in DOMAIN queue' : queue'[i].label # s
        <4> DEFINE e == Item(t, 0)
        <4>1. /\ e \in Event /\ e.label = t /\ t \in reader
              /\ reader' = reader \ {t} /\ queue' = Append(queue, e)
          BY <3>4 DEF PutsEnd
        <4>2. s = t <=> e = Item(s, 0)
          OBVIOUS
        <4> HIDE DEF e
        <4>3. Awaited(s)' <=> Awaited(s)
          <5> DEFINE m == Item(s, 0)
          <5>1. queue \in Seq(Event)
            OBVIOUS
          <5> HIDE DEF m
          <5>2. Has(Append(queue, e), m) <=> Has(queue, m) \/ m = e
            BY <4>1, <5>1, HasAppended
          <5>3. Has(queue', m) <=> Has(queue, m) \/ m = e
            BY <4>1, <5>2
          <5> QED BY <4>1, <4>2, <5>3 DEF Awaited, m
        <4>4. ~Awaited(s) => e.label # s
          BY <4>1 DEF Awaited
        <4>5. e.label # s /\ (\A i \in DOMAIN queue : queue[i].label # s) =>
                 \A i \in DOMAIN queue' : queue'[i].label # s
          <5>1. queue \in Seq(Event)
            OBVIOUS
          <5> QED BY <4>1, <5>1, LabelsAppended
        <4> QED BY <3>0, <4>3, <4>4, <4>5
      <3> QED BY <2>3, <3>1, <3>2, <3>3, <3>4
    <2> QED BY <1>2, <2>1, <2>2, <2>3, LoopSteps
  <1> QED BY <1>1, <1>2 DEF OpenCounts

\* The handler leaves the loop when nothing can follow.
LEMMA ReapIsLast ==
    ASSUME TypeOK, LineInOrder, OpenCounts, ExitIsFinal, Next, pc' = "reap"
    PROVE  reader' = {} /\ queue' = <<>>
  <1> USE MaxChunksAssumption DEF TypeOK
  <1>1. CASE pc = "get" /\ DropsEnd /\ open = 1
    <2> DEFINE t == Head(queue).label
    <2>1. /\ queue # <<>> /\ Head(queue).n = 0 /\ queue' = Tail(queue)
          /\ reader' = reader
      BY <1>1 DEF DropsEnd
    <2>2. /\ t \in Stream \ reader
          /\ \A i \in DOMAIN queue : i # 1 => queue[i].label # t
      BY <2>1, EndIsLast
    <2>3. PICK s \in Stream : ~Awaited(s)
      BY <1>1 DEF OpenCounts
    <2>4. \A i \in DOMAIN queue : queue[i].label # s
      BY <1>1, <2>3 DEF OpenCounts
    <2>5. s # t
      BY <2>1, <2>4, Dropped
    <2>6. reader' = {}
      BY <2>1, <2>2, <2>3, <2>5 DEF Awaited
    <2>7. \A i \in DOMAIN queue' : queue'[i].label # s /\ queue'[i].label # t
      BY <2>1, <2>2, <2>4, LabelsDropped
    <2>8. \A i \in DOMAIN queue' : queue'[i].label \in Stream
      <3>1. \A i \in DOMAIN queue : queue[i].label \in Stream
        BY DEF LineInOrder
      <3>2. \A i \in DOMAIN Tail(queue) :
               Tail(queue)[i] = queue[i + 1] /\ i + 1 \in DOMAIN queue
        BY <2>1, Dropped
      <3> QED BY <2>1, <3>1, <3>2
    <2>9. queue' \in Seq(Event) /\ Len(queue') \in Nat
          /\ DOMAIN queue' = 1..Len(queue')
      <3>1. Tail(queue) \in Seq(Event)
        BY <2>1, Dropped
      <3> QED BY <2>1, <3>1, Elements
    <2>10. DOMAIN queue' = {}
      BY <2>2, <2>3, <2>5, <2>7, <2>8
    <2>11. Len(queue') = 0
      BY <2>9, <2>10
    <2> QED BY <2>6, <2>9, <2>11, EmptySeq
  <1>2. CASE pc = "reap" /\ (Quiet \/ \E s \in Stream : s \in reader)
    BY <1>2 DEF ExitIsFinal, Quiet
  <1> QED BY <1>1, <1>2, ReapSteps

\* An exit event is the last, and an exit code is sent when all has been read.
LEMMA ExitIsFinalKept ==
    ASSUME TypeOK, Phases, ReadersReadAll, LineInOrder, OpenCounts, ExitIsFinal,
           LineStep, Next
    PROVE  ExitIsFinal'
  <1> USE MaxChunksAssumption DEF TypeOK
  <1> DEFINE code == Item("exit_code", 0)
  <1>0. /\ \A i \in DOMAIN sent : sent[i].label \in Exit =>
              pc \in {"finally", "done"} /\ i = Len(sent)
        /\ Has(sent, code) => /\ reader = {} /\ queue = <<>>
                              /\ \A s \in Stream : Ended(s)
        /\ pc = "reap" => reader = {} /\ queue = <<>>
    BY DEF ExitIsFinal
  <1>1. pc' = "reap" => reader' = {} /\ queue' = <<>>
    BY ReapIsLast
  <1>2. /\ \A i \in DOMAIN sent' : sent'[i].label \in Exit =>
              pc' \in {"finally", "done"} /\ i = Len(sent')
        /\ Has(sent', code) => \/ Has(sent, code)
                               \/ SendsExit /\ sent' = Append(sent, code)
    <2>1. CASE sent' = sent
      BY <1>0, <2>1, DoneStays
    <2>2. ASSUME NEW e \in Event, sent' = Append(sent, e),
                 pc \notin {"finally", "done"},
                 e.label \in Exit => pc' \in {"finally", "done"}
          PROVE  /\ \A i \in DOMAIN sent' : sent'[i].label \in Exit =>
                       pc' \in {"finally", "done"} /\ i = Len(sent')
                 /\ Has(sent', code) => Has(sent, code) \/ e = code
      <3>1. \A i \in DOMAIN sent' : \/ i \in DOMAIN sent /\ sent'[i] = sent[i]
                                    \/ sent'[i] = e /\ i = Len(sent')
        BY <2>2, Appended, Elements
      <3>2. sent \in Seq(Event)
        OBVIOUS
      <3> HIDE DEF code
      <3>3. Has(Append(sent, e), code) <=> Has(sent, code) \/ code = e
        BY <2>2, <3>2, HasAppended
      <3> QED BY <1>0, <2>2, <3>1, <3>3
    <2>3. CASE SendsExit
      <3>1. PICK x \in Exit : sent' = Append(sent, Item(x, 0))
        BY <2>3 DEF SendsExit
      <3>2. Item(x, 0) \in Event
        OBVIOUS
      <3>3. pc \notin {"finally", "done"} /\ pc' \in {"finally", "done"}
        BY <2>3 DEF SendsExit
      <3> HIDE DEF code
      <3> QED BY <2>2, <2>3, <3>1, <3>2, <3>3
    <2>4. CASE Passes
      <3>0. queue # <<>>
        BY <2>4 DEF Passes
      <3>1. /\ Head(queue) \in Event /\ sent' = Append(sent, Head(queue))
            /\ pc \notin {"finally", "done"}
            /\ Head(queue) = queue[1] /\ 1 \in DOMAIN queue
        <4>1. /\ Head(queue) \in Event /\ Head(queue) = queue[1]
              /\ 1 \in DOMAIN queue
          <5>1. /\ Head(queue) \in Event /\ Head(queue) = queue[1]
                /\ Len(queue) \in Nat \ {0} /\ DOMAIN queue = 1..Len(queue)
            BY <3>0, Dropped
          <5> QED BY <5>1
        <4>2. sent' = Append(sent, Head(queue)) /\ pc \notin {"finally", "done"}
          BY <2>4 DEF Passes
        <4> QED BY <4>1, <4>2
      <3>2. Head(queue).label \in Stream
        BY <3>1 DEF LineInOrder
      <3>3. Head(queue).label \notin Exit /\ Head(queue) # code
        BY <3>2
      <3> QED BY <2>2, <3>1, <3>3
    <2>5. ASSUME NEW s \in Stream, Reads(s)
          PROVE  /\ \A i \in DOMAIN sent' : sent'[i].label \in Exit =>
                       pc' \in {"finally", "done"} /\ i = Len(sent')
                 /\ Has(sent', code) => Has(sent, code)
      <3> DEFINE e == Item(s, taken[s] + 1)
      <3>1. /\ e \in Event /\ e.label \notin Exit /\ e # code
            /\ sent' = Append(sent, e) /\ pc \notin {"finally", "done"}
        BY <2>5, MaxChunksAssumption DEF Reads
      <3> HIDE DEF e, code
      <3> QED BY <2>2, <3>1
    <2>7. CASE Forgets
      <3>1. /\ sent' = <<Item("exit_timed_out", 0)>> /\ pc' = "finally"
            /\ DOMAIN sent' = {1} /\ Len(sent') = 1
        BY <2>7 DEF Forgets
      <3> QED BY <3>1 DEF Has
    <2>6. \/ sent' = sent \/ SendsExit \/ Passes \/ Forgets
          \/ \E s \in Stream : Reads(s)
      BY DEF LineStep, Forgets, Quiet, DropsEnd, Starts, Puts, PutsEnd
    <2> QED BY <2>1, <2>3, <2>4, <2>5, <2>6, <2>7
  <1>3. ASSUME Has(sent, code)
        PROVE  reader' = {} /\ queue' = <<>> /\ \A s \in Stream : Ended(s)'
    <2>1. pc \in {"finally", "done"}
      BY <1>0, <1>3 DEF Has
    <2>2. Quiet
      BY <1>0, <1>3, <2>1 DEF LineStep, Forgets, SendsExit, Passes, DropsEnd, Starts,
                              Reads, Puts, PutsEnd
    <2>3. \A s \in Stream : holds'[s] = {} /\ written'[s] = written[s]
      BY <1>0, <1>3, <2>1, PipesStay DEF Ended
    <2> QED BY <1>0, <1>3, <2>2, <2>3 DEF Quiet, Ended
  <1>4. ASSUME SendsExit, sent' = Append(sent, code)
        PROVE  reader' = {} /\ queue' = <<>> /\ \A s \in Stream : Ended(s)'
    <2>1. PICK x \in Exit : /\ sent' = Append(sent, Item(x, 0))
                            /\ x = "exit_code" =>
                                  /\ \/ /\ pc = "communicate"
                                        /\ \A s \in Stream : Ended(s)
                                     \/ pc = "reap"
                                  /\ UNCHANGED <<holds, written>>
      BY <1>4 DEF SendsExit
    <2>2. x = "exit_code"
      <3>1. Item(x, 0) \in Event /\ code \in Event /\ Len(sent) \in Nat
        BY Elements
      <3>2. Append(sent, Item(x, 0))[Len(sent) + 1] = Item(x, 0)
        BY <3>1, Appended
      <3>3. Append(sent, code)[Len(sent) + 1] = code
        BY <3>1, Appended
      <3> QED BY <1>4, <2>1, <3>2, <3>3
    <2>3. reader = {} /\ queue = <<>> /\ \A s \in Stream : Ended(s)
      BY <1>0, <2>1, <2>2 DEF Phases, ReadersReadAll, Working
    <2>4. UNCHANGED <<queue, taken, reader, holds, written>>
      BY <1>4, <2>1, <2>2 DEF SendsExit
    <2> QED BY <2>3, <2>4 DEF Ended
  <1> QED BY <1>1, <1>2, <1>3, <1>4 DEF ExitIsFinal

-----------------------------------------------------------------------------
(* The invariant *)

\* Each part of it is kept by a step.
LEMMA NextCommand == TypeOK /\ CommandInv /\ Next => CommandInv'
  <1> SUFFICES ASSUME TypeOK, CommandInv, Next
               PROVE  CommandInv'
    OBVIOUS
  <1>1. TypeOK'
    BY NextType
  <1>2. LineStep
    BY LineSteps DEF CommandInv
  <1>3. Phases' /\ ShellIsKept' /\ NoShellLeft'
    BY PhasesKept, ShellKept DEF CommandInv
  <1>4. ReadersReadAll'
    BY <1>1, <1>2, ReadAllKept DEF CommandInv
  <1>5. LineInOrder' /\ NothingLost'
    BY <1>2, OrderIsKept, NothingIsLost DEF CommandInv
  <1>6. OpenCounts' /\ ExitIsFinal'
    BY <1>2, OpenCountsKept, ExitIsFinalKept DEF CommandInv
  <1> QED BY <1>3, <1>4, <1>5, <1>6 DEF CommandInv

LEMMA InitCommand == Init => TypeOK /\ CommandInv
  <1> SUFFICES ASSUME Init
               PROVE  TypeOK /\ CommandInv
    OBVIOUS
  <1> USE MaxChunksAssumption DEF Init
  <1>1. sent = <<>> /\ queue = <<>> /\ DOMAIN sent = {} /\ DOMAIN queue = {}
    OBVIOUS
  <1>2. TypeOK
    <2>1. queue \in Seq(Event) /\ sent \in Seq(Event)
      BY <1>1, EmptySeq
    <2>2. /\ holds \in [Stream -> SUBSET {"shell", "helper"}]
          /\ written \in [Stream -> 0..MaxChunks]
          /\ taken \in [Stream -> 0..MaxChunks]
      OBVIOUS
    <2>3. timed \in BOOLEAN /\ expired \in BOOLEAN
          /\ client \in {"reads", "stalled", "gone"}
      OBVIOUS
    <2>4. /\ kind \in {"run", "stream"} /\ pc = "start" /\ open \in 0..2
          /\ stdin \in {"none", "given", "unencodable"} /\ reader \subseteq Stream
          /\ shell = "none" /\ helper = "none"
      OBVIOUS
    <2> HIDE DEF Init
    <2> QED BY <2>1, <2>2, <2>3, <2>4 DEF TypeOK
  <1>3. Phases /\ ReadersReadAll /\ NothingLost /\ OpenCounts /\ ShellIsKept
        /\ NoShellLeft
    BY DEF Phases, ReadersReadAll, Working, NothingLost, OpenCounts,
           ShellIsKept, NoShellLeft
  <1>4. LineInOrder /\ ExitIsFinal
    BY <1>1 DEF LineInOrder, ExitIsFinal, Has
  <1> QED BY <1>2, <1>3, <1>4 DEF CommandInv

\* CommandExec.CommandInv holds in every reachable state: what has been read of
\* a stream is in the queue or sent, in order, a reader that has ended has read
\* everything, and the handler leaves its loop when nothing can follow.
THEOREM CommandInvariant == Spec => [](TypeOK /\ CommandInv)
  <1>1. Init => TypeOK /\ CommandInv
    BY InitCommand
  <1>2. TypeOK /\ CommandInv /\ [Next]_vars => (TypeOK /\ CommandInv)'
    <2>1. TypeOK /\ CommandInv /\ Next => (TypeOK /\ CommandInv)'
      BY NextType, NextCommand
    <2>2. TypeOK /\ CommandInv /\ UNCHANGED vars => (TypeOK /\ CommandInv)'
      <3> SUFFICES ASSUME TypeOK, CommandInv, UNCHANGED vars
                   PROVE  (TypeOK /\ CommandInv)'
        OBVIOUS
      <3>1. TypeOK'
        <4>1. [Next]_vars
          OBVIOUS
        <4> QED BY <4>1, NextType
      <3>2. CommandInv'
        BY DEF vars, childVars, CommandInv, Phases, ReadersReadAll, Working,
               Ended, LineInOrder, NothingLost, OpenCounts, Awaited, Has,
               ExitIsFinal, ShellIsKept, NoShellLeft
      <3> QED BY <3>1, <3>2
    <2> QED BY <2>1, <2>2
  <1> QED BY <1>1, <1>2, PTL DEF Spec

\* CommandExec.TypeOK: the counter of open streams stays within 0..2, and
\* nothing but events of the protocol is queued or sent.
THEOREM CommandTypes == Spec => []TypeOK
  <1> QED BY CommandInvariant, PTL

\* The three parts of OutputFaithful follow from the invariant.
LEMMA FaithfulFromInv == TypeOK /\ CommandInv => OutputFaithful
  <1> SUFFICES ASSUME TypeOK, CommandInv
               PROVE  OutputFaithful
    OBVIOUS
  <1> USE MaxChunksAssumption DEF TypeOK
  <1>0. /\ \A i \in DOMAIN sent : sent[i].n \in 0..MaxChunks
        /\ \A i \in DOMAIN queue : queue[i].n \in 0..MaxChunks
        /\ DOMAIN sent = 1..Len(sent) /\ Len(sent) \in Nat
    <2>1. /\ \A i \in DOMAIN sent : sent[i] \in Event
          /\ \A i \in DOMAIN queue : queue[i] \in Event
      BY Elements
    <2> QED BY <2>1, Elements
  <1>a. CASE kind = "run" /\ sent = <<Item("exit_timed_out", 0)>>
    <2>1. \A i \in DOMAIN sent :
             i = 1 /\ Len(sent) = 1 /\ sent[i].label = "exit_timed_out"
      BY <1>a
    <2> QED BY <2>1 DEF OutputFaithful, ChunksInOrder, ExitIsLast,
                        ExitCodeAfterAll, Has
  <1> SUFFICES ASSUME ~(kind = "run" /\ sent = <<Item("exit_timed_out", 0)>>)
               PROVE  OutputFaithful
    BY <1>a
  <1>1. ChunksInOrder
    <2> SUFFICES ASSUME NEW i \in DOMAIN sent, sent[i].label \in Stream
                 PROVE  /\ sent[i].n \in 1..written[sent[i].label]
                        /\ \A j \in 1..(i-1) : sent[j].label = sent[i].label =>
                              sent[j].n < sent[i].n
                        /\ \A n \in 1..(sent[i].n - 1) :
                              Has(sent, Item(sent[i].label, n))
      BY DEF ChunksInOrder
    <2> DEFINE s == sent[i].label
    <2>1. sent[i].n \in 1..taken[s] /\ taken[s] <= written[s]
      BY DEF CommandInv, LineInOrder, ReadersReadAll
    <2>2. taken[s] \in Nat /\ written[s] \in Nat
      OBVIOUS
    <2>3. ASSUME NEW j \in 1..(i-1), sent[j].label = s
          PROVE  sent[j].n < sent[i].n
      <3>1. j \in DOMAIN sent /\ j < i
        BY <1>0
      <3>2. SentInOrder(sent, taken)
        BY LineParts DEF CommandInv
      <3> QED BY <2>3, <3>1, <3>2 DEF SentInOrder
    <2>4. ASSUME NEW n \in 1..(sent[i].n - 1), Has(queue, Item(s, n))
          PROVE  FALSE
      <3>1. PICK j \in DOMAIN queue : queue[j] = Item(s, n)
        BY <2>4 DEF Has
      <3>2. queue[j].label = s /\ queue[j].n = n /\ n > 0
        BY <3>1
      <3>3. sent[i].n < queue[j].n
        <4>1. SentIsOlder(sent, queue)
          BY LineParts DEF CommandInv
        <4> QED BY <3>2, <4>1 DEF SentIsOlder
      <3> QED BY <1>0, <3>2, <3>3
    <2>5. ASSUME NEW n \in 1..(sent[i].n - 1)
          PROVE  Has(sent, Item(s, n))
      <3>1. n \in 1..taken[s]
        BY <1>0, <2>1, <2>2
      <3> QED BY <2>4, <3>1 DEF CommandInv, NothingLost
    <2> QED BY <1>0, <2>1, <2>2, <2>3, <2>5
  <1>2. ExitIsLast
    BY DEF CommandInv, ExitIsFinal, ExitIsLast
  <1>3. ExitCodeAfterAll
    <2> SUFFICES ASSUME Has(sent, Item("exit_code", 0)), NEW s \in Stream,
                        NEW n \in 1..written[s]
                 PROVE  Has(sent, Item(s, n))
      BY DEF ExitCodeAfterAll
    <2>1. queue = <<>> /\ taken[s] = written[s]
      BY DEF CommandInv, ExitIsFinal, Ended
    <2>2. ~Has(queue, Item(s, n))
      BY <2>1 DEF Has
    <2> QED BY <2>1, <2>2 DEF CommandInv, NothingLost
  <1> QED BY <1>1, <1>2, <1>3 DEF OutputFaithful

\* CommandExec.OutputFaithful: the client gets each stream in order and without
\* gaps, nothing after the exit event, and an exit code only with all of the
\* output (_pump_output and _drain_remaining with their reader threads, and
\* communicate).
THEOREM OutputIsFaithful == Spec => []OutputFaithful
  <1> QED BY CommandInvariant, FaithfulFromInv, PTL

\* CommandExec.NoShellLeft: no way out of a request leaves its shell running,
\* but for the stdin that /run cannot encode.
THEOREM NoShellIsLeft == Spec => []NoShellLeft
  <1>1. CommandInv => NoShellLeft
    BY DEF CommandInv
  <1> QED BY <1>1, CommandInvariant, PTL
=============================================================================
