----------------------------- MODULE CommandExec -----------------------------
(***************************************************************************)
(* One /run or /stream request of the command server (src/server.py) on    *)
(* POSIX: the handler thread, the two reader threads and the stdin thread  *)
(* of /stream, the shell that the request started, and one process that    *)
(* the shell may leave in the background of its process group.             *)
(*                                                                         *)
(* Chunks of output are numbered per stream.  The events of a stream and   *)
(* the fields of the response to /run are both recorded in `sent`.         *)
(***************************************************************************)
EXTENDS Integers, Sequences

CONSTANT MaxChunks     \* bound on the chunks written to each stream

ASSUME MaxChunksAssumption == MaxChunks \in Nat

VARIABLES
    kind,       \* "run" or "stream"
    timed,      \* does the request have a timeout
    stdin,      \* its stdin
    pc,         \* where the handler is
    open,       \* open_streams, of _pump_output and of _drain_remaining
    expired,    \* has the timeout elapsed
    client,     \* "reads", has "stalled" (is there, reads no more) or is "gone"
    reader,     \* which reader threads run
    queue,      \* chunks
    sent,       \* what was written to the client
    shell,      \* the child of the handler
    helper,     \* the background process
    holds,      \* per stream, the processes with its pipe's write end open
    written,    \* per stream, the chunks written to its pipe
    taken       \* per stream, the chunks read from its pipe

childVars == <<shell, helper, holds, written>>
vars == <<kind, timed, stdin, pc, open, expired, client, reader, queue,
          sent, shell, helper, holds, written, taken>>

Stream == {"stdout", "stderr"}
Exit == {"exit_code", "exit_timed_out", "exit_error"}
Event == [label : Stream \cup Exit, n : 0..MaxChunks]

\* An item of the queue, or an event: chunk n of a stream, the end of a stream
\* (n = 0, in the queue only), or an exit event.
Item(label, n) == [label |-> label, n |-> n]

Init ==
    /\ kind \in {"run", "stream"}
    /\ timed \in BOOLEAN
    /\ stdin \in {"none", "given", "unencodable"}
    /\ pc = "start"
    /\ open = 2
    /\ expired = FALSE
    /\ client = "reads"
    /\ reader = {}
    /\ queue = <<>>
    /\ sent = <<>>
    /\ shell = "none"
    /\ helper = "none"
    /\ holds = [s \in Stream |-> {}]
    /\ written = [s \in Stream |-> 0]
    /\ taken = [s \in Stream |-> 0]

Send(label, n) == sent' = Append(sent, Item(label, n))

\* _kill_tree: the process group, unless the shell itself has exited already.
KillTree ==
    IF shell = "running"
    THEN /\ shell' = "exited"
         /\ helper' = IF helper = "running" THEN "killed" ELSE helper
         /\ holds' = [s \in Stream |-> {}]
         /\ UNCHANGED written
    ELSE UNCHANGED childVars

-----------------------------------------------------------------------------
(* The start of both handlers *)

\* The writing of stdin begins; without one, nothing is left to write.
WritingStdin == stdin' = IF stdin = "given" THEN "writing" ELSE "written"

\* Popen; a bad cwd or command is answered with 400.
Launch ==
    /\ pc = "start"
    /\ \/ /\ shell' = "running"
          /\ holds' = [s \in Stream |-> {"shell"}]
          /\ pc' = IF kind = "run" THEN "encode" ELSE "headers"
          /\ UNCHANGED sent
       \/ /\ Send("exit_error", 0)
          /\ pc' = "done"
          /\ UNCHANGED <<shell, holds>>
    /\ UNCHANGED <<kind, timed, stdin, open, expired, client, reader, queue,
                   helper, written, taken>>

\* /run encodes stdin before its try: a lone surrogate is answered with 400,
\* and the shell is neither killed nor waited for.
RunEncodes ==
    /\ pc = "encode"
    /\ IF stdin = "unencodable"
       THEN Send("exit_error", 0) /\ pc' = "done" /\ UNCHANGED stdin
       ELSE pc' = "communicate" /\ WritingStdin /\ UNCHANGED sent
    /\ UNCHANGED <<kind, timed, open, expired, client, reader, queue,
                   childVars, taken>>

-----------------------------------------------------------------------------
(* /run: communicate reads both pipes in the handler's thread *)

RunReads(s) ==
    /\ pc = "communicate"
    /\ taken[s] < written[s]
    /\ taken' = [taken EXCEPT ![s] = @ + 1]
    /\ Send(s, taken[s] + 1)
    /\ UNCHANGED <<kind, timed, stdin, pc, open, expired, client, reader,
                   queue, childVars>>

\* Both pipes are at their end and the shell has been waited for.
RunCompletes ==
    /\ pc = "communicate"
    /\ \A s \in Stream : holds[s] = {} /\ taken[s] = written[s]
    /\ shell = "exited"
    /\ Send("exit_code", 0)
    /\ pc' = "finally"
    /\ UNCHANGED <<kind, timed, stdin, open, expired, client, reader, queue,
                   childVars, taken>>

\* TimeoutExpired while the pipes are read: the tree is killed and what was read
\* so far is the answer.
RunTimesOut ==
    /\ pc = "communicate"
    /\ timed /\ expired
    /\ KillTree
    /\ Send("exit_timed_out", 0)
    /\ pc' = "finally"
    /\ UNCHANGED <<kind, timed, stdin, open, expired, client, reader, queue,
                   taken>>

\* TimeoutExpired while the shell, whose pipes are at their end, is waited for:
\* that exception carries no output.
RunTimesOutInWait ==
    /\ pc = "communicate"
    /\ timed /\ expired /\ stdin # "writing"
    /\ shell = "running"
    /\ \A s \in Stream : holds[s] = {} /\ taken[s] = written[s]
    /\ KillTree
    /\ sent' = <<Item("exit_timed_out", 0)>>
    /\ pc' = "finally"
    /\ UNCHANGED <<kind, timed, stdin, open, expired, client, reader, queue,
                   taken>>

\* Any other failure of communicate; the finally clause runs before do_POST
\* answers 500.
RunFails ==
    /\ pc = "communicate"
    /\ pc' = "finally_error"
    /\ UNCHANGED <<kind, timed, stdin, open, expired, client, reader, queue,
                   sent, childVars, taken>>

\* Whatever happened, a shell that still runs is killed.
RunFinally ==
    /\ pc \in {"finally", "finally_error"}
    /\ KillTree
    /\ IF pc = "finally_error" THEN Send("exit_error", 0) ELSE UNCHANGED sent
    /\ pc' = "done"
    /\ UNCHANGED <<kind, timed, stdin, open, expired, client, reader, queue,
                   taken>>

-----------------------------------------------------------------------------
(* /stream *)

\* The except clause: the headers cannot be written, or stdin not be encoded.
StreamFails ==
    /\ pc = "headers"
    /\ client = "gone" \/ stdin = "unencodable"
    /\ KillTree
    /\ Send("exit_error", 0)
    /\ pc' = "done"
    /\ UNCHANGED <<kind, timed, stdin, open, expired, client, reader, queue,
                   taken>>

\* Mutant: stdin is written by the handler before it starts the readers, and
\* the write ends when the shell, which need not read, has exited.
StartWorkersAfterStdin ==
    /\ pc = "headers" /\ stdin # "unencodable"
    /\ stdin = "given" => shell = "exited"
    /\ WritingStdin
    /\ reader' = Stream
    /\ pc' = "pump"
    /\ UNCHANGED <<kind, timed, open, expired, client, queue, sent,
                   childVars, taken>>

\* The headers are out; the stdin thread and the readers start.
StartWorkers ==
    /\ pc = "headers" /\ stdin # "unencodable"
    /\ WritingStdin
    /\ reader' = Stream
    /\ pc' = "pump"
    /\ UNCHANGED <<kind, timed, open, expired, client, queue, sent,
                   childVars, taken>>

\* Mutant: a reader stops when the shell has exited.
ReaderStopsWithShell(s) ==
    /\ s \in reader
    /\ \/ /\ taken[s] < written[s]
          /\ taken' = [taken EXCEPT ![s] = @ + 1]
          /\ queue' = Append(queue, Item(s, taken[s] + 1))
          /\ UNCHANGED reader
       \/ /\ shell = "exited"
          /\ queue' = Append(queue, Item(s, 0))
          /\ reader' = reader \ {s}
          /\ UNCHANGED taken
    /\ UNCHANGED <<kind, timed, stdin, pc, open, expired, client, sent,
                   childVars>>

\* Mutant: a reader looks for the end after it has put what it read.
ReaderPutsEmpty(s) ==
    /\ s \in reader
    /\ \/ /\ taken[s] < written[s]
          /\ taken' = [taken EXCEPT ![s] = @ + 1]
          /\ queue' = Append(queue, Item(s, taken[s] + 1))
          /\ UNCHANGED reader
       \/ /\ taken[s] = written[s] /\ holds[s] = {}
          /\ queue' = queue \o <<Item(s, taken[s] + 1), Item(s, 0)>>
          /\ reader' = reader \ {s}
          /\ UNCHANGED taken
    /\ UNCHANGED <<kind, timed, stdin, pc, open, expired, client, sent,
                   childVars>>

\* A reader puts chunks until the pipe is empty and every write end is closed.
Reader(s) ==
    /\ s \in reader
    /\ \/ /\ taken[s] < written[s]
          /\ taken' = [taken EXCEPT ![s] = @ + 1]
          /\ queue' = Append(queue, Item(s, taken[s] + 1))
          /\ UNCHANGED reader
       \/ /\ taken[s] = written[s] /\ holds[s] = {}
          /\ queue' = Append(queue, Item(s, 0))
          /\ reader' = reader \ {s}
          /\ UNCHANGED taken
    /\ UNCHANGED <<kind, timed, stdin, pc, open, expired, client, sent,
                   childVars>>

\* The loop head of _pump_output looks at the timeout only.
PumpHead ==
    /\ pc = "pump"
    /\ IF timed /\ expired
       THEN KillTree /\ pc' = "drain" /\ open' = 2
       ELSE pc' = "get" /\ UNCHANGED <<open, childVars>>
    /\ UNCHANGED <<kind, timed, stdin, expired, client, reader, queue, sent,
                   taken>>

\* chunks.get finds nothing within _STREAM_POLL.
GetEmpty ==
    /\ pc = "get"
    /\ queue = <<>>
    /\ pc' = "pump"
    /\ UNCHANGED <<kind, timed, stdin, open, expired, client, reader, queue,
                   sent, childVars, taken>>

\* Mutant: the loop is left at the end of the first stream.
GetEndOfOne ==
    /\ pc = "get"
    /\ queue # <<>> /\ Head(queue).n = 0
    /\ queue' = Tail(queue)
    /\ open' = open - 1
    /\ pc' = "reap"
    /\ UNCHANGED <<kind, timed, stdin, expired, client, reader, sent,
                   childVars, taken>>

\* The end of a stream; after the second the loop is left.
GetEnd ==
    /\ pc = "get"
    /\ queue # <<>> /\ Head(queue).n = 0
    /\ queue' = Tail(queue)
    /\ open' = open - 1
    /\ pc' = IF open = 1 THEN "reap" ELSE "pump"
    /\ UNCHANGED <<kind, timed, stdin, expired, client, reader, sent,
                   childVars, taken>>

\* Mutant: a client that is gone is not taken for a reason to kill.
GetChunkKeeps ==
    /\ pc = "get"
    /\ queue # <<>> /\ Head(queue).n > 0
    /\ queue' = Tail(queue)
    /\ Send(Head(queue).label, Head(queue).n)
    /\ pc' \in IF client = "gone" THEN {"pump", "gone"} ELSE {"pump"}
    /\ UNCHANGED <<kind, timed, stdin, open, expired, client, reader,
                   childVars, taken>>

\* A chunk is written to the client.  When the client is gone the write fails,
\* at once or a little later, and the tree is killed.
GetChunk ==
    /\ pc = "get"
    /\ queue # <<>> /\ Head(queue).n > 0
    /\ queue' = Tail(queue)
    /\ Send(Head(queue).label, Head(queue).n)
    /\ \/ pc' = "pump" /\ UNCHANGED childVars
       \/ client = "gone" /\ KillTree /\ pc' = "gone"
    /\ UNCHANGED <<kind, timed, stdin, open, expired, client, reader, taken>>

\* _drain_remaining, until both streams end (again) or its budget is used up.
Drain ==
    /\ pc = "drain"
    /\ \/ /\ queue # <<>>
          /\ queue' = Tail(queue)
          /\ IF Head(queue).n = 0
             THEN /\ open' = open - 1
                  /\ pc' = IF open = 1 THEN "reap_late" ELSE pc
                  /\ UNCHANGED sent
             ELSE /\ Send(Head(queue).label, Head(queue).n)
                  /\ UNCHANGED <<open, pc>>
       \/ pc' = "reap_late" /\ UNCHANGED <<open, queue, sent>>
    /\ UNCHANGED <<kind, timed, stdin, expired, client, reader, childVars,
                   taken>>

\* After a timeout the exit code is not waited for longer than _REAP_TIMEOUT,
\* and not reported.
ReapLate ==
    /\ pc = "reap_late"
    /\ Send("exit_timed_out", 0)
    /\ pc' = "done"
    /\ UNCHANGED <<kind, timed, stdin, open, expired, client, reader, queue,
                   childVars, taken>>

\* Both streams have ended: the exit code, unless the shell runs on with its
\* pipes closed for _REAP_TIMEOUT, which counts as a timeout.
Reap ==
    /\ pc = "reap"
    /\ IF shell = "running" THEN Send("exit_timed_out", 0)
                            ELSE Send("exit_code", 0)
    /\ KillTree
    /\ pc' = "done"
    /\ UNCHANGED <<kind, timed, stdin, open, expired, client, reader, queue,
                   taken>>

\* The client is gone: the shell is waited for, nothing is sent.
Gone ==
    /\ pc = "gone"
    /\ pc' = "done"
    /\ UNCHANGED <<kind, timed, stdin, open, expired, client, reader, queue,
                   sent, childVars, taken>>

-----------------------------------------------------------------------------
(* The environment *)

Running(p) == CASE p = "shell" -> shell = "running"
                [] p = "helper" -> helper = "running"

\* A process of the group writes a chunk, or closes a stream.
Writes(p, s) ==
    /\ Running(p) /\ p \in holds[s] /\ written[s] < MaxChunks
    /\ written' = [written EXCEPT ![s] = @ + 1]
    /\ UNCHANGED <<kind, timed, stdin, pc, open, expired, client, reader,
                   queue, sent, shell, helper, holds, taken>>

Closes(p, s) ==
    /\ Running(p) /\ p \in holds[s]
    /\ holds' = [holds EXCEPT ![s] = @ \ {p}]
    /\ UNCHANGED <<kind, timed, stdin, pc, open, expired, client, reader,
                   queue, sent, shell, helper, written, taken>>

\* The shell puts a process into the background, with the streams it has open.
Backgrounds ==
    /\ shell = "running" /\ helper = "none"
    /\ helper' = "running"
    /\ holds' = [s \in Stream |-> IF "shell" \in holds[s]
                                  THEN holds[s] \cup {"helper"} ELSE holds[s]]
    /\ UNCHANGED <<kind, timed, stdin, pc, open, expired, client, reader,
                   queue, sent, shell, written, taken>>

ShellExits ==
    /\ shell = "running"
    /\ shell' = "exited"
    /\ holds' = [s \in Stream |-> holds[s] \ {"shell"}]
    /\ UNCHANGED <<kind, timed, stdin, pc, open, expired, client, reader,
                   queue, sent, helper, written, taken>>

HelperExits ==
    /\ helper = "running"
    /\ helper' = "exited"
    /\ holds' = [s \in Stream |-> holds[s] \ {"helper"}]
    /\ UNCHANGED <<kind, timed, stdin, pc, open, expired, client, reader,
                   queue, sent, shell, written, taken>>

\* The shell has read its stdin to the end, or is gone and the pipe is broken.
\* (communicate writes in the handler's thread.)
StdinWritten ==
    /\ stdin = "writing"
    /\ kind = "run" => pc = "communicate"
    /\ stdin' = "written"
    /\ UNCHANGED <<kind, timed, pc, open, expired, client, reader, queue,
                   sent, childVars, taken>>

\* The client stops reading, for good: a write to it returns as long as there is
\* room in its socket's buffer.  (A client that reads on later is only slow.)
Stalls ==
    /\ client = "reads"
    /\ client' = "stalled"
    /\ UNCHANGED <<kind, timed, stdin, pc, open, expired, reader, queue, sent,
                   childVars, taken>>

Disconnects ==
    /\ client # "gone"
    /\ client' = "gone"
    /\ UNCHANGED <<kind, timed, stdin, pc, open, expired, reader, queue, sent,
                   childVars, taken>>

Expire ==
    /\ timed /\ ~expired /\ pc \notin {"start", "done"}
    /\ expired' = TRUE
    /\ UNCHANGED <<kind, timed, stdin, pc, open, client, reader, queue, sent,
                   childVars, taken>>

\* The request is over.
Rest == pc = "done" /\ UNCHANGED vars

-----------------------------------------------------------------------------
Handler ==
    \/ Launch \/ RunEncodes
    \/ (\E s \in Stream : RunReads(s)) \/ RunCompletes \/ RunTimesOut
    \/ RunTimesOutInWait \/ RunFinally
    \/ StreamFails \/ StartWorkers \/ PumpHead \/ GetEmpty \/ GetEnd \/ GetChunk
    \/ Drain \/ ReapLate \/ Reap \/ Gone

Next ==
    \/ Handler \/ RunFails
    \/ \E s \in Stream : Reader(s)
    \/ \E p \in {"shell", "helper"}, s \in Stream : Writes(p, s) \/ Closes(p, s)
    \/ Backgrounds \/ ShellExits \/ HelperExits \/ StdinWritten
    \/ Stalls \/ Disconnects \/ Expire \/ Rest

Spec == Init /\ [][Next]_vars

\* The handler and the readers are scheduled and time passes; waits of the
\* handler are bounded (_STREAM_POLL, _REAP_TIMEOUT, the budget of the drain),
\* but for its writes: they have no timeout and return only as long as the client
\* reads.  (The 200 of a stream and an early 400 fit into any socket's buffer.)
\* Nothing is assumed of the shell, its background process or the client.
MayBlock ==
    /\ client = "stalled"
    /\ \/ pc \in {"get", "drain"} /\ queue # <<>> /\ Head(queue).n > 0
       \/ pc \in {"finally", "finally_error", "reap", "reap_late"}

FairSpec ==
    /\ Spec
    /\ WF_vars(Handler /\ ~MayBlock) /\ WF_vars(Expire)
    /\ \A s \in Stream : WF_vars(Reader(s))

-----------------------------------------------------------------------------
(* Properties *)

TypeOK ==
    /\ kind \in {"run", "stream"}
    /\ timed \in BOOLEAN
    /\ stdin \in {"none", "given", "unencodable", "writing", "written"}
    /\ pc \in {"start", "encode", "communicate", "finally", "finally_error", "headers",
               "pump", "get", "drain", "reap_late", "reap", "gone", "done"}
    /\ open \in 0..2
    /\ expired \in BOOLEAN
    /\ client \in {"reads", "stalled", "gone"}
    /\ reader \subseteq Stream
    /\ queue \in Seq(Event)
    /\ sent \in Seq(Event)
    /\ shell \in {"none", "running", "exited"}
    /\ helper \in {"none", "running", "exited", "killed"}
    /\ holds \in [Stream -> SUBSET {"shell", "helper"}]
    /\ written \in [Stream -> 0..MaxChunks]
    /\ taken \in [Stream -> 0..MaxChunks]

\* The client gets each stream's chunks in order and without gaps, none that was
\* not written, nothing after the exit event, and an exit code only with all of
\* the output: neither the two readers nor the drain after a kill lose, repeat
\* or reorder a chunk.  (A /run that times out in its wait answers with none.)
Has(q, e) == \E i \in DOMAIN q : q[i] = e

ChunksInOrder ==
    \A i \in DOMAIN sent : sent[i].label \in Stream =>
        /\ sent[i].n \in 1..written[sent[i].label]
        /\ \A j \in 1..(i-1) : sent[j].label = sent[i].label =>
              sent[j].n < sent[i].n
        /\ \A n \in 1..(sent[i].n - 1) : Has(sent, Item(sent[i].label, n))

ExitIsLast == \A i \in DOMAIN sent : sent[i].label \in Exit => i = Len(sent)

ExitCodeAfterAll ==
    Has(sent, Item("exit_code", 0)) =>
        \A s \in Stream : \A n \in 1..written[s] : Has(sent, Item(s, n))

OutputFaithful == ChunksInOrder /\ ExitIsLast /\ ExitCodeAfterAll

\* No path out of a request, not the exceptional ones either, leaves the shell
\* it started running; but for the 400 of RunEncodes, which is outside the try.
NoShellLeft ==
    pc = "done" /\ shell = "running" => kind = "run" /\ stdin = "unencodable"

\* The inductive invariant behind these two.  Before the workers start there is
\* nothing to read (a); a reader that has ended has read everything (b).
Ended(s) == taken[s] = written[s] /\ holds[s] = {}

Phases ==                                                               \* (a)
    /\ pc \in {"start", "encode", "headers"} =>
          sent = <<>> /\ open = 2 /\ \A s \in Stream : taken[s] = 0
    /\ pc \in {"start", "encode", "communicate", "finally", "finally_error",
               "headers"} => reader = {} /\ queue = <<>>
    /\ pc \in {"encode", "communicate", "finally", "finally_error"} =>
          kind = "run"

Working == {"pump", "get", "drain", "reap_late", "reap", "gone"}

ReadersReadAll ==                                                       \* (b)
    /\ \A s \in Stream : taken[s] <= written[s]
    /\ pc \in Working => \A s \in Stream \ reader : Ended(s)

\* What was read of a stream is in the queue or was sent, the older before the
\* newer, and its end is the last of it in the queue (c).
LineInOrder ==                                                          \* (c)
    /\ \A i \in DOMAIN sent : sent[i].label \in Stream =>
          /\ sent[i].n \in 1..taken[sent[i].label]
          /\ \A j \in DOMAIN sent :
                i < j /\ sent[j].label = sent[i].label => sent[i].n < sent[j].n
          /\ \A j \in DOMAIN queue :
                queue[j].label = sent[i].label /\ queue[j].n > 0 =>
                    sent[i].n < queue[j].n
    /\ \A i \in DOMAIN queue :
          /\ queue[i].label \in Stream
          /\ queue[i].n <= taken[queue[i].label]
          /\ queue[i].n = 0 => queue[i].label \notin reader
          /\ \A j \in DOMAIN queue :
                i < j /\ queue[j].label = queue[i].label =>
                    /\ queue[i].n > 0
                    /\ queue[j].n > 0 => queue[i].n < queue[j].n

NothingLost ==
    \/ kind = "run" /\ sent = <<Item("exit_timed_out", 0)>>
    \/ \A s \in Stream : \A n \in 1..taken[s] :
          Has(sent, Item(s, n)) \/ Has(queue, Item(s, n))

\* The loop of _pump_output counts the streams whose end it has not got (d), and
\* leaves when nothing can follow (e).
Awaited(s) == s \in reader \/ Has(queue, Item(s, 0))

OpenCounts ==                                                           \* (d)
    /\ pc \in {"pump", "get"} =>
          /\ \/ open = 2
             \/ open = 1 /\ \E s \in Stream : ~Awaited(s)
          /\ \A s \in Stream : ~Awaited(s) =>
                \A i \in DOMAIN queue : queue[i].label # s
    /\ pc = "drain" => open \in {1, 2}

ExitIsFinal ==                                                          \* (e)
    /\ pc = "reap" => reader = {} /\ queue = <<>>
    /\ \A i \in DOMAIN sent : sent[i].label \in Exit =>
          pc \in {"finally", "done"} /\ i = Len(sent)
    /\ Has(sent, Item("exit_code", 0)) =>
          reader = {} /\ queue = <<>> /\ \A s \in Stream : Ended(s)

\* The shell, by where the handler is (f).
ShellIsKept ==                                                          \* (f)
    /\ pc = "start" => shell = "none"
    /\ pc \in {"drain", "reap_late", "gone"} => shell # "running"

CommandInv == /\ Phases /\ ReadersReadAll /\ LineInOrder /\ NothingLost
              /\ OpenCounts /\ ExitIsFinal /\ ShellIsKept /\ NoShellLeft

\* A request ends unless its client is there and reads no more: at its timeout,
\* whatever the command does (writes for ever, leaves its pipes to a background
\* process, does not read its stdin), and without one when all of the command has
\* ended.  A client that stalls and then goes away does not keep it.
RequestEnds ==
    (timed \/ (shell = "exited" /\ \A s \in Stream : holds[s] = {}))
        ~> (pc = "done" \/ client = "stalled")

\* A request that is killed for its timeout kills what the command put into the
\* background, too.
TimeoutKillsGroup ==
    \A i \in DOMAIN sent :
        pc = "done" /\ sent[i].label = "exit_timed_out" => helper # "running"
=============================================================================
