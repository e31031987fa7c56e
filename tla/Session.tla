------------------------------- MODULE Session -------------------------------
(***************************************************************************)
(* One connection between a client process and the server: the client      *)
(* library of api.c at one end, what a worker reads and answers at the     *)
(* other, and two streams that know no message boundaries.  The library    *)
(* decides what to read next from what it read before; so does the worker. *)
(*                                                                         *)
(* The store behind the worker is not here: whether a file exists, is      *)
(* busy, has room or is removed meanwhile is a free choice, made at the    *)
(* step at which the worker finds out.                                     *)
(*                                                                         *)
(* A definition whose name ends in a capitalised remark is a faulty        *)
(* variant of the definition that follows it; no action uses it.           *)
(***************************************************************************)
EXTENDS Integers, SequencesExt

CONSTANTS
  MaxFiles,  \* bound on the files sent in one answer
  MaxSize,   \* bound on the bytes of a file and of a payload
  MaxLeft,   \* bound on what a client that is out of step leaves unread
  NULL

(* A result has 24 bits for the number of files.                           *)
ASSUME BoundsAssumption ==
  /\ MaxFiles \in Nat /\ MaxSize \in Nat /\ MaxLeft \in Nat
  /\ MaxFiles < 2^24

VARIABLES
  \* the client process
  pc,       \* where it is
  link,     \* its end of the connection: "none", "open", "closed"
  call,     \* the call in progress: operation (or NULL), dirname # NULL, size
  rest,     \* of the answer: files to read, result >> 24, length to read next
  outcome,  \* of the latest call: "ok", "error", NULL; argument of setErrno
  late,     \* abstime has passed
  \* the server
  serving,  \* the process: "starting", "up", "down"
  spc,      \* what it does with this connection
  req,      \* the request it serves: operation, dir flag, size of the payload
  \* the two streams
  up, down,
  \* history
  done,     \* how often the server has carried out the latest call
  odd       \* the rare events of this connection

client == <<pc, link, call, rest, outcome, late>>
server == <<serving, spc, req>>
vars == <<client, server, up, down, done, odd>>

(* enum servErrorRet *)
Code == [NORET |-> 0, SUCCESS |-> 1, NO_SUCH_FILE_F |-> 6, SERVER_FULL |-> 9,
         NO_MEMORY |-> 10, FILE_ALREADY_OPEN |-> 11, FILE_NOT_OPEN |-> 12,
         NO_SUCH_FILE |-> 13, UNKNOWN_ERROR |-> 14, FILE_ALREADY_EXISTS |-> 15]

(* setErrno returns -1: the error is fatal *)
Fatal(c) == c \notin {Code.SUCCESS} \cup 10..15

Uploads == {"WRITE", "APPEND"}
Ops == {"OPEN", "LOCK", "UNLOCK", "CLOSE", "REMOVE", "READ", "READ_N"}
       \cup Uploads
ASSUME NullAssumption == NULL \notin Ops

(* What is in a stream: the first word of a request, other ints, names and *)
(* contents.  A result is an int whose high byte may hold the code.        *)
Shift == 2^24
Word(o, d) == [kind |-> "word", op |-> o, dir |-> d]
Number(n) == [kind |-> "int", val |-> n]
Name == [kind |-> "name"]
Data(n) == IF n = 0 THEN <<>> ELSE <<[kind |-> "data", val |-> n]>>
File(n) == <<Number(1), Name, Number(n)>> \o Data(n)
Sizes == 0..MaxSize
SomeFiles == UNION {[1..k -> Sizes] : k \in 0..MaxFiles}
Sent(sizes) == FlattenSeq([i \in DOMAIN sizes |-> File(sizes[i])])

Reading == {"result", "size", "data", "chdir", "fnameLen", "fname", "fdim", "fdata"}
Serving == {"name", "find", "run", "size", "data", "store", "drain"}

(* Each variable has its type; a number of files fits in 24 bits. *)
TypeOK ==
  /\ pc \in Reading \cup {"idle", "connect", "send", "payload", "gone", "astray"}
  /\ link \in {"none", "open", "closed"}
  /\ call \in [op: Ops \cup {"CONNECT", NULL}, dir: BOOLEAN, size: Sizes]
  /\ rest \in [files: 0..(Shift - 1), verdict: 0..15, len: Sizes]
  /\ outcome.ret \in {"ok", "error", NULL}
  /\ outcome.code = NULL \/ outcome.code \in Nat
  /\ late \in BOOLEAN /\ done \in Nat
  /\ serving \in {"starting", "up", "down"}
  /\ spc \in Serving \cup {"none", "backlog", "listen", "parked", "dropped",
                           "closing", "closed"}
  /\ req \in [op: Ops \cup {NULL}, dir: BOOLEAN, size: Sizes]
  /\ \A i \in DOMAIN up : up[i].kind \in {"word", "int", "name", "data"}
  /\ \A i \in DOMAIN down : down[i].kind \in {"int", "name", "data"}
  /\ odd \subseteq {"slip", "refused", "drained", "dropped"}

NoCall == [op |-> NULL, dir |-> FALSE, size |-> 0]
NoRest == [files |-> 0, verdict |-> 0, len |-> 0]
Init ==
  /\ pc = "idle" /\ link = "none" /\ late = FALSE
  /\ call = NoCall /\ rest = NoRest /\ outcome = [ret |-> NULL, code |-> NULL]
  /\ serving = "starting" /\ spc = "none" /\ req = NoCall
  /\ up = <<>> /\ down = <<>> /\ done = 0 /\ odd = {}

-----------------------------------------------------------------------------
(* The client: calls of the library *)

Begin(o, d, n, l) ==
  /\ pc = "idle" /\ pc' = l
  /\ call' = [op |-> o, dir |-> d, size |-> n]
  /\ outcome' = [ret |-> NULL, code |-> NULL]

(* 0, or -1 with an errno that stands for c *)
Return(r, c) ==
  /\ pc' = "idle"
  /\ call' = NoCall /\ rest' = NoRest
  /\ outcome' = [ret |-> r, code |-> c]
Verdict_AnyReply(c) == Return(IF c = Code.NORET THEN "error" ELSE "ok", c)
Verdict(c) == Return(IF c = Code.SUCCESS THEN "ok" ELSE "error", c)

openConnection ==
  /\ link # "open"
  /\ Begin("CONNECT", FALSE, 0, "connect")
  /\ late' = FALSE
  /\ UNCHANGED <<link, rest, server, up, down, done, odd>>

(* connect succeeds: the streams are those of a new connection *)
Connect ==
  /\ pc = "connect" /\ serving = "up"
  /\ Return(NULL, NULL)
  /\ link' = "open" /\ spc' = "backlog" /\ up' = <<>> /\ down' = <<>>
  /\ req' = NoCall /\ done' = 0 /\ odd' = {}
  /\ UNCHANGED <<late, serving>>
(* ENOENT, ECONNREFUSED: it is tried again until abstime *)
ConnectFails ==
  /\ pc = "connect" /\ serving # "up"
  /\ late /\ Return(NULL, NULL)
  /\ UNCHANGED <<link, late, server, up, down, done, odd>>
Clock ==
  /\ pc = "connect" /\ ~late /\ late' = TRUE
  /\ UNCHANGED <<pc, link, call, rest, outcome, server, up, down, done, odd>>

closeConnection ==
  /\ pc = "idle" /\ link = "open"
  /\ link' = "closed"
  /\ outcome' = [ret |-> NULL, code |-> NULL]
  /\ UNCHANGED <<pc, call, rest, late, server, up, down, done, odd>>

(* The other calls.  What a client that is out of step may leave in the    *)
(* streams is bounded here.                                                *)
Ask(o, d, n) ==
  /\ link = "open"
  /\ "slip" \in odd => up = <<>> /\ Len(down) <= MaxLeft
  /\ d => o \in Uploads \cup {"READ_N"}
  /\ o = "READ_N" => d
  /\ n > 0 => o \in Uploads
  /\ o = "APPEND" => n > 0
  /\ Begin(o, d, n, "send")
  /\ done' = 0
  /\ UNCHANGED <<link, rest, late, server, up, down, odd>>

(* writen to a connection the server has closed: SIGPIPE ends the process *)
Send(l, tokens, next) ==
  /\ pc = l
  /\ IF spc = "closed"
     THEN pc' = "gone" /\ link' = "closed" /\ UNCHANGED up
     ELSE pc' = next /\ up' = up \o tokens /\ UNCHANGED link
  /\ UNCHANGED <<call, rest, outcome, late, server, down, done, odd>>
SendRequest ==
  Send("send", <<Word(call.op, call.dir)>> \o
               (IF call.op = "READ_N" THEN <<>> ELSE <<Name>>),
       IF call.op \in Uploads THEN "payload" ELSE "result")
SendPayload ==
  Send("payload", <<Number(call.size)>> \o Data(call.size), "result")

(* What readn finds is what it was called for, or something else (the      *)
(* model stops there), or the end                                          *)
Fits(t) ==
  CASE pc = "fname"             -> t.kind = "name"
    [] pc \in {"data", "fdata"} -> t.kind = "data" /\ t.val = rest.len
    [] OTHER                    -> t.kind = "int"
Read(l) ==
  /\ pc = l /\ down # <<>> /\ Fits(Head(down))
  /\ down' = Tail(down)
  /\ UNCHANGED <<link, late, server, up, done, odd>>
Astray ==
  /\ pc \in Reading \ {"chdir"} /\ down # <<>> /\ ~Fits(Head(down))
  /\ pc' = "astray"
  /\ UNCHANGED <<link, call, rest, outcome, late, server, up, down, done, odd>>
ReadEOF ==
  /\ pc \in Reading \ {"chdir"} /\ down = <<>> /\ spc = "closed"
  /\ Return("error", NULL)
  /\ UNCHANGED <<link, late, server, up, down, done, odd>>

Goto(l) == pc' = l /\ UNCHANGED <<call, outcome>>

(* saveExFile reads the files that the result announces, the caller then   *)
(* looks at the code *)
SaveFiles(n, c) ==
  IF n = 0
  THEN Verdict(c)
  ELSE Goto("chdir") /\ rest' = [rest EXCEPT !.files = n, !.verdict = c]

nFile_Unmasked(r) == r
nFile(r) == r % Shift

GetResult ==
  /\ Read("result")
  /\ LET r == Head(down).val IN
     CASE call.op \in Uploads ->
            SaveFiles(IF call.dir THEN nFile(r) ELSE 0, r \div Shift)
       [] call.op = "READ_N" ->
            SaveFiles(IF r \div Shift = Code.SUCCESS THEN nFile(r) ELSE 0,
                      r \div Shift)
       [] call.op = "READ" /\ r = Code.SUCCESS ->
            Goto("size") /\ UNCHANGED rest
       [] OTHER -> Verdict(r)

(* The length that comes before the contents *)
Length(l, next, none) ==
  /\ Read(l)
  /\ LET n == Head(down).val IN
     IF n = 0 THEN none
     ELSE Goto(next) /\ rest' = [rest EXCEPT !.len = n]

(* readFile *)
GetSize == Length("size", "data", Verdict(Code.SUCCESS))
GetData ==
  Read("data") /\ Verdict(Code.SUCCESS)

(* saveExFile, one file after the other *)
NextFile ==
  IF rest.files = 1
  THEN Verdict(rest.verdict)
  ELSE /\ Goto("fnameLen")
       /\ rest' = [rest EXCEPT !.files = @ - 1, !.len = 0]
ChangeDir ==
  /\ pc = "chdir" /\ Goto("fnameLen")
  /\ UNCHANGED <<link, rest, late, server, up, down, done, odd>>
GetNameLen == Read("fnameLen") /\ Goto("fname") /\ UNCHANGED rest
GetName == Read("fname") /\ Goto("fdim") /\ UNCHANGED rest
GetDim == Length("fdim", "fdata", NextFile)
GetContents ==
  Read("fdata") /\ NextFile

(* chdir, mkdir or malloc fails: -1, what is left of the answer is unread *)
Slip ==
  /\ pc \in {"chdir", "fname", "fdata", "data"} /\ "slip" \notin odd
  /\ Return("error", NULL)
  /\ odd' = odd \cup {"slip"}
  /\ UNCHANGED <<link, late, server, up, down, done>>

(* The process ends, at any time *)
Die ==
  /\ pc # "gone" /\ pc' = "gone" /\ link' = "closed"
  /\ UNCHANGED <<call, rest, outcome, late, server, up, down, done, odd>>

InCall ==
  \/ Connect \/ ConnectFails \/ SendRequest \/ SendPayload
  \/ GetResult \/ GetSize \/ GetData \/ ChangeDir \/ GetNameLen \/ GetName
  \/ GetDim \/ GetContents \/ Astray \/ ReadEOF \/ Slip
Client ==
  \/ openConnection \/ closeConnection \/ Clock \/ InCall \/ Die
  \/ \E o \in Ops, d \in BOOLEAN, n \in Sizes : Ask(o, d, n)

-----------------------------------------------------------------------------
(* The server *)

At(l, next) == spc = l /\ spc' = next /\ UNCHANGED <<client, serving>>

Start ==
  /\ serving = "starting" /\ serving' = "up"
  /\ UNCHANGED <<client, spc, req, up, down, done, odd>>

(* The process ends; collectThreads lets the workers finish first *)
Stop ==
  /\ serving = "up" /\ serving' = "down"
  /\ spc \notin Serving
  /\ spc' = IF spc = "none" THEN "none" ELSE "closed"
  /\ UNCHANGED <<client, req, up, down, done, odd>>

Accept == At("backlog", "listen") /\ UNCHANGED <<req, up, down, done, odd>>
(* The descriptor is too high for select *)
Refuse ==
  /\ At("backlog", "closed")
  /\ down' = Append(down, Number(Code.SERVER_FULL))
  /\ UNCHANGED <<req, up, done, odd>>

(* A worker's readn *)
Receive(l, kind) ==
  /\ spc = l /\ up # <<>> /\ Head(up).kind = kind
  /\ up' = Tail(up)
  /\ UNCHANGED <<client, serving, down, done, odd>>
Hangup_AtNextRequest ==
  /\ spc = "listen" /\ up = <<>> /\ link = "closed"
  /\ At(spc, "closing")
  /\ UNCHANGED <<req, up, down, done, odd>>
Hangup ==
  /\ spc \in {"listen", "name", "size", "data", "drain"}
  /\ up = <<>> /\ link = "closed"
  /\ At(spc, "closing")
  /\ UNCHANGED <<req, up, down, done, odd>>

GetRequest ==
  /\ Receive("listen", "word")
  /\ spc' = IF Head(up).op = "READ_N" THEN "run" ELSE "name"
  /\ req' = [op |-> Head(up).op, dir |-> Head(up).dir, size |-> 0]
GetFileName ==
  Receive("name", "name") /\ spc' = "find" /\ UNCHANGED req

(* writen fails when the client is gone; otherwise the socket is listened  *)
(* to again (sendClientResult, sendClientError), or closed all the same    *)
(* (sendClientFatalError).                                                 *)
Answer(l, tokens, next) ==
  /\ IF link = "open"
     THEN At(l, next) /\ down' = down \o tokens
     ELSE At(l, "closing") /\ UNCHANGED down
  /\ UNCHANGED <<req, up>>
sendClientResult(l, tokens) == Answer(l, tokens, "listen")
sendClientError_NotListening(l, r) == Answer(l, <<Number(r)>>, "dropped")
sendClientError(l, r) == Answer(l, <<Number(r)>>, "listen")
sendClientFatalError_Listening(l, r) == Answer(l, <<Number(r)>>, "listen")
sendClientFatalError(l, r) == Answer(l, <<Number(r)>>, "closing")

Succeeds == done' = done + 1 /\ UNCHANGED odd
Fails == UNCHANGED <<done, odd>>

(* manageRequest: the file is there (and perhaps busy), or it is not *)
Absent ==
  /\ CASE req.op = "OPEN" -> FALSE
       [] req.op \in {"LOCK", "UNLOCK"} ->
            sendClientError("find", Code.NO_SUCH_FILE)
       [] req.op \in {"READ", "CLOSE", "REMOVE"} ->
            sendClientFatalError("find", Code.NO_SUCH_FILE_F)
       [] OTHER ->
            sendClientFatalError("find", Code.NO_SUCH_FILE_F * Shift)
  /\ Fails
Present == At("find", "run") /\ UNCHANGED <<req, up, down, done, odd>>
Park == At("find", "parked") /\ UNCHANGED <<req, up, down, done, odd>>
NextRequest == At("parked", "run") /\ UNCHANGED <<req, up, down, done, odd>>

(* The operations without a payload *)
Refusals ==
  CASE req.op = "OPEN"   -> {Code.FILE_ALREADY_EXISTS, Code.NO_SUCH_FILE,
                             Code.NO_MEMORY, Code.UNKNOWN_ERROR}
    [] req.op = "REMOVE" -> {Code.FILE_NOT_OPEN, Code.UNKNOWN_ERROR}
    [] req.op = "READ_N" -> {}
    [] OTHER             -> {Code.FILE_NOT_OPEN}
Results ==
  CASE req.op = "READ" -> {<<Number(Code.SUCCESS), Number(n)>> \o Data(n) : n \in Sizes}
    [] req.op = "READ_N" ->
         {<<Number(Code.SUCCESS * Shift + Len(s))>> \o Sent(s) : s \in SomeFiles}
    [] OTHER -> {<<Number(Code.SUCCESS)>>}
Run ==
  /\ req.op \notin Uploads
  /\ \/ (\E t \in Results : sendClientResult("run", t)) /\ Succeeds
     \/ (\E r \in Refusals : sendClientError("run", r)) /\ Fails

(* writeFileW and appendToFileW read the payload first *)
RunUpload ==
  /\ req.op \in Uploads
  /\ At("run", "size") /\ UNCHANGED <<req, up, down, done, odd>>
ReceiveSize ==
  /\ Receive("size", "int")
  /\ spc' = IF Head(up).val > 0 THEN "data" ELSE "store"
  /\ req' = [req EXCEPT !.size = Head(up).val]
ReceiveData ==
  /\ Receive("data", "data") /\ Head(up).val = req.size
  /\ spc' = "store" /\ UNCHANGED req

(* The expelled files are sent only to a client that keeps them *)
Expelled_Always(sizes) ==
  <<Number(Code.SUCCESS * Shift + Len(sizes))>> \o Sent(sizes)
Expelled(sizes) ==
  <<Number(Code.SUCCESS * Shift + Len(sizes))>>
  \o (IF req.dir THEN Sent(sizes) ELSE <<>>)
Store ==
  \/ (\E s \in SomeFiles : sendClientResult("store", Expelled(s))) /\ Succeeds
  \/ /\ \E c \in {Code.FILE_NOT_OPEN, Code.NO_MEMORY} :
          sendClientError("store", c * Shift)
     /\ Fails
(* writeFileW of a file that is not new: the code is not shifted *)
RefuseWrite ==
  /\ req.op = "WRITE"
  /\ sendClientError("store", Code.FILE_ALREADY_OPEN)
  /\ odd' = odd \cup {"refused"} /\ UNCHANGED done

(* informClientDelete: the file goes while the request is in its queue *)
FileRemoved ==
  \/ /\ req.op \in {"REMOVE", "CLOSE"} /\ Succeeds
     /\ sendClientResult("parked", <<Number(Code.SUCCESS)>>)
  \/ /\ req.op \in {"OPEN", "READ", "LOCK", "UNLOCK"} /\ Fails
     /\ sendClientError("parked", Code.NO_SUCH_FILE)
  \/ /\ req.op = "WRITE" /\ odd' = odd \cup {"dropped"}
     /\ At("parked", "dropped") /\ UNCHANGED <<req, up, down, done>>
  \/ /\ req.op = "APPEND" /\ odd' = odd \cup {"drained"}
     /\ At("parked", "drain") /\ UNCHANGED <<req, up, down, done>>
(* It waits for one byte more than the client sends, until the client goes *)
Overdrain ==
  /\ spc = "drain" /\ up # <<>> /\ link = "closed"
  /\ At("drain", "closing") /\ up' = <<>>
  /\ UNCHANGED <<req, down, done, odd>>

(* The dispatcher closes the descriptor *)
Close == At("closing", "closed") /\ UNCHANGED <<req, up, down, done, odd>>

Worker ==
  \/ GetRequest \/ GetFileName \/ Hangup
  \/ Absent \/ Present \/ Park \/ Run \/ RunUpload
  \/ ReceiveSize \/ ReceiveData \/ Store \/ RefuseWrite \/ Overdrain
Server ==
  Accept \/ Refuse \/ Worker \/ NextRequest \/ FileRemoved \/ Close

Next == Client \/ Server \/ Start \/ Stop

Spec == Init /\ [][Next]_vars

(* A call in progress goes on and its clock too; the server takes every    *)
(* step it can.  Clients call when they like; that a parked request is     *)
(* taken up again is not assumed.                                          *)
FairSpec ==
  Spec /\ WF_vars(InCall) /\ WF_vars(Clock)
  /\ WF_vars(Accept \/ Refuse \/ Worker \/ Close)

-----------------------------------------------------------------------------
(* Properties *)

(* Neither end ever takes one thing for another, and when no call is in    *)
(* progress both streams are empty and the worker waits for a request:     *)
(* every answer is read to its end, every payload is consumed.  Only       *)
(* saveExFile and readFile, when they fail locally, leave part of it.      *)
Wanted(t) ==
  CASE spc = "listen"            -> t.kind = "word"
    [] spc = "name"              -> t.kind = "name"
    [] spc \in {"size", "drain"} -> t.kind = "int"
    [] spc = "data"              -> t.kind = "data" /\ t.val = req.size
    [] OTHER                     -> TRUE
InStep ==
  /\ up # <<>> => Wanted(Head(up))
  /\ "slip" \notin odd =>
       /\ pc # "astray"
       /\ pc = "idle" /\ link = "open" /\ spc \notin {"closing", "closed"} =>
            up = <<>> /\ down = <<>> /\ spc \in {"backlog", "listen"}

(* The errors that setErrno calls fatal are those after which the server   *)
(* closes the connection, and no other ends it: a client can tell whether  *)
(* it may go on.  Not so for a refused writeFile, whose code is not        *)
(* shifted: the library takes it for NORET.                                *)
FatalCloses ==
  pc = "idle" /\ outcome.code # NULL /\ odd \cap {"slip", "refused"} = {} =>
    IF Fatal(outcome.code)
    THEN spc \in {"closing", "closed"}
    ELSE spc # "closing" /\ (spc = "closed" => serving = "down")

(* What api.h promises of the calls.  *)
Call == INSTANCE RemoteCall WITH
  asked    <- IF call.op = "CONNECT" THEN NULL ELSE call.op,
  together <- /\ link = "open" /\ "slip" \notin odd
              /\ spc \notin {"closing", "closed"},
  ret      <- outcome.ret
ImplementsCall == Call!Spec

(* Every call returns (or SIGPIPE ends the process), if no request is left *)
(* in the queue of a file for ever.  Three cases are excepted, in which it *)
(* does not: a writeFile with a dirname that is refused (it waits for      *)
(* eleven files), a WRITE or an APPEND in the queue of a file that is      *)
(* removed, and a client that is out of step.                              *)
Served == []<>(spc # "parked")
CallReturns ==
  Served /\ [](odd = {}) => (call.op # NULL ~> pc \in {"idle", "gone"})

(* When the client process is gone, however far its call was, the server   *)
(* closes the connection, unless it has lost the request.                  *)
ConnectionEnds ==
  Served /\ []("dropped" \notin odd) => (pc = "gone" ~> spc \in {"none", "closed"})
=============================================================================
