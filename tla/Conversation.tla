---------------------------- MODULE Conversation ----------------------------
(***************************************************************************)
(* One pooled connection and the tool calls that use it one after another  *)
(* (socket_client.py, SocketServerClient, with the run_one functions of    *)
(* server.py that read on it).                                             *)
(*                                                                         *)
(* Requests and answers carry no identifiers: an answer belongs to a       *)
(* request only by its position in the stream.  The model gives each       *)
(* request a number to see whether the bytes a call accepts as its answer  *)
(* are its answer.  An answer is one item of the stream, reduced to its    *)
(* shape, which is what the readers tell apart.                            *)
(***************************************************************************)
EXTENDS Naturals, Sequences

CONSTANTS
    Tools,        \* the tools agents call
    MaxRequests   \* bound: requests sent before nothing new begins

(***************************************************************************)
(* The requests each tool sends, in order.  socket_listen is one tool for  *)
(* each of its actions: start probes the version once the listener is up,  *)
(* and a fetch of more than its limit has the target save the rest.        *)
(* upgrade_run asks for the version first and tests it.                    *)
(***************************************************************************)
Script ==
    [version           |-> <<"version">>,
     isfile            |-> <<"isfile">>,
     isdir             |-> <<"isdir">>,
     pcap_flow_extract |-> <<"flows">>,
     cmd_exec          |-> <<"cmd">>,
     capture_start     |-> <<"capture_start">>,
     capture_stop      |-> <<"capture_stop">>,
     boce_run          |-> <<"boce">>,
     replay_run        |-> <<"replay">>,
     listen_start      |-> <<"listen", "version">>,
     listen_stop       |-> <<"stop">>,
     listen_clean      |-> <<"clean">>,
     listen_save       |-> <<"save">>,
     listen_fetch      |-> <<"fetch">>,
     listen_fetch_all  |-> <<"fetch", "save">>,
     upgrade_run       |-> <<"precheck", "apply">>]

ASSUME ToolsAssumption == Tools \subseteq DOMAIN Script
ASSUME MaxRequestsAssumption == MaxRequests \in Nat

Kinds == {"version", "isfile", "isdir", "flows", "cmd", "capture_start", "capture_stop", "boce",
          "replay", "listen", "stop", "clean", "save", "fetch", "precheck", "apply"}

(***************************************************************************)
(* The shape of the target's answer to each kind of request: a JSON string *)
(* (14), a JSON object with a key of its own, the bare word ok (172, 173   *)
(* and 175), or a frame: a length of 4 bytes and gzip (1) or JSON (131 and *)
(* 200), or one of 8 bytes and gzip (174).                                 *)
(***************************************************************************)
Objects == {"res", "stopped", "stats", "pid", "done"}
Texts == Objects \cup {"string"}
Frames == {"gzip", "json", "file"}

Shape ==
    [version |-> "string", precheck |-> "string",
     isfile |-> "res", isdir |-> "res", capture_start |-> "res",
     capture_stop |-> "stopped", replay |-> "stats", listen |-> "pid", apply |-> "done",
     stop |-> "bare", clean |-> "bare", save |-> "bare",
     cmd |-> "gzip", flows |-> "json", boce |-> "json", fetch |-> "file"]

VARIABLES
    conn,      \* "pooled", "busy" or "closed"
    call,      \* the tool call under way: its tool and the step it waits in
    sent,      \* how many requests have been sent, the last one's number
    pending,   \* requests the target has not answered, in order
    inbox,     \* answers in the socket's buffer, in order
    own,       \* whether each answer the call accepted was its own
    last       \* the outcome of the last call: its verdict and its own

vars == <<conn, call, sent, pending, inbox, own, last>>

NoCall == [tool |-> "none", step |-> 0]
Verdicts == {"ok", "failed", "raise"}

Init ==
    /\ conn = "pooled"
    /\ call = NoCall
    /\ sent = 0
    /\ pending = <<>>
    /\ inbox = <<>>
    /\ own = TRUE
    /\ last = [verdict |-> "ok", own |-> TRUE]

Kind == Script[call.tool][call.step]
Framed(kind) == Shape[kind] \in Frames

----------------------------------------------------------------------------

Send(kind) ==
    /\ sent' = sent + 1
    /\ pending' = Append(pending, [id |-> sent + 1, kind |-> kind])

\* A tool borrows the connection; a closed one has been replaced by a fresh one.
Begin(tool) ==
    /\ conn # "busy"
    /\ sent < MaxRequests
    /\ conn' = "busy"
    /\ call' = [tool |-> tool, step |-> 1]
    /\ Send(Script[tool][1])
    /\ own' = TRUE
    /\ UNCHANGED <<inbox, last>>

\* The target answers its requests in order, at its own pace.
TargetAnswers ==
    /\ pending # <<>>
    /\ inbox' = Append(inbox, Head(pending))
    /\ pending' = Tail(pending)
    /\ UNCHANGED <<conn, call, sent, own, last>>

\* The shapes that the reader for a kind of request takes for a success, and those
\* that it takes for a failure which the target reports.
Successes(kind) ==
    {Shape[kind]} \cup
    (CASE kind \in {"isfile", "isdir"} -> Objects
       [] kind \in {"version", "replay"} -> Texts
       [] kind = "capture_stop" -> {"res"}
       [] OTHER -> {})

Failures(kind) ==
    CASE kind = "capture_start" -> Objects
      [] kind \in {"capture_stop", "precheck", "apply"} -> Texts
      [] OTHER -> {}

\* It may always raise: the answer reports an error that the client raises, is of
\* another shape, or comes in pieces with too long a pause between them.
Accepts(kind, shape) ==
    {"raise"} \cup (IF shape \in Successes(kind) THEN {"ok"} ELSE {})
              \cup (IF shape \in Failures(kind) THEN {"failed"} ELSE {})

\* The call ends with a verdict: a healthy connection goes back to the pool
\* with whatever is still under way on it, one on which the call raised, and
\* the one upgrade_run closes, are gone with all of it.
Finish(verdict, wasOwn, leftPending, leftInbox) ==
    LET gone == verdict = "raise" \/ (call.tool = "upgrade_run" /\ verdict = "ok") IN
    /\ conn' = IF gone THEN "closed" ELSE "pooled"
    /\ pending' = IF gone THEN <<>> ELSE leftPending
    /\ inbox' = IF gone THEN <<>> ELSE leftInbox
    /\ call' = NoCall
    /\ own' = TRUE
    /\ last' = [verdict |-> verdict, own |-> wasOwn]
    /\ UNCHANGED sent

\* The version probe of socket_listen start: whatever becomes of it, the
\* exception is swallowed and the call succeeds.
IsProbe == call.tool = "listen_start" /\ call.step = 2

\* One read has produced a verdict.  The call ends unless it goes on with the
\* next request of its script.  (Faulty variants: it goes on though the read
\* raised; it gives the connection back before it goes on.)
AfterReadTolerant(verdict, mine, leftInbox) ==
    IF verdict # "failed" /\ call.step < Len(Script[call.tool])
    THEN /\ call' = [call EXCEPT !.step = @ + 1]
         /\ Send(Script[call.tool][call.step + 1])
         /\ own' = (own /\ mine)
         /\ inbox' = leftInbox
         /\ UNCHANGED <<conn, last>>
    ELSE Finish(verdict, own /\ mine, pending, leftInbox)

AfterReadReleasing(verdict, mine, leftInbox) ==
    IF verdict = "ok" /\ call.step < Len(Script[call.tool])
    THEN /\ call' = [call EXCEPT !.step = @ + 1]
         /\ Send(Script[call.tool][call.step + 1])
         /\ own' = (own /\ mine)
         /\ inbox' = leftInbox
         /\ conn' = "pooled"
         /\ UNCHANGED last
    ELSE Finish(verdict, own /\ mine, pending, leftInbox)

AfterRead(verdict, mine, leftInbox) ==
    IF IsProbe
    THEN Finish("ok", own, pending, leftInbox)
    ELSE IF verdict = "ok" /\ call.step < Len(Script[call.tool])
    THEN /\ call' = [call EXCEPT !.step = @ + 1]
         /\ Send(Script[call.tool][call.step + 1])
         /\ own' = (own /\ mine)
         /\ inbox' = leftInbox
         /\ UNCHANGED <<conn, last>>
    ELSE Finish(verdict, own /\ mine, pending, leftInbox)

\* _recv_until_timeout takes everything that arrives until the line is quiet;
\* two answers together do not parse.  _recv_n takes a frame's bytes exactly.
Read ==
    /\ conn = "busy" /\ inbox # <<>>
    /\ LET answer == Head(inbox) IN
       IF Len(inbox) > 1 /\ ~(Framed(Kind) /\ Framed(answer.kind))
       THEN AfterRead("raise", FALSE, <<>>)
       ELSE \E verdict \in Accepts(Kind, Shape[answer.kind]) :
              AfterRead(verdict, answer.id = sent, Tail(inbox))

\* Nothing arrived within the client's timeout: recv raises, or an empty
\* string is read, which is no JSON and not ok either.
\* (Faulty variant: a read that timed out counts as a failure of the target.)
ReadNothingFailed ==
    /\ conn = "busy" /\ inbox = <<>>
    /\ AfterRead("failed", TRUE, <<>>)

ReadNothing ==
    /\ conn = "busy" /\ inbox = <<>>
    /\ AfterRead("raise", FALSE, <<>>)

Next ==
    \/ \E tool \in Tools : Begin(tool)
    \/ TargetAnswers
    \/ Read
    \/ ReadNothing

Spec == Init /\ [][Next]_vars

----------------------------------------------------------------------------
(* Properties                                                              *)

Requests == [id : 1 .. sent, kind : Kinds]

\* Every variable has its type, and a call under way waits in one of its steps.
TypeOK ==
    /\ conn \in {"pooled", "busy", "closed"}
    /\ IF conn = "busy"
       THEN call.tool \in Tools /\ call.step \in DOMAIN Script[call.tool]
       ELSE call = NoCall
    /\ sent \in Nat
    /\ pending \in Seq(Requests) /\ inbox \in Seq(Requests)
    /\ own \in BOOLEAN
    /\ last \in [verdict : Verdicts, own : BOOLEAN]

\* A connection that goes back to the pool carries nothing of the call that
\* used it: neither a request the target still works on nor an unread answer.
PooledInSync == conn = "pooled" => pending = <<>> /\ inbox = <<>>

\* A call that reports success read the answers to its own requests
\* (design 13: a timeout and a protocol error are failures).
OkIsOwnAnswer == last.verdict = "ok" => last.own

============================================================================
