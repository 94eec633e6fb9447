------------------------ MODULE Conversation_proofs ------------------------
(***************************************************************************)
(* A pooled connection stays in step with its target, for any number of    *)
(* requests, as long as no tool swallows an exception of its last read.    *)
(***************************************************************************)
EXTENDS Conversation, SequenceTheorems, TLAPS

\* Every tool but socket_listen start raises what its reads raise.
NoProbe == "listen_start" \notin Tools

\* Every step of a script sends a request of a known kind.
LEMMA ScriptSteps ==
    ASSUME NEW tool \in DOMAIN Script
    PROVE  /\ Script[tool] \in Seq(Kinds)
           /\ 1 \in DOMAIN Script[tool]
<1>1. \/ \E k \in Kinds : Script[tool] = <<k>>
      \/ \E k, l \in Kinds : Script[tool] = <<k, l>>
  <2>1. CASE tool = "version"
    <3>1. Script[tool] = <<"version">>
      BY <2>1 DEF Script
    <3>2. "version" \in Kinds
      BY DEF Kinds
    <3>. QED  BY <3>1, <3>2
  <2>2. CASE tool = "isfile"
    <3>1. Script[tool] = <<"isfile">>
      BY <2>2 DEF Script
    <3>2. "isfile" \in Kinds
      BY DEF Kinds
    <3>. QED  BY <3>1, <3>2
  <2>3. CASE tool = "isdir"
    <3>1. Script[tool] = <<"isdir">>
      BY <2>3 DEF Script
    <3>2. "isdir" \in Kinds
      BY DEF Kinds
    <3>. QED  BY <3>1, <3>2
  <2>4. CASE tool = "pcap_flow_extract"
    <3>1. Script[tool] = <<"flows">>
      BY <2>4 DEF Script
    <3>2. "flows" \in Kinds
      BY DEF Kinds
    <3>. QED  BY <3>1, <3>2
  <2>5. CASE tool = "cmd_exec"
    <3>1. Script[tool] = <<"cmd">>
      BY <2>5 DEF Script
    <3>2. "cmd" \in Kinds
      BY DEF Kinds
    <3>. QED  BY <3>1, <3>2
  <2>6. CASE tool = "capture_start"
    <3>1. Script[tool] = <<"capture_start">>
      BY <2>6 DEF Script
    <3>2. "capture_start" \in Kinds
      BY DEF Kinds
    <3>. QED  BY <3>1, <3>2
  <2>7. CASE tool = "capture_stop"
    <3>1. Script[tool] = <<"capture_stop">>
      BY <2>7 DEF Script
    <3>2. "capture_stop" \in Kinds
      BY DEF Kinds
    <3>. QED  BY <3>1, <3>2
  <2>8. CASE tool = "boce_run"
    <3>1. Script[tool] = <<"boce">>
      BY <2>8 DEF Script
    <3>2. "boce" \in Kinds
      BY DEF Kinds
    <3>. QED  BY <3>1, <3>2
  <2>9. CASE tool = "replay_run"
    <3>1. Script[tool] = <<"replay">>
      BY <2>9 DEF Script
    <3>2. "replay" \in Kinds
      BY DEF Kinds
    <3>. QED  BY <3>1, <3>2
  <2>10. CASE tool = "listen_start"
    <3>1. Script[tool] = <<"listen", "version">>
      BY <2>10 DEF Script
    <3>2. "listen" \in Kinds /\ "version" \in Kinds
      BY DEF Kinds
    <3>. QED  BY <3>1, <3>2
  <2>11. CASE tool = "listen_stop"
    <3>1. Script[tool] = <<"stop">>
      BY <2>11 DEF Script
    <3>2. "stop" \in Kinds
      BY DEF Kinds
    <3>. QED  BY <3>1, <3>2
  <2>12. CASE tool = "listen_clean"
    <3>1. Script[tool] = <<"clean">>
      BY <2>12 DEF Script
    <3>2. "clean" \in Kinds
      BY DEF Kinds
    <3>. QED  BY <3>1, <3>2
  <2>13. CASE tool = "listen_save"
    <3>1. Script[tool] = <<"save">>
      BY <2>13 DEF Script
    <3>2. "save" \in Kinds
      BY DEF Kinds
    <3>. QED  BY <3>1, <3>2
  <2>14. CASE tool = "listen_fetch"
    <3>1. Script[tool] = <<"fetch">>
      BY <2>14 DEF Script
    <3>2. "fetch" \in Kinds
      BY DEF Kinds
    <3>. QED  BY <3>1, <3>2
  <2>15. CASE tool = "listen_fetch_all"
    <3>1. Script[tool] = <<"fetch", "save">>
      BY <2>15 DEF Script
    <3>2. "fetch" \in Kinds /\ "save" \in Kinds
      BY DEF Kinds
    <3>. QED  BY <3>1, <3>2
  <2>16. CASE tool = "upgrade_run"
    <3>1. Script[tool] = <<"precheck", "apply">>
      BY <2>16 DEF Script
    <3>2. "precheck" \in Kinds /\ "apply" \in Kinds
      BY DEF Kinds
    <3>. QED  BY <3>1, <3>2
  <2>17. tool \in {"version", "isfile", "isdir", "pcap_flow_extract", "cmd_exec",
               "capture_start", "capture_stop", "boce_run", "replay_run", "listen_start",
               "listen_stop", "listen_clean", "listen_save", "listen_fetch",
               "listen_fetch_all", "upgrade_run"}
    BY DEF Script
  <2>. QED  BY <2>1, <2>2, <2>3, <2>4, <2>5, <2>6, <2>7, <2>8, <2>9, <2>10, <2>11, <2>12,
               <2>13, <2>14, <2>15, <2>16, <2>17
<1>2. CASE \E k \in Kinds : Script[tool] = <<k>>
  BY <1>2
<1>3. CASE \E k, l \in Kinds : Script[tool] = <<k, l>>
  BY <1>3
<1>. QED  BY <1>1, <1>2, <1>3

\* The request of the step the call waits in, the last one sent.
Current == [id |-> sent, kind |-> Kind]

\* While a call is under way exactly one request is open, the current one: the
\* target still has it, or its answer lies unread.  Otherwise there is none.
\* What the call has read so far was its own.
InStep ==
    /\ conn = "busy" => \/ pending = <<Current>> /\ inbox = <<>>
                        \/ pending = <<>> /\ inbox = <<Current>>
    /\ conn = "busy" => sent > 0
    /\ conn # "busy" => pending = <<>> /\ inbox = <<>>
    /\ own = TRUE
    /\ last.verdict = "ok" => last.own

IInv ==
    /\ conn \in {"pooled", "busy", "closed"}
    /\ IF conn = "busy"
       THEN call.tool \in Tools /\ call.step \in DOMAIN Script[call.tool]
       ELSE call = NoCall
    /\ call \in [tool : Tools \cup {"none"}, step : Nat]
    /\ sent \in Nat
    /\ last \in [verdict : Verdicts, own : BOOLEAN]
    /\ InStep

\* The current request has a type.
LEMMA CurrentType ==
    ASSUME IInv, conn = "busy"
    PROVE  /\ Current \in [id : Nat, kind : Kinds]
           /\ Current.id = sent
           /\ Script[call.tool] \in Seq(Kinds)
           /\ Current \in Requests
<1>1. call.tool \in DOMAIN Script /\ call.step \in DOMAIN Script[call.tool]
  BY ToolsAssumption DEF IInv
<1>2. Script[call.tool] \in Seq(Kinds) /\ Kind \in Kinds
  BY <1>1, ScriptSteps, ElementOfSeq DEF Kind
<1>. QED  BY <1>2 DEF Current, Requests, IInv, InStep

\* Nothing is open initially.
LEMMA InitIInv == Init => IInv
BY DEF Init, IInv, InStep, Verdicts, NoCall

\* A call that ends leaves nothing open: its answer was read, or it raised and
\* the connection is gone.
LEMMA FinishKeeps ==
    ASSUME IInv, NEW verdict \in Verdicts, NEW wasOwn \in BOOLEAN,
           NEW leftPending, NEW leftInbox,
           Finish(verdict, wasOwn, leftPending, leftInbox),
           verdict # "raise" => wasOwn /\ leftPending = <<>> /\ leftInbox = <<>>
    PROVE  IInv'
BY DEF IInv, InStep, Finish, NoCall, Verdicts

\* So does a read, which goes on with the next request or ends the call.
LEMMA AfterReadKeeps ==
    ASSUME NoProbe, IInv, conn = "busy", NEW verdict \in Verdicts, NEW mine \in BOOLEAN,
           AfterRead(verdict, mine, <<>>),
           verdict # "raise" => mine /\ pending = <<>>
    PROVE  IInv'
<1>1. ~IsProbe
  BY DEF IsProbe, NoProbe, IInv
<1>2. CASE verdict = "ok" /\ call.step < Len(Script[call.tool])
  <2>1. /\ call' = [call EXCEPT !.step = @ + 1]
        /\ sent' = sent + 1
        /\ pending' = Append(pending,
                        [id |-> sent + 1, kind |-> Script[call.tool][call.step + 1]])
        /\ own' = (own /\ mine) /\ inbox' = <<>> /\ UNCHANGED <<conn, last>>
    BY <1>1, <1>2 DEF AfterRead, Send
  <2>2. /\ call.tool \in Tools /\ Script[call.tool] \in Seq(Kinds)
        /\ call.step \in DOMAIN Script[call.tool]
    BY CurrentType DEF IInv
  <2>3. /\ call.step \in Nat /\ call.step + 1 \in DOMAIN Script[call.tool]
        /\ Script[call.tool][call.step + 1] \in Kinds
    BY <1>2, <2>2, LenProperties, ElementOfSeq DEF IInv
  <2>4. call'.tool = call.tool /\ call'.step = call.step + 1
        /\ call' \in [tool : Tools \cup {"none"}, step : Nat]
    BY <2>1, <2>3 DEF IInv
  <2>5. Kind' = Script[call.tool][call.step + 1]
    BY <2>4 DEF Kind
  <2>6. pending = <<>> /\ mine = TRUE
    BY <1>2
  <2>7. pending' = <<Current'>>
    BY <2>1, <2>5, <2>6 DEF Current
  <2>8. conn' = "busy" /\ call'.tool \in Tools /\ call'.step \in DOMAIN Script[call'.tool]
    BY <2>1, <2>2, <2>3, <2>4
  <2>9. InStep'
    <3>1. own' = TRUE
      BY <2>1, <2>6 DEF IInv, InStep
    <3>2. sent' > 0 /\ inbox' = <<>> /\ last' = last
      BY <2>1 DEF IInv
    <3>. QED  BY <2>7, <2>8, <3>1, <3>2 DEF IInv, InStep
  <2>. QED  BY <2>1, <2>4, <2>8, <2>9 DEF IInv
<1>3. CASE ~(verdict = "ok" /\ call.step < Len(Script[call.tool]))
  <2>1. Finish(verdict, own /\ mine, pending, <<>>)
    BY <1>1, <1>3 DEF AfterRead
  <2>. QED  BY <2>1, FinishKeeps DEF IInv, InStep
<1>. QED  BY <1>2, <1>3

\* Whatever a reader makes of an answer is a verdict.
LEMMA AcceptsVerdicts == \A kind, shape : Accepts(kind, shape) \subseteq Verdicts
BY DEF Accepts, Verdicts

\* Every step keeps IInv.
LEMMA NextIInv ==
    ASSUME NoProbe, IInv, [Next]_vars
    PROVE  IInv'
<1>1. ASSUME NEW tool \in Tools, Begin(tool) PROVE IInv'
  <2>1. /\ conn # "busy" /\ conn' = "busy"
        /\ call' = [tool |-> tool, step |-> 1]
        /\ sent' = sent + 1
        /\ pending' = Append(pending, [id |-> sent + 1, kind |-> Script[tool][1]])
        /\ own' = TRUE /\ UNCHANGED <<inbox, last>>
    BY <1>1 DEF Begin, Send
  <2>2. tool \in DOMAIN Script /\ 1 \in DOMAIN Script[tool]
    BY ToolsAssumption, ScriptSteps
  <2>3. pending = <<>> /\ inbox = <<>>
    BY <2>1 DEF IInv, InStep
  <2>4. Kind' = Script[tool][1]
    BY <2>1 DEF Kind
  <2>5. pending' = <<Current'>>
    BY <2>1, <2>3, <2>4 DEF Current
  <2>6. InStep'
    BY <2>1, <2>3, <2>5 DEF IInv, InStep
  <2>7. /\ call'.tool \in Tools /\ call'.step \in DOMAIN Script[call'.tool]
        /\ call' \in [tool : Tools \cup {"none"}, step : Nat]
    BY <2>1, <2>2
  <2>. QED  BY <2>1, <2>6, <2>7 DEF IInv
<1>2. ASSUME TargetAnswers PROVE IInv'
  <2>1. /\ pending # <<>> /\ inbox' = Append(inbox, Head(pending)) /\ pending' = Tail(pending)
        /\ UNCHANGED <<conn, call, sent, own, last>>
    BY <1>2 DEF TargetAnswers
  <2>2. conn = "busy" /\ pending = <<Current>> /\ inbox = <<>>
    BY <2>1 DEF IInv, InStep
  <2>3. Current' = Current
    BY <2>1 DEF Current, Kind
  <2>4. pending' = <<>> /\ inbox' = <<Current'>>
    BY <2>1, <2>2, <2>3
  <2>. QED  BY <2>1, <2>2, <2>4 DEF IInv, InStep
<1>3. ASSUME Read PROVE IInv'
  <2>1. conn = "busy" /\ inbox # <<>>
    BY <1>3 DEF Read
  <2>2. pending = <<>> /\ inbox = <<Current>>
    BY <2>1 DEF IInv, InStep
  <2>3. Len(inbox) = 1 /\ Head(inbox) = Current /\ Tail(inbox) = <<>> /\ Current.id = sent
    BY <2>2 DEF Current
  <2>4. PICK verdict \in Accepts(Kind, Shape[Head(inbox).kind]) :
          AfterRead(verdict, Head(inbox).id = sent, Tail(inbox))
    BY <1>3, <2>3 DEF Read
  <2>5. verdict \in Verdicts /\ AfterRead(verdict, TRUE, <<>>)
    BY <2>3, <2>4, AcceptsVerdicts
  <2>. QED  BY <2>1, <2>2, <2>5, AfterReadKeeps
<1>4. ASSUME ReadNothing PROVE IInv'
  BY <1>4, AfterReadKeeps DEF ReadNothing, Verdicts
<1>5. CASE UNCHANGED vars
  BY <1>5 DEF vars, IInv, InStep, Current, Kind
<1>. QED  BY <1>1, <1>2, <1>3, <1>4, <1>5 DEF Next

\* IInv holds in every reachable state.
THEOREM ConversationInvariant ==
    ASSUME NoProbe
    PROVE  Spec => []IInv
<1>1. IInv /\ [Next]_vars => IInv'
  BY NextIInv
<1>. QED  BY <1>1, InitIInv, PTL DEF Spec

\* Every variable keeps its type.
THEOREM ConversationTypeCorrect ==
    ASSUME NoProbe
    PROVE  Spec => []TypeOK
<1>1. IInv => TypeOK
  <2>. SUFFICES ASSUME IInv PROVE TypeOK
    OBVIOUS
  <2>1. pending \in Seq(Requests) /\ inbox \in Seq(Requests)
    <3>1. CASE conn = "busy"
      <4>1. Current \in Requests
        BY <3>1, CurrentType
      <4>2. <<>> \in Seq(Requests) /\ <<Current>> \in Seq(Requests)
        BY <4>1
      <4>. QED  BY <3>1, <4>2 DEF IInv, InStep
    <3>2. CASE conn # "busy"
      BY <3>2 DEF IInv, InStep
    <3>. QED  BY <3>1, <3>2
  <2>. QED  BY <2>1 DEF IInv, InStep, TypeOK
<1>. QED  BY <1>1, ConversationInvariant, PTL

\* A connection goes back to the pool with nothing of the call on it.
THEOREM ConversationPooledInSync ==
    ASSUME NoProbe
    PROVE  Spec => []PooledInSync
<1>1. IInv => PooledInSync
  BY DEF IInv, InStep, PooledInSync
<1>. QED  BY <1>1, ConversationInvariant, PTL

\* A call that reports success read the answers to its own requests.
THEOREM ConversationOkIsOwnAnswer ==
    ASSUME NoProbe
    PROVE  Spec => []OkIsOwnAnswer
<1>1. IInv => OkIsOwnAnswer
  BY DEF IInv, InStep, OkIsOwnAnswer
<1>. QED  BY <1>1, ConversationInvariant, PTL

============================================================================
