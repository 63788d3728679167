---------------------------- MODULE StreamBridge ----------------------------
(***************************************************************************)
(* The client's stream handler (internal/client/handler.go): one yamux     *)
(* stream from the server is joined to one TCP connection to the local     *)
(* service by two copying goroutines.  The server's http.Transport, the    *)
(* local service and yamux are modelled from how the handler uses them.    *)
(* Data is counted in chunks, the request's last one being its end.        *)
(***************************************************************************)
EXTENDS Naturals

CONSTANTS
    ReqLen,         \* chunks of a request
    RespLen,        \* chunks of a response
    Framings,       \* how a response may end: "length" or "eof"
    HostRewrites    \* whether host_header_rewrite is set

ASSUME BridgeAssumption ==
    /\ ReqLen \in Nat \ {0}
    /\ RespLen \in Nat \ {0}
    /\ Framings \subseteq {"length", "eof"}
    /\ HostRewrites \subseteq BOOLEAN

VARIABLES
    framing, hostRewrite,   \* of this exchange
    stage,      \* of Handle: "dialing", "reading", "copying", "done"
    up, down,   \* the goroutines stream -> local and local -> stream run
    reqSent,    \* request chunks the server has written to the stream
    reqGot,     \* request chunks the local service has received
    respSent,   \* response chunks the local service has written
    respGot,    \* response chunks the server has received
    serverFin,  \* the server has closed its side of the stream
    serverQuit, \* it did so before the response was complete
    localEof,   \* the local service has been sent the end of the request side
    localFin,   \* the local service has closed its connection
    reset       \* yamux has reset the stream

vars == <<framing, hostRewrite, stage, up, down, reqSent, reqGot, respSent,
          respGot, serverFin, serverQuit, localEof, localFin, reset>>

conf == <<framing, hostRewrite>>
data == <<reqSent, reqGot, respSent, respGot>>
ends == <<serverFin, serverQuit, localEof, localFin, reset>>

FlagsOK ==
    /\ hostRewrite \in HostRewrites
    /\ up \in BOOLEAN /\ down \in BOOLEAN
    /\ serverFin \in BOOLEAN /\ serverQuit \in BOOLEAN
    /\ localEof \in BOOLEAN /\ localFin \in BOOLEAN /\ reset \in BOOLEAN

DataOK ==
    /\ framing \in Framings
    /\ stage \in {"dialing", "reading", "copying", "done"}
    /\ reqSent \in 0..ReqLen /\ reqGot \in 0..ReqLen
    /\ respSent \in 0..RespLen /\ respGot \in 0..RespLen

BridgeTypeOK == FlagsOK /\ DataOK

Init ==
    /\ framing \in Framings
    /\ hostRewrite \in HostRewrites
    /\ stage = "dialing"
    /\ up = FALSE /\ down = FALSE
    /\ reqSent = 0 /\ reqGot = 0 /\ respSent = 0 /\ respGot = 0
    /\ serverFin = FALSE /\ serverQuit = FALSE /\ localEof = FALSE
    /\ localFin = FALSE /\ reset = FALSE

-----------------------------------------------------------------------------
(* Handle.                                                                 *)

Open == stage \in {"reading", "copying"}

\* net.DialTimeout succeeds.
Dial ==
    /\ stage = "dialing"
    /\ stage' = IF hostRewrite THEN "reading" ELSE "copying"
    /\ up' = ~hostRewrite /\ down' = ~hostRewrite
    /\ UNCHANGED <<conf, data, ends>>

\* It fails: the deferred stream.Close tells the server.
DialFails ==
    /\ stage = "dialing"
    /\ stage' = "done"
    /\ UNCHANGED <<conf, up, down, data, ends>>

\* bridgeWithHostRewrite: ReadRequest and req.Write take the whole request,
\* body included, before the local service gets any of it.  The Transport
\* sends one request on a stream, so nothing follows it in the buffer.
RewriteHost ==
    /\ stage = "reading" /\ ~reset
    /\ reqSent = ReqLen
    /\ \/ reqGot' = ReqLen /\ stage' = "copying" /\ up' = TRUE /\ down' = TRUE
       \/ localFin /\ stage' = "done" /\ UNCHANGED <<reqGot, up, down>>
    /\ UNCHANGED <<conf, reqSent, respSent, respGot, ends>>

\* The stream ends before the request does: Handle returns and closes both.
RewriteFails ==
    /\ stage = "reading"
    /\ reset \/ (serverFin /\ reqSent < ReqLen)
    /\ stage' = "done"
    /\ UNCHANGED <<conf, up, down, data, ends>>

\* copyHalfClose(local, stream): a chunk; a write that fails because the
\* local service has closed ends the copy.
CopyUp ==
    /\ stage = "copying" /\ up /\ ~reset
    /\ reqGot < reqSent
    /\ \/ reqGot' = reqGot + 1 /\ UNCHANGED <<up, localEof>>
       \/ localFin /\ up' = FALSE /\ localEof' = TRUE /\ UNCHANGED reqGot
    /\ UNCHANGED <<conf, stage, down, reqSent, respSent, respGot, serverFin,
                   serverQuit, localFin, reset>>

\* Variants: the local service is not told, or told before the copy is done.
EofWithoutCloseWrite ==
    /\ stage = "copying" /\ up
    /\ reset \/ (serverFin /\ reqGot = reqSent)
    /\ up' = FALSE
    /\ UNCHANGED <<conf, stage, down, data, ends>>
EofTooEarly ==
    /\ stage = "copying" /\ up
    /\ reset \/ serverFin
    /\ up' = FALSE /\ localEof' = TRUE
    /\ UNCHANGED <<conf, stage, down, data, serverFin, serverQuit, localFin, reset>>

\* Its end: the stream is at EOF or reset, and CloseWrite half-closes local.
UpEnds ==
    /\ stage = "copying" /\ up
    /\ reset \/ (serverFin /\ reqGot = reqSent)
    /\ up' = FALSE /\ localEof' = TRUE
    /\ UNCHANGED <<conf, stage, down, data, serverFin, serverQuit, localFin, reset>>

\* Variant: a buffered writer that passes a chunk on when the next one comes.
CopyDownUnflushed ==
    /\ stage = "copying" /\ down
    /\ \/ ~reset /\ respGot + 1 < respSent /\ respGot' = respGot + 1 /\ UNCHANGED down
       \/ reset /\ respGot < respSent /\ down' = FALSE /\ UNCHANGED respGot
    /\ UNCHANGED <<conf, stage, up, reqSent, reqGot, respSent, ends>>

\* copyHalfClose(stream, local): a chunk, or a write that fails.
CopyDown ==
    /\ stage = "copying" /\ down
    /\ respGot < respSent
    /\ \/ ~reset /\ respGot' = respGot + 1 /\ UNCHANGED down
       \/ reset /\ down' = FALSE /\ UNCHANGED respGot
    /\ UNCHANGED <<conf, stage, up, reqSent, reqGot, respSent, ends>>

\* Its end: local is at EOF.  A yamux stream has no CloseWrite, so the server
\* is not told.
DownEnds ==
    /\ stage = "copying" /\ down
    /\ localFin /\ respGot = respSent
    /\ down' = FALSE
    /\ UNCHANGED <<conf, stage, up, data, ends>>

\* Variant: the first direction to finish ends the bridge.
ReturnOnFirst ==
    /\ stage = "copying" /\ (~up \/ ~down)
    /\ stage' = "done"
    /\ UNCHANGED <<conf, up, down, data, ends>>

\* bridgeBidirectional has heard from both; the deferred Close calls follow.
Return ==
    /\ stage = "copying" /\ ~up /\ ~down
    /\ stage' = "done"
    /\ UNCHANGED <<conf, up, down, data, ends>>

-----------------------------------------------------------------------------
(* The other ends.                                                         *)

\* The server's Transport writes the request.
ServerSend ==
    /\ ~serverFin /\ ~reset /\ stage # "done"
    /\ reqSent < ReqLen
    /\ reqSent' = reqSent + 1
    /\ UNCHANGED <<conf, stage, up, down, reqGot, respSent, respGot, ends>>

\* The server knows that the response is complete: it has counted it, or has
\* seen the end of the stream.
ResponseEnded ==
    IF framing = "length" THEN respGot = RespLen ELSE stage = "done"

\* It closes the stream then (DisableKeepAlives) ...
ServerCloses ==
    /\ ~serverFin
    /\ ResponseEnded \/ stage = "done" \/ reset
    /\ serverFin' = TRUE
    /\ UNCHANGED <<conf, stage, up, down, data, serverQuit, localEof, localFin, reset>>

\* ... or earlier, when the visitor leaves or a timeout passes.
ServerQuits ==
    /\ ~serverFin /\ ~ResponseEnded
    /\ serverFin' = TRUE /\ serverQuit' = TRUE
    /\ UNCHANGED <<conf, stage, up, down, data, localEof, localFin, reset>>

\* yamux resets a stream that the peer does not close in time after a close
\* of ours (StreamCloseTimeout), or when the session is lost.
StreamReset ==
    /\ stage # "done" /\ ~reset
    /\ reset' = TRUE
    /\ UNCHANGED <<conf, stage, up, down, data, serverFin, serverQuit, localEof, localFin>>

\* The local service answers a complete request, and closes (the request
\* carries Connection: close) when it has answered or has read EOF.
LocalSend ==
    /\ Open /\ ~localFin
    /\ reqGot = ReqLen /\ respSent < RespLen
    /\ respSent' = respSent + 1
    /\ UNCHANGED <<conf, stage, up, down, reqSent, reqGot, respGot, ends>>

LocalCloses ==
    /\ Open /\ ~localFin
    /\ respSent = RespLen \/ (localEof /\ reqGot < ReqLen)
    /\ localFin' = TRUE
    /\ UNCHANGED <<conf, stage, up, down, data, serverFin, serverQuit, localEof, reset>>

\* It crashes, or closes without an answer.
LocalFails ==
    /\ Open /\ ~localFin
    /\ localFin' = TRUE
    /\ UNCHANGED <<conf, stage, up, down, data, serverFin, serverQuit, localEof, reset>>

HandlerStep == \/ Dial \/ DialFails \/ RewriteHost \/ RewriteFails
               \/ CopyUp \/ UpEnds \/ CopyDown \/ DownEnds \/ Return

Next == \/ HandlerStep
        \/ ServerSend \/ ServerCloses \/ ServerQuits \/ StreamReset
        \/ LocalSend \/ LocalCloses \/ LocalFails

\* Goroutines run, a server sends its request and closes a finished exchange,
\* a local service answers and closes.  Nobody has to quit, fail or reset.
Fairness ==
    /\ WF_vars(HandlerStep)
    /\ WF_vars(ServerSend) /\ WF_vars(ServerCloses)
    /\ WF_vars(LocalSend) /\ WF_vars(LocalCloses)

Spec == Init /\ [][Next]_vars
FairSpec == Spec /\ Fairness

-----------------------------------------------------------------------------
\* Handle never cuts a response short: when it returns from a bridge whose
\* stream was not reset, all that the local service wrote has gone to the
\* server, also if the request side ended long before.
NoTruncation ==
    (stage = "done" /\ ~reset) => respGot = respSent

\* The local service is shown the end of the request side only after all of
\* it, unless the stream was reset or it has itself closed.
EofAfterRequest ==
    (localEof /\ ~reset /\ ~localFin) => reqGot = reqSent

\* When the server closes its side, for whatever reason, the handler ends:
\* the half-close reaches the local service, which closes, and no goroutine
\* is left behind.
ClosedBridgeEnds == serverFin ~> stage = "done"

\* When the local service has sent its whole response and closed, the server
\* learns that the response is complete.
ResponseEndSeen ==
    (localFin /\ respSent = RespLen /\ ~serverQuit /\ ~reset) ~>
        (ResponseEnded \/ serverQuit \/ reset)

\* What the stage of the handler says of the data: a direction runs only while
\* the bridge copies, nothing has passed before that, and each direction stops
\* short of the end of its data only when the stream was reset or the local
\* service has closed.
Flow ==
    /\ respGot <= respSent /\ reqGot <= reqSent
    /\ stage \in {"dialing", "reading"} =>
           ~up /\ ~down /\ reqGot = 0 /\ respSent = 0 /\ ~localEof
    /\ (stage = "copying" /\ ~down /\ ~reset) => (localFin /\ respGot = respSent)
    /\ localEof => ~up
    /\ localEof /\ ~reset /\ ~localFin => serverFin
    /\ NoTruncation
    /\ EofAfterRequest

\* The inductive invariant of the stream handler.
BridgeInv == BridgeTypeOK /\ Flow
=============================================================================
