------------------------------ MODULE StreamRelay ------------------------------
(***************************************************************************)
(* passthroughHandler of buildkit-proxy (proxy.go): one RPC relayed        *)
(* between a client and buildkitd by two goroutines, c2s and the handler   *)
(* itself, over two gRPC streams.                                          *)
(*                                                                         *)
(* Messages are numbered in the order they are sent.  A gRPC stream is a   *)
(* queue of at most Window messages in each direction; what follows the    *)
(* last one is the half-close of the side that sends, and for the answer   *)
(* the status.                                                             *)
(***************************************************************************)
EXTENDS Naturals, Sequences

CONSTANTS
    Window,     \* messages a stream takes before SendMsg blocks
    MaxSend,    \* bound on the messages either side sends
    None

Statuses == {"ok", "error", "canceled", "eof"}

ASSUME RelayOK ==
    /\ Window \in Nat \ {0} /\ MaxSend \in Nat
    /\ None \notin Nat \cup Statuses

VARIABLES
    c2p, p2b,   \* the queues client -> proxy -> backend
    b2p, p2c,   \* and backend -> proxy -> client
    client,     \* the client's side of the RPC
    backend,    \* the backend's
    c2s,        \* the goroutine: [pc, f]
    s2c,        \* the handler's loop: [pc, f, err]
    closedP,    \* CloseSend was called on clientStream
    c2sErr,     \* the channel of that name
    returned    \* the handler's result, or None

vars == <<c2p, p2b, b2p, p2c, client, backend, c2s, s2c, closedP, c2sErr, returned>>

queues == <<c2p, p2b, b2p, p2c>>

\* ctx ends with the client's cancellation, or with the handler.
Done == client.cancelled \/ returned # None

Room(q) == Len(q) < Window

Init ==
    /\ c2p = <<>> /\ p2b = <<>> /\ b2p = <<>> /\ p2c = <<>>
    /\ client = [sent |-> 0, got |-> <<>>, closed |-> FALSE, cancelled |-> FALSE, status |-> None]
    /\ backend = [sent |-> 0, got |-> <<>>, ended |-> None]
    /\ c2s = [pc |-> "none", f |-> None]
    /\ s2c = [pc |-> "open", f |-> None, err |-> None]
    /\ closedP = FALSE
    /\ c2sErr = None
    /\ returned = None

--------------------------------------------------------------------------------
(* The client. *)

Calling == ~client.cancelled /\ client.status = None

ClientSends ==
    /\ Calling /\ ~client.closed /\ client.sent < MaxSend /\ Room(c2p)
    /\ c2p' = Append(c2p, client.sent + 1)
    /\ client' = [client EXCEPT !.sent = @ + 1]
    /\ UNCHANGED <<p2b, b2p, p2c, backend, c2s, s2c, closedP, c2sErr, returned>>

ClientCloses ==
    /\ Calling /\ ~client.closed
    /\ client' = [client EXCEPT !.closed = TRUE]
    /\ UNCHANGED <<queues, backend, c2s, s2c, closedP, c2sErr, returned>>

\* Or it went away.
ClientCancels ==
    /\ Calling
    /\ client' = [client EXCEPT !.cancelled = TRUE]
    /\ UNCHANGED <<queues, backend, c2s, s2c, closedP, c2sErr, returned>>

ClientReceives ==
    /\ Calling /\ p2c # <<>>
    /\ client' = [client EXCEPT !.got = Append(@, Head(p2c))]
    /\ p2c' = Tail(p2c)
    /\ UNCHANGED <<c2p, p2b, b2p, backend, c2s, s2c, closedP, c2sErr, returned>>

ClientGetsStatus ==
    /\ Calling /\ p2c = <<>> /\ returned # None
    /\ client' = [client EXCEPT !.status = returned]
    /\ UNCHANGED <<queues, backend, c2s, s2c, closedP, c2sErr, returned>>

--------------------------------------------------------------------------------
(* buildkitd. *)

Serving == backend.ended = None /\ c2s.pc # "none"

BackendReceives ==
    /\ Serving /\ p2b # <<>>
    /\ backend' = [backend EXCEPT !.got = Append(@, Head(p2b))]
    /\ p2b' = Tail(p2b)
    /\ UNCHANGED <<c2p, b2p, p2c, client, c2s, s2c, closedP, c2sErr, returned>>

BackendSends ==
    /\ Serving /\ backend.sent < MaxSend /\ Room(b2p)
    /\ b2p' = Append(b2p, backend.sent + 1)
    /\ backend' = [backend EXCEPT !.sent = @ + 1]
    /\ UNCHANGED <<c2p, p2b, p2c, client, c2s, s2c, closedP, c2sErr, returned>>

\* With a status of its own, or because it died.  It need not have read, or
\* have been sent, everything.
BackendEnds ==
    /\ Serving
    /\ \E status \in {"ok", "error"} : backend' = [backend EXCEPT !.ended = status]
    /\ UNCHANGED <<queues, client, c2s, s2c, closedP, c2sErr, returned>>

--------------------------------------------------------------------------------
(* The goroutine client -> backend. *)

\* Mutant of Post: the channel has no buffer, so somebody has to receive.
PostUnbuffered(err) ==
    /\ s2c.pc \in {"drain", "wait"}
    /\ c2sErr' = err
    /\ c2s' = [pc |-> "done", f |-> None]

\* c2sErr <- err; return.  The channel's buffer takes the one value.
Post(err) ==
    /\ c2sErr' = err
    /\ c2s' = [pc |-> "done", f |-> None]

C2sReceives ==
    /\ c2s.pc = "recv" /\ c2p # <<>>
    /\ c2s' = [pc |-> "send", f |-> Head(c2p)]
    /\ c2p' = Tail(c2p)
    /\ UNCHANGED <<p2b, b2p, p2c, client, backend, s2c, closedP, c2sErr, returned>>

\* Mutant of C2sCloses: a half-close overtakes what is queued before it.
C2sClosesEarly ==
    /\ c2s.pc = "recv" /\ client.closed
    /\ closedP' = TRUE
    /\ Post("ok")
    /\ UNCHANGED <<queues, client, backend, s2c, returned>>

\* io.EOF from the client: CloseSend, which returns nil.
C2sCloses ==
    /\ c2s.pc = "recv" /\ client.closed /\ c2p = <<>>
    /\ closedP' = TRUE
    /\ Post("ok")
    /\ UNCHANGED <<queues, client, backend, s2c, returned>>

\* RecvMsg and SendMsg end with ctx.
C2sCancelled ==
    /\ c2s.pc \in {"recv", "send"} /\ Done
    /\ Post("canceled")
    /\ UNCHANGED <<queues, client, backend, s2c, closedP, returned>>

\* Mutant of C2sSends: the frame is read into while it is being sent.
C2sSendsShared ==
    /\ c2s.pc = "send" /\ Room(p2b) /\ backend.ended = None
    /\ p2b' = Append(p2b, IF c2p # <<>> THEN Head(c2p) ELSE c2s.f)
    /\ c2s' = [pc |-> "recv", f |-> None]
    /\ UNCHANGED <<c2p, b2p, p2c, client, backend, s2c, closedP, c2sErr, returned>>

C2sSends ==
    /\ c2s.pc = "send" /\ Room(p2b) /\ backend.ended = None
    /\ p2b' = Append(p2b, c2s.f)
    /\ c2s' = [pc |-> "recv", f |-> None]
    /\ UNCHANGED <<c2p, b2p, p2c, client, backend, s2c, closedP, c2sErr, returned>>

\* Mutant of C2sSendsNoMore: a message the stream no longer takes is tried again.
C2sSendsAgain ==
    /\ c2s.pc = "send" /\ backend.ended # None
    /\ UNCHANGED vars

\* On a stream that has ended SendMsg returns io.EOF, whatever the status.
C2sSendsNoMore ==
    /\ c2s.pc = "send" /\ backend.ended # None
    /\ Post("eof")
    /\ UNCHANGED <<queues, client, backend, s2c, closedP, returned>>

C2s == C2sReceives \/ C2sCloses \/ C2sCancelled \/ C2sSends \/ C2sSendsNoMore

--------------------------------------------------------------------------------
(* The handler. *)

\* NewStream, and the goroutine is started; or NewStream fails.
Opens ==
    /\ s2c.pc = "open" /\ c2s.pc = "none"
    /\ \/ /\ s2c' = [s2c EXCEPT !.pc = "recv"]
          /\ c2s' = [c2s EXCEPT !.pc = "recv"]
          /\ UNCHANGED returned
       \/ /\ s2c' = [s2c EXCEPT !.pc = "done"]
          /\ returned' = "error"
          /\ UNCHANGED c2s
    /\ UNCHANGED <<queues, client, backend, closedP, c2sErr>>

\* Mutant of S2cReceives: one goroutine serves both directions in turn.
S2cReceivesInTurn ==
    /\ s2c.pc = "recv" /\ b2p # <<>> /\ c2s.pc # "send"
    /\ s2c' = [s2c EXCEPT !.pc = "send", !.f = Head(b2p)]
    /\ b2p' = Tail(b2p)
    /\ UNCHANGED <<c2p, p2b, p2c, client, backend, c2s, closedP, c2sErr, returned>>

S2cReceives ==
    /\ s2c.pc = "recv" /\ b2p # <<>>
    /\ s2c' = [s2c EXCEPT !.pc = "send", !.f = Head(b2p)]
    /\ b2p' = Tail(b2p)
    /\ UNCHANGED <<c2p, p2b, p2c, client, backend, c2s, closedP, c2sErr, returned>>

\* Mutant of S2cEnds: the end of the client's messages ends the RPC.
S2cEndsWithClient ==
    /\ s2c.pc = "recv" /\ c2s.pc = "done"
    /\ s2c' = [s2c EXCEPT !.pc = "drain"]
    /\ UNCHANGED <<queues, client, backend, c2s, closedP, c2sErr, returned>>

\* io.EOF from the backend: return <-c2sErr.
S2cEnds ==
    /\ s2c.pc = "recv" /\ b2p = <<>> /\ backend.ended = "ok"
    /\ s2c' = [s2c EXCEPT !.pc = "drain"]
    /\ UNCHANGED <<queues, client, backend, c2s, closedP, c2sErr, returned>>

\* Any other error of RecvMsg, or of SendMsg: waitC2S.
S2cFails ==
    /\ \/ /\ s2c.pc = "recv" /\ b2p = <<>> /\ backend.ended = "error"
          /\ s2c' = [pc |-> "wait", f |-> None, err |-> "error"]
       \/ /\ s2c.pc \in {"recv", "send"} /\ Done
          /\ s2c' = [pc |-> "wait", f |-> None, err |-> "canceled"]
    /\ UNCHANGED <<queues, client, backend, c2s, closedP, c2sErr, returned>>

S2cSends ==
    /\ s2c.pc = "send" /\ Room(p2c) /\ ~Done
    /\ p2c' = Append(p2c, s2c.f)
    /\ s2c' = [s2c EXCEPT !.pc = "recv", !.f = None]
    /\ UNCHANGED <<c2p, p2b, b2p, client, backend, c2s, closedP, c2sErr, returned>>

\* return <-c2sErr waits for the goroutine alone, waitC2S also for ctx.
Returns ==
    /\ \/ /\ s2c.pc = "drain" /\ c2sErr # None
          /\ returned' = c2sErr
       \/ /\ s2c.pc = "wait" /\ (c2sErr # None \/ Done)
          /\ returned' = s2c.err
    /\ s2c' = [s2c EXCEPT !.pc = "done"]
    /\ UNCHANGED <<queues, client, backend, c2s, closedP, c2sErr>>

S2c == Opens \/ S2cReceives \/ S2cEnds \/ S2cFails \/ S2cSends \/ Returns

--------------------------------------------------------------------------------
Client == ClientSends \/ ClientCloses \/ ClientCancels \/ ClientReceives \/ ClientGetsStatus

Backend == BackendReceives \/ BackendSends \/ BackendEnds

Next == Client \/ Backend \/ C2s \/ S2c

\* Go schedules both goroutines, and a client reads what has arrived.  Nobody
\* has to send, to half-close, to cancel or to end.
Fairness ==
    /\ WF_vars(C2s) /\ WF_vars(S2c)
    /\ WF_vars(ClientReceives) /\ WF_vars(ClientGetsStatus)

Spec == Init /\ [][Next]_vars

FairSpec == Spec /\ Fairness

--------------------------------------------------------------------------------
(* Properties. *)

ClientStates ==
    [sent : Nat, got : Seq(Nat), closed : BOOLEAN, cancelled : BOOLEAN, status : Statuses \cup {None}]
BackendStates == [sent : Nat, got : Seq(Nat), ended : {"ok", "error", None}]
C2sStates ==
    {g \in [pc : {"none", "recv", "send", "done"}, f : Nat \cup {None}] :
        g.pc = "send" => g.f \in Nat}
S2cStates ==
    {h \in [pc : {"open", "recv", "send", "drain", "wait", "done"}, f : Nat \cup {None},
            err : {"error", "canceled", None}] :
        /\ h.pc = "send" => h.f \in Nat
        /\ h.pc = "wait" => h.err # None}

\* Every variable holds a value of its kind.
TypeOK ==
    /\ c2p \in Seq(Nat) /\ p2b \in Seq(Nat) /\ b2p \in Seq(Nat) /\ p2c \in Seq(Nat)
    /\ client \in ClientStates
    /\ backend \in BackendStates
    /\ c2s \in C2sStates
    /\ s2c \in S2cStates
    /\ s2c.pc = "done" <=> returned # None
    /\ closedP \in BOOLEAN
    /\ c2sErr \in Statuses \cup {None}
    /\ returned \in Statuses \cup {None}

\* The messages that follow the first k.
Run(q, k) == \A i \in DOMAIN q : q[i] = k + i

One(holds) == IF holds THEN 1 ELSE 0

\* The answer: what was sent and not given up is on its way, each queue
\* continues the one after it, and the end is passed on after everything else.
AnswerInv ==
    /\ ~client.cancelled /\ s2c.pc \notin {"wait", "done"} =>
          backend.sent = Len(client.got) + Len(p2c) + One(s2c.pc = "send") + Len(b2p)
    /\ Len(client.got) + Len(p2c) <= backend.sent /\ Len(b2p) <= backend.sent
    /\ Run(client.got, 0)
    /\ Run(p2c, Len(client.got))
    /\ Run(b2p, backend.sent - Len(b2p))
    /\ s2c.pc = "send" => s2c.f = backend.sent - Len(b2p)
    /\ s2c.pc = "drain" => backend.ended = "ok" /\ b2p = <<>>
    /\ returned = "ok" =>
          /\ backend.ended = "ok"
          /\ ~client.cancelled => backend.sent = Len(client.got) + Len(p2c)
    /\ client.status # None => returned = client.status /\ ~client.cancelled /\ p2c = <<>>

\* The same of the client's messages.
RequestInv ==
    /\ backend.ended = None /\ c2s.pc # "done" =>
          client.sent = Len(backend.got) + Len(p2b) + One(c2s.pc = "send") + Len(c2p)
    /\ Len(backend.got) + Len(p2b) <= client.sent /\ Len(c2p) <= client.sent
    /\ Run(backend.got, 0)
    /\ Run(p2b, Len(backend.got))
    /\ Run(c2p, client.sent - Len(c2p))
    /\ c2s.pc = "send" => c2s.f = client.sent - Len(c2p)
    /\ closedP => client.closed /\ c2s.pc = "done" /\ c2p = <<>>
    /\ closedP /\ backend.ended = None => client.sent = Len(backend.got) + Len(p2b)

\* The strengthening under which BothPipes, OkMeansComplete and HalfCloseIsLast
\* are inductive.
RelayInv == AnswerInv /\ RequestInv

\* "Relays any RPC without ever decoding the payload", each message once and in
\* its order: either direction is a Pipe, whatever happens to the other.
Sent(n) == [i \in 1..n |-> i]
ToBackend == INSTANCE Pipe WITH Msgs <- 1..MaxSend, sent <- Sent(client.sent), got <- backend.got
ToClient == INSTANCE Pipe WITH Msgs <- 1..MaxSend, sent <- Sent(backend.sent), got <- client.got
BothPipes == ToBackend!Spec /\ ToClient!Spec

\* A client that is told its RPC succeeded has the backend's whole answer, and
\* it did succeed.
OkMeansComplete ==
    client.status = "ok" => backend.ended = "ok" /\ Len(client.got) = backend.sent

\* A half-close the backend sees comes after everything the client sent before it.
HalfCloseIsLast ==
    closedP /\ backend.ended = None => client.sent = Len(backend.got) + Len(p2b)

\* A backend that reads nothing can still be heard: neither direction waits for
\* room in the other.
BackendHeard ==
    \A n \in 1..MaxSend : backend.sent >= n ~> Len(client.got) >= n \/ client.cancelled

\* "Consistently gives it a chance to unwind": when the handler is gone, or the
\* client is, the goroutine does not stay behind.
NoGoroutineLeft == Done ~> c2s.pc \in {"none", "done"}

\* When both ends are through with the RPC it ends.
HandlerReturns == backend.ended # None /\ client.closed ~> returned # None

\* "Session, Status, ... work unmodified": the client is told the status the
\* backend ended the RPC with.
StatusUnmodified ==
    client.status # None /\ c2s.pc # "none" => client.status = backend.ended
================================================================================
