----------------------------- MODULE CosimLink -----------------------------
(***************************************************************************)
(* The MMIO link between QEMU and the SystemC simulation: the remote-mmio  *)
(* device of src/bridges/remote_mmio.c, the server thread of               *)
(* src/transactor/cosim_server.cpp and the Unix stream sockets between     *)
(* them (external, modelled from how both sides use them).                 *)
(*                                                                         *)
(* Accesses are numbered as the guest issues them (`issued').  A message   *)
(* carries the number of the access it belongs to in place of its address  *)
(* and data, and crosses the stream in Frags fragments: neither side may   *)
(* assume that one recv() returns a whole message.                         *)
(***************************************************************************)
EXTENDS Naturals, Sequences

CONSTANTS Irqs,           \* interrupt lines, irq_bits as a set
          Frags,          \* fragments a message may be cut into
          Backlog,        \* second argument of listen()
          Sigpipes,       \* dispositions of SIGPIPE a simulator may inherit
          MaxAccess,      \* bound: accesses the guest issues
          MaxConns,       \* bound: connections made
          MaxFaults       \* bound: socket errors, kills and restarts

ASSUME ConstAssumption ==
  /\ Frags \in Nat \ {0}
  /\ Backlog \in Nat
  /\ Sigpipes \subseteq {"default", "ignored"}
  /\ MaxAccess \in Nat
  /\ MaxConns \in Nat
  /\ MaxFaults \in Nat

VARIABLES
  \* QEMU: RemoteMmioState and the callback being executed
  cpc, fd, op, sent, rbuf, irq_last,
  \* what the guest and an observer know of the accesses
  issued, outcome, ret,
  \* the simulator: CosimServer and its thread
  spc, client_fd, sbuf, resp, ssent, sigpipe,
  \* the sockets
  nconn, up, down, copen, sopen, backlog,
  \* history: the latest access performed, the levels sampled with it
  served, sampled,
  faults

clientVars == <<cpc, fd, op, sent, rbuf, irq_last, issued, outcome, ret>>
serverVars == <<spc, client_fd, sbuf, resp, ssent, sigpipe>>
netVars == <<nconn, up, down, copen, sopen, backlog>>
histVars == <<served, sampled>>
vars == <<clientVars, serverVars, netVars, histVars, faults>>

Conns == 1 .. MaxConns
None == 0                               \* a descriptor of -1
Ops == {"mapped", "unmapped", "quit"}   \* what an access asks for
Statuses == {"ok", "error"}
Dead == {"stopped", "killed", "sigpipe"}

Request == [id : 1 .. MaxAccess, op : Ops, part : 1 .. Frags]
Response == [id : 1 .. MaxAccess, status : Statuses, irq : SUBSET Irqs,
             part : 1 .. Frags]
Reply == [id : 1 .. MaxAccess, status : Statuses, irq : SUBSET Irqs, quit : BOOLEAN]
NoReply == [id |-> 0, status |-> "ok", irq |-> {}, quit |-> FALSE]

TypeOK ==
  /\ cpc \in {"idle", "connect", "send", "recv", "gone"}
  /\ fd \in Conns \cup {None} /\ client_fd \in Conns \cup {None}
  /\ op \in Ops
  /\ sent \in 0 .. Frags /\ ssent \in 0 .. Frags
  /\ rbuf \in Seq(Response) /\ sbuf \in Seq(Request)
  /\ irq_last \subseteq Irqs /\ sampled \subseteq Irqs
  /\ issued \in 0 .. MaxAccess
  /\ outcome \in {"none", "busy", "ok", "error", "lost"}
  /\ ret \in 0 .. MaxAccess /\ served \in 0 .. MaxAccess
  /\ spc \in {"loop", "recv", "exec", "send", "stopping"} \cup Dead
  /\ resp \in Reply \cup {NoReply} /\ sigpipe \in Sigpipes
  /\ nconn \in 0 .. MaxConns
  /\ up \in [Conns -> Seq(Request)] /\ down \in [Conns -> Seq(Response)]
  /\ copen \in [Conns -> BOOLEAN] /\ sopen \in [Conns -> BOOLEAN]
  /\ backlog \in Seq(Conns)
  /\ faults \in 0 .. MaxFaults

Init ==
  /\ cpc = "idle" /\ fd = None /\ op = "mapped" /\ sent = 0 /\ rbuf = <<>>
  /\ irq_last = {} /\ issued = 0 /\ outcome = "none" /\ ret = 0
  /\ spc = "loop" /\ client_fd = None /\ sbuf = <<>> /\ resp = NoReply
  /\ ssent = 0 /\ sigpipe \in Sigpipes /\ nconn = 0
  /\ up = [c \in Conns |-> <<>>] /\ down = [c \in Conns |-> <<>>]
  /\ copen = [c \in Conns |-> FALSE] /\ sopen = [c \in Conns |-> FALSE]
  /\ backlog = <<>> /\ served = 0 /\ sampled = {} /\ faults = 0

(***************************************************************************)
(* The sockets.  close() drops what the closing side has not read; the     *)
(* peer still reads what is on its way to it, then end of file.            *)
(***************************************************************************)

ClientClose(c) == /\ copen' = [copen EXCEPT ![c] = FALSE]
                  /\ down' = [down EXCEPT ![c] = <<>>]

ServerClose(c) == /\ sopen' = [sopen EXCEPT ![c] = FALSE]
                  /\ up' = [up EXCEPT ![c] = <<>>]

\* The simulator's process ends: every descriptor of it is closed.
ServerCloseAll == /\ sopen' = [c \in Conns |-> FALSE]
                  /\ up' = [c \in Conns |-> <<>>]
                  /\ backlog' = <<>>
                  /\ client_fd' = None

Listening == spc \notin Dead

(***************************************************************************)
(* QEMU.                                                                   *)
(***************************************************************************)

\* Mutant: the count of bytes sent is not reset for a new request.
BeginTransactKeepsSent(o) ==
  /\ issued < MaxAccess
  /\ issued' = issued + 1 /\ op' = o /\ outcome' = "busy"
  /\ rbuf' = <<>> /\ UNCHANGED sent
  /\ cpc' = IF fd = None THEN "connect" ELSE "send"

\* The guest loads or stores a word in the window: a callback is entered and
\* remote_mmio_transact() begins.
BeginTransact(o) ==
  /\ issued < MaxAccess
  /\ issued' = issued + 1
  /\ op' = o
  /\ outcome' = "busy"
  /\ sent' = 0 /\ rbuf' = <<>>
  /\ cpc' = IF fd = None THEN "connect" ELSE "send"

Access == /\ cpc = "idle"
          /\ \E o \in {"mapped", "unmapped"} : BeginTransact(o)
          /\ UNCHANGED <<fd, irq_last, ret, serverVars, netVars, histVars, faults>>

\* The device is unrealized: QUIT is sent if there is a connection.
Unrealize ==
  /\ cpc = "idle"
  /\ \/ /\ fd # None
        /\ BeginTransact("quit")
     \/ /\ fd = None
        /\ cpc' = "gone"
        /\ UNCHANGED <<op, sent, rbuf, issued, outcome>>
  /\ UNCHANGED <<fd, irq_last, ret, serverVars, netVars, histVars, faults>>

\* The callback returns without an answer, the connection closed.
Abandon == /\ fd' = None
           /\ outcome' = "lost"
           /\ cpc' = IF op = "quit" THEN "gone" ELSE "idle"

Connect ==
  /\ cpc = "connect" /\ Listening /\ Len(backlog) <= Backlog
  /\ nconn < MaxConns
  /\ nconn' = nconn + 1
  /\ fd' = nconn + 1
  /\ copen' = [copen EXCEPT ![nconn + 1] = TRUE]
  /\ sopen' = [sopen EXCEPT ![nconn + 1] = TRUE]
  /\ backlog' = Append(backlog, nconn + 1)
  /\ cpc' = "send"
  /\ UNCHANGED <<op, sent, rbuf, irq_last, issued, outcome, ret, serverVars,
                 up, down, histVars, faults>>

\* Nobody listens, or (bound) the connections of the model are used up.
ConnectFail ==
  /\ cpc = "connect" /\ (~Listening \/ nconn = MaxConns)
  /\ Abandon
  /\ UNCHANGED <<op, sent, rbuf, irq_last, issued, ret, serverVars, netVars,
                 histVars, faults>>

\* A signal interrupts a connect() that waits for room in the backlog.
ConnectInterrupted ==
  /\ cpc = "connect" /\ Listening /\ Len(backlog) > Backlog
  /\ faults < MaxFaults
  /\ faults' = faults + 1
  /\ Abandon
  /\ UNCHANGED <<op, sent, rbuf, irq_last, issued, ret, serverVars, netVars,
                 histVars>>

SendFragment ==
  /\ cpc = "send" /\ sopen[fd]
  /\ up' = [up EXCEPT ![fd] = Append(@, [id |-> issued, op |-> op, part |-> sent + 1])]
  /\ sent' = sent + 1
  /\ cpc' = IF sent' = Frags THEN "recv" ELSE "send"
  /\ UNCHANGED <<fd, op, rbuf, irq_last, issued, outcome, ret, serverVars,
                 nconn, down, copen, sopen, backlog, histVars, faults>>

RecvFragment ==
  /\ cpc = "recv" /\ Len(rbuf) < Frags /\ down[fd] # <<>>
  /\ rbuf' = Append(rbuf, Head(down[fd]))
  /\ down' = [down EXCEPT ![fd] = Tail(@)]
  /\ UNCHANGED <<cpc, fd, op, sent, irq_last, issued, outcome, ret, serverVars,
                 nconn, up, copen, sopen, backlog, histVars, faults>>

\* Mutant: the callback returns with the connection left open.
LinkFailKeepsSocket ==
  /\ outcome' = "lost" /\ cpc' = IF op = "quit" THEN "gone" ELSE "idle"
  /\ UNCHANGED <<fd, copen, down, op, sent, rbuf, irq_last, issued, ret,
                 serverVars, nconn, up, sopen, backlog, histVars>>

\* Mutant: the callback reconnects and sends its request again.
LinkFailRetries ==
  /\ ClientClose(fd) /\ fd' = None
  /\ cpc' = "connect" /\ sent' = 0 /\ rbuf' = <<>>
  /\ UNCHANGED <<op, outcome, irq_last, issued, ret, serverVars, nconn, up,
                 sopen, backlog, histVars>>

\* send() or recv() returned n <= 0 and the callback closes the connection.
LinkFail == /\ ClientClose(fd)
            /\ Abandon
            /\ UNCHANGED <<op, sent, rbuf, irq_last, issued, ret, serverVars,
                           nconn, up, sopen, backlog, histVars>>

\* The server closed: EPIPE on send, end of file on recv.
PeerClosed == /\ \/ cpc = "send" /\ ~sopen[fd]
                 \/ cpc = "recv" /\ Len(rbuf) < Frags /\ ~sopen[fd] /\ down[fd] = <<>>
              /\ LinkFail
              /\ UNCHANGED faults

\* send() or recv() failed with the server alive: a signal interrupted it.
Interrupted == /\ cpc = "send" \/ (cpc = "recv" /\ Len(rbuf) < Frags)
               /\ faults < MaxFaults
               /\ faults' = faults + 1
               /\ LinkFail

\* qemu_set_irq() on every line whose level changed leaves all at irq_bits.
DriveIrqs(bits) == irq_last' = bits

\* A whole response is in: remote_mmio_transact() checks and returns it.  A
\* bad one returns before the interrupt lines are driven, and leaves the
\* connection open; the device closes it after a QUIT whatever came back.
Complete ==
  /\ cpc = "recv" /\ Len(rbuf) = Frags
  /\ ret' = rbuf[1].id
  /\ \/ /\ rbuf[1].part = 1 /\ rbuf[1].status = "ok"
        /\ outcome' = "ok"
        /\ DriveIrqs(rbuf[1].irq)
     \/ /\ rbuf[1].part # 1 \/ rbuf[1].status = "error"
        /\ outcome' = "error"
        /\ UNCHANGED irq_last
  /\ \/ /\ op = "quit"
        /\ cpc' = "gone" /\ fd' = None /\ ClientClose(fd)
     \/ /\ op # "quit"
        /\ cpc' = "idle" /\ UNCHANGED <<fd, copen, down>>
  /\ UNCHANGED <<op, sent, rbuf, issued, serverVars, nconn, up, sopen, backlog,
                 histVars, faults>>

\* QEMU ends without unrealizing the device: killed, or the user quits it.
QemuKilled ==
  /\ cpc # "gone" /\ faults < MaxFaults
  /\ faults' = faults + 1
  /\ cpc' = "gone" /\ fd' = None /\ outcome' = "none" /\ irq_last' = {}
  /\ IF fd = None THEN UNCHANGED <<copen, down>> ELSE ClientClose(fd)
  /\ UNCHANGED <<op, sent, rbuf, issued, ret, serverVars, nconn, up, sopen,
                 backlog, histVars>>

\* QEMU is started again: remote_mmio_instance_init().
QemuStart ==
  /\ cpc = "gone"
  /\ cpc' = "idle" /\ fd' = None /\ irq_last' = {} /\ outcome' = "none"
  /\ UNCHANGED <<op, sent, rbuf, issued, ret, serverVars, netVars, histVars, faults>>

(***************************************************************************)
(* The simulator: server_thread().                                         *)
(***************************************************************************)

Accept ==
  /\ spc = "loop" /\ client_fd = None /\ backlog # <<>>
  /\ client_fd' = Head(backlog)
  /\ backlog' = Tail(backlog)
  /\ UNCHANGED <<clientVars, spc, sbuf, resp, ssent, sigpipe, nconn, up, down,
                 copen, sopen, histVars, faults>>

\* Mutant: a request is read on top of what a broken connection left behind.
ReadableKeepsBuffer ==
  /\ spc = "loop" /\ client_fd # None
  /\ up[client_fd] # <<>> \/ ~copen[client_fd]
  /\ spc' = "recv"
  /\ UNCHANGED <<clientVars, sbuf, client_fd, resp, ssent, sigpipe, netVars,
                 histVars, faults>>

\* Mutant: only data wakes the server, a hang-up does not.
ReadableDataOnly ==
  /\ spc = "loop" /\ client_fd # None /\ up[client_fd] # <<>>
  /\ spc' = "recv" /\ sbuf' = <<>>
  /\ UNCHANGED <<clientVars, client_fd, resp, ssent, sigpipe, netVars, histVars,
                 faults>>

\* poll() reports data or a hang-up on the connection.
Readable ==
  /\ spc = "loop" /\ client_fd # None
  /\ up[client_fd] # <<>> \/ ~copen[client_fd]
  /\ spc' = "recv" /\ sbuf' = <<>>
  /\ UNCHANGED <<clientVars, client_fd, resp, ssent, sigpipe, netVars, histVars,
                 faults>>

\* recv_all() waits, 100us of simulated time at a time, while there is none.
ServerRecv ==
  /\ spc = "recv" /\ up[client_fd] # <<>>
  /\ sbuf' = Append(sbuf, Head(up[client_fd]))
  /\ up' = [up EXCEPT ![client_fd] = Tail(@)]
  /\ spc' = IF Len(sbuf') = Frags THEN "exec" ELSE "recv"
  /\ UNCHANGED <<clientVars, client_fd, resp, ssent, sigpipe, nconn, down, copen,
                 sopen, backlog, histVars, faults>>

\* Mutant: the server goes on polling the descriptor it has closed.
ServerRecvFailsKeepsFd ==
  /\ spc = "recv" /\ up[client_fd] = <<>> /\ ~copen[client_fd]
  /\ ServerClose(client_fd)
  /\ spc' = "loop"
  /\ UNCHANGED <<clientVars, client_fd, sbuf, resp, ssent, sigpipe, nconn, down,
                 copen, backlog, histVars, faults>>

ServerRecvFails ==
  /\ spc = "recv" /\ up[client_fd] = <<>> /\ ~copen[client_fd]
  /\ ServerClose(client_fd)
  /\ client_fd' = None
  /\ spc' = "loop"
  /\ UNCHANGED <<clientVars, sbuf, resp, ssent, sigpipe, nconn, down, copen,
                 backlog, histVars, faults>>

\* The request is dispatched: tlm_read() or tlm_write() for an access, which
\* a target refuses when nothing is mapped there, and nothing for a QUIT.
\* irq_bits is sampled last.  The head of the buffer is all that is checked.
Dispatch ==
  /\ spc = "exec"
  /\ LET req == sbuf[1]
         good == req.part = 1
     IN \E irq \in SUBSET Irqs :
          /\ served' = IF good THEN req.id ELSE served
          /\ sampled' = irq
          /\ resp' = [id |-> req.id, irq |-> irq,
                      status |-> IF good /\ req.op # "unmapped" THEN "ok" ELSE "error",
                      quit |-> good /\ req.op = "quit"]
  /\ ssent' = 0
  /\ spc' = "send"
  /\ UNCHANGED <<clientVars, client_fd, sbuf, sigpipe, netVars, faults>>

\* The end of an iteration: quit_ ends the loop and stops the simulation.
AfterSend == IF resp.quit THEN "stopping" ELSE "loop"

ServerSend ==
  /\ spc = "send" /\ copen[client_fd]
  /\ down' = [down EXCEPT ![client_fd] =
                Append(@, [id |-> resp.id, status |-> resp.status,
                           irq |-> resp.irq, part |-> ssent + 1])]
  /\ ssent' = ssent + 1
  /\ spc' = IF ssent' = Frags THEN AfterSend ELSE "send"
  /\ UNCHANGED <<clientVars, client_fd, sbuf, resp, sigpipe, nconn, up, copen,
                 sopen, backlog, histVars, faults>>

\* send() to a closed peer raises SIGPIPE, whose default ends the process;
\* only where it is ignored does send_all() see the error and return false.
ServerSendFails ==
  /\ spc = "send" /\ ~copen[client_fd]
  /\ \/ /\ sigpipe = "ignored"
        /\ ServerClose(client_fd)
        /\ client_fd' = None
        /\ spc' = AfterSend
        /\ UNCHANGED backlog
     \/ /\ sigpipe = "default"
        /\ ServerCloseAll
        /\ spc' = "sigpipe"
  /\ UNCHANGED <<clientVars, sbuf, resp, ssent, sigpipe, nconn, down, copen,
                 histVars, faults>>

\* sc_stop(), the return from main and ~CosimServer().
Shutdown ==
  /\ spc = "stopping"
  /\ ServerCloseAll
  /\ spc' = "stopped"
  /\ UNCHANGED <<clientVars, sbuf, resp, ssent, sigpipe, nconn, down, copen,
                 histVars, faults>>

ServerKilled ==
  /\ spc \notin Dead /\ faults < MaxFaults
  /\ faults' = faults + 1
  /\ ServerCloseAll
  /\ spc' = "killed"
  /\ UNCHANGED <<clientVars, sbuf, resp, ssent, sigpipe, nconn, down, copen,
                 histVars>>

\* The simulator is started again: the constructor and start_listening().
ServerStart ==
  /\ spc \in Dead
  /\ spc' = "loop" /\ client_fd' = None /\ sbuf' = <<>> /\ resp' = NoReply
  /\ ssent' = 0 /\ sigpipe' \in Sigpipes
  /\ UNCHANGED <<clientVars, netVars, histVars, faults>>

ClientStep == Connect \/ ConnectFail \/ SendFragment \/ RecvFragment
              \/ PeerClosed \/ Complete
ServerStep == Accept \/ Readable \/ ServerRecv \/ ServerRecvFails \/ Dispatch
              \/ ServerSend \/ ServerSendFails \/ Shutdown
Environment == Access \/ Unrealize \/ ConnectInterrupted \/ Interrupted
               \/ QemuKilled \/ QemuStart
               \/ ServerKilled \/ ServerStart

Next == ClientStep \/ ServerStep \/ Environment

Spec == Init /\ [][Next]_vars

\* Two running processes are scheduled; nothing forces the guest to access
\* the window, a user to start a program, or anything to fail.
FairSpec == Spec /\ WF_vars(ClientStep) /\ WF_vars(ServerStep)

(***************************************************************************)
(* Properties.                                                             *)
(***************************************************************************)

\* remote_mmio_transact() hands a callback the response to its own request,
\* never one left in the socket by an access it gave up on.
MatchedResponse == outcome \in {"ok", "error"} => ret = issued

\* A message is whole when its fragments are those of one access, in order.
Whole(buf) == /\ Len(buf) = Frags
              /\ \A i \in 1 .. Frags : buf[i].id = buf[1].id /\ buf[i].part = i

\* The server only ever dispatches a request that one access sent as a
\* whole, whatever fragments, disconnections and kills came before it.
WholeRequests == spc = "exec" => Whole(sbuf)

\* What the link promises the guest: accesses are performed at most once and
\* in program order, and a normal return carries the access's own data and
\* leaves the interrupt lines at the levels sampled with it.
Rpc == INSTANCE MmioRpc WITH lines <- irq_last, level <- sampled
ImplementsRpc == Rpc!Spec

\* A callback returns whatever dies: a guest CPU is not stopped for ever in
\* a load or store of the window.
AccessReturns == outcome = "busy" ~> outcome # "busy"

\* The server drops every connection QEMU has closed, so that a restarted
\* QEMU is accepted (cosim_server.cpp closes and accepts again).
ClosedIsReleased ==
  \A c \in Conns : (sopen[c] /\ ~copen[c]) ~> ~sopen[c]

\* cosim_server.cpp:105 of send_all(): "Returns false if the peer closed or
\* send failed permanently."
SendToClosedPeerReturns == spc # "sigpipe"

\* remote_mmio.c:146: "sample SystemC IRQ levels after every completed access
\* and drive SysBus IRQ lines into the NVIC".
IrqsAfterEveryCompletedAccess ==
  outcome \in {"ok", "error"} => irq_last = sampled

=============================================================================
