-------------------------- MODULE CosimLinkProofs --------------------------
(***************************************************************************)
(* Proofs about CosimLink, for every number of accesses, connections,      *)
(* faults and fragments; at the end, that the server dispatches whole      *)
(* requests only and that the link implements the remote procedure call of *)
(* MmioRpc.                                                                *)
(***************************************************************************)
EXTENDS CosimLink, TLAPS

\* Where each process may be, given what it has in hand.
Control ==
  /\ cpc \in {"connect", "send", "recv"} => issued \in 1 .. MaxAccess
  /\ cpc \in {"send", "recv"} => fd \in Conns
  /\ cpc \in {"connect", "gone"} => fd = None
  /\ cpc = "connect" => sent = 0
  /\ cpc = "send" => sent < Frags
  /\ cpc = "recv" => sent = Frags
  /\ spc \in {"recv", "exec", "send"} => client_fd \in Conns
  /\ spc = "recv" => Len(sbuf) < Frags
  /\ spc = "exec" => Len(sbuf) = Frags
  /\ spc = "send" => ssent < Frags /\ resp \in Reply

TypeInv == TypeOK /\ Control

(***************************************************************************)
(* Families of sequences, as the streams of the connections are.           *)
(***************************************************************************)

LEMMA AppendAt ==
  ASSUME NEW S, NEW T, NEW f \in [S -> Seq(T)], NEW c \in S, NEW e \in T
  PROVE  [f EXCEPT ![c] = Append(@, e)] \in [S -> Seq(T)]
<1>1. Append(f[c], e) \in Seq(T)
  OBVIOUS
<1> QED
  BY <1>1

LEMMA TailAt ==
  ASSUME NEW S, NEW T, NEW f \in [S -> Seq(T)], NEW c \in S, f[c] # <<>>
  PROVE  /\ Head(f[c]) \in T
         /\ [f EXCEPT ![c] = Tail(@)] \in [S -> Seq(T)]
<1>1. f[c] \in Seq(T)
  OBVIOUS
<1>2. Head(f[c]) \in T /\ Tail(f[c]) \in Seq(T)
  BY <1>1
<1> QED
  BY <1>2

LEMMA EmptyAt ==
  ASSUME NEW S, NEW T, NEW f \in [S -> Seq(T)], NEW c
  PROVE  [f EXCEPT ![c] = <<>>] \in [S -> Seq(T)]
<1>1. <<>> \in Seq(T)
  OBVIOUS
<1> QED
  BY <1>1

LEMMA ClientCloseType ==
  ASSUME TypeOK, NEW c, ClientClose(c)
  PROVE  copen' \in [Conns -> BOOLEAN] /\ down' \in [Conns -> Seq(Response)]
  BY EmptyAt DEF TypeOK, ClientClose

LEMMA ServerCloseType ==
  ASSUME TypeOK, NEW c, ServerClose(c)
  PROVE  sopen' \in [Conns -> BOOLEAN] /\ up' \in [Conns -> Seq(Request)]
  BY EmptyAt DEF TypeOK, ServerClose

LEMMA ServerCloseAllType ==
  ASSUME ServerCloseAll
  PROVE  /\ sopen' \in [Conns -> BOOLEAN] /\ up' \in [Conns -> Seq(Request)]
         /\ backlog' \in Seq(Conns) /\ client_fd' = None
  BY DEF ServerCloseAll

LEMMA InitTypeInv == Init => TypeInv
  BY ConstAssumption DEF Init, TypeInv, TypeOK, Control, None, Conns, Ops, Dead, NoReply

LEMMA ClientTypeInv == TypeInv /\ ClientStep => TypeInv'
<1> SUFFICES ASSUME TypeInv, ClientStep PROVE TypeInv'
  OBVIOUS
<1> USE ConstAssumption DEF TypeInv, TypeOK, Control, None, Conns
<1>1. CASE Connect
  <2> USE <1>1 DEF Connect
  <2>1. nconn + 1 \in Conns
    OBVIOUS
  <2>2. backlog' \in Seq(Conns)
    BY <2>1
  <2>3. TypeOK'
    <3>1. UNCHANGED <<op, irq_last, issued, outcome, ret, faults>>
          /\ UNCHANGED <<serverVars, histVars>>
      OBVIOUS
    <3>2. fd' \in Conns \cup {None} /\ cpc' = "send" /\ UNCHANGED <<sent, rbuf>>
      BY <2>1
    <3>3. /\ nconn' \in 0 .. MaxConns /\ UNCHANGED <<up, down>>
          /\ copen' \in [Conns -> BOOLEAN] /\ sopen' \in [Conns -> BOOLEAN]
      BY <2>1
    <3> HIDE DEF Connect
    <3> QED
      BY <2>2, <3>1, <3>2, <3>3 DEF serverVars, histVars
  <2>4. Control'
    BY <2>1 DEF serverVars, histVars
  <2> QED
    BY <2>3, <2>4
<1>2. CASE ConnectFail
  BY <1>2 DEF ConnectFail, Abandon, serverVars, netVars, histVars
<1>3. CASE SendFragment
  <2> USE <1>3 DEF SendFragment
  <2>1. [id |-> issued, op |-> op, part |-> sent + 1] \in Request
    BY DEF Request
  <2>2. up' \in [Conns -> Seq(Request)]
    BY <2>1, AppendAt
  <2>3. TypeOK'
    BY <2>2 DEF serverVars, histVars
  <2>4. Control'
    BY DEF serverVars, histVars
  <2> QED
    BY <2>3, <2>4
<1>4. CASE RecvFragment
  BY <1>4 DEF RecvFragment, serverVars, histVars
<1>5. CASE PeerClosed
  <2>1. copen' \in [Conns -> BOOLEAN] /\ down' \in [Conns -> Seq(Response)]
    BY <1>5, ClientCloseType DEF PeerClosed, LinkFail
  <2> QED
    BY <1>5, <2>1 DEF PeerClosed, LinkFail, Abandon, serverVars, histVars
<1>6. CASE Complete
  <2> USE <1>6 DEF Complete
  <2>1. rbuf[1] \in Response
    OBVIOUS
  <2>2. rbuf[1].id \in 1 .. MaxAccess /\ rbuf[1].irq \subseteq Irqs
    BY <2>1 DEF Response
  <2>3. ret' \in 0 .. MaxAccess /\ outcome' \in {"ok", "error"} /\ irq_last' \subseteq Irqs
    <3>1. ret' \in 0 .. MaxAccess
      BY <2>2
    <3>2. outcome' \in {"ok", "error"} /\ irq_last' \in {rbuf[1].irq, irq_last}
      BY DEF DriveIrqs
    <3> QED
      BY <2>2, <3>1, <3>2
  <2>4. /\ copen' \in [Conns -> BOOLEAN] /\ down' \in [Conns -> Seq(Response)]
        /\ (cpc' = "gone" /\ fd' = None) \/ (cpc' = "idle" /\ fd' = fd)
    <3>1. CASE op = "quit"
      BY <3>1, ClientCloseType
    <3>2. CASE op # "quit"
      BY <3>2
    <3> QED
      BY <3>1, <3>2
  <2>5. /\ UNCHANGED <<op, sent, rbuf, issued, spc, client_fd, sbuf, resp, ssent, sigpipe>>
        /\ UNCHANGED <<nconn, up, sopen, backlog, served, sampled, faults>>
    BY DEF serverVars, histVars
  <2> HIDE DEF Complete
  <2>6. TypeOK'
    BY <2>3, <2>4, <2>5
  <2>7. Control'
    BY <2>4, <2>5
  <2> QED
    BY <2>6, <2>7
<1> QED
  BY <1>1, <1>2, <1>3, <1>4, <1>5, <1>6 DEF ClientStep

LEMMA ServerTypeInv == TypeInv /\ ServerStep => TypeInv'
<1> SUFFICES ASSUME TypeInv, ServerStep PROVE TypeInv'
  OBVIOUS
<1> USE ConstAssumption DEF TypeInv, TypeOK, Control, None, Conns
<1>1. CASE Accept
  <2> HIDE DEF TypeInv, TypeOK, Control, None, Conns
  <2>0. backlog \in Seq(Conns)
    BY DEF TypeInv, TypeOK
  <2>1. client_fd' \in Conns /\ backlog' \in Seq(Conns)
    BY <1>1, <2>0 DEF Accept
  <2>2. UNCHANGED <<clientVars, spc, sbuf, resp, ssent, sigpipe, nconn, up, down, copen, sopen>>
        /\ UNCHANGED <<histVars, faults>> /\ spc = "loop"
    BY <1>1 DEF Accept
  <2> USE DEF TypeInv, TypeOK, Control, None, Conns
  <2> QED
    BY <2>1, <2>2 DEF clientVars, histVars
<1>2. CASE Readable
  BY <1>2 DEF Readable, clientVars, netVars, histVars
<1>3. CASE ServerRecv
  <2> USE <1>3 DEF ServerRecv
  <2>1. Head(up[client_fd]) \in Request /\ up' \in [Conns -> Seq(Request)]
    BY TailAt
  <2>2. sbuf' \in Seq(Request) /\ Len(sbuf') = Len(sbuf) + 1
    BY <2>1
  <2>3. TypeOK'
    BY <2>1, <2>2 DEF clientVars, histVars
  <2>4. Control'
    BY <2>2 DEF clientVars
  <2> QED
    BY <2>3, <2>4
<1>4. CASE ServerRecvFails
  BY <1>4 DEF ServerRecvFails, ServerClose, clientVars, histVars
<1>5. CASE Dispatch
  <2> USE <1>5 DEF Dispatch
  <2>1. sbuf[1] \in Request
    OBVIOUS
  <2>2. sbuf[1].id \in 1 .. MaxAccess
    BY <2>1 DEF Request
  <2>3. resp' \in Reply /\ sampled' \subseteq Irqs
    BY <2>2 DEF Reply, Statuses
  <2>4. served' \in 0 .. MaxAccess
    BY <2>2
  <2>5. TypeOK'
    BY <2>3, <2>4 DEF clientVars, netVars
  <2>6. Control'
    BY <2>3 DEF clientVars, netVars
  <2> QED
    BY <2>5, <2>6
<1>6. CASE ServerSend
  <2> USE <1>6 DEF ServerSend
  <2>1. [id |-> resp.id, status |-> resp.status, irq |-> resp.irq,
         part |-> ssent + 1] \in Response
    BY DEF Reply, Response
  <2>2. down' \in [Conns -> Seq(Response)]
    BY <2>1, AppendAt
  <2>3. TypeOK'
    BY <2>2 DEF AfterSend, clientVars, histVars
  <2>4. Control'
    BY DEF AfterSend, clientVars
  <2> QED
    BY <2>3, <2>4
<1>7. CASE ServerSendFails
  <2> USE <1>7 DEF ServerSendFails
  <2>1. /\ up' \in [Conns -> Seq(Request)] /\ sopen' \in [Conns -> BOOLEAN]
        /\ backlog' \in Seq(Conns) /\ client_fd' = None
    <3>1. CASE sigpipe = "ignored"
      BY <3>1, ServerCloseType
    <3>2. CASE sigpipe = "default"
      BY <3>2, ServerCloseAllType
    <3> QED
      BY <3>1, <3>2
  <2>2. spc' \in {"loop", "stopping", "sigpipe"}
    BY DEF AfterSend
  <2>3. TypeOK'
    BY <2>1, <2>2 DEF clientVars, histVars, Dead
  <2>4. Control'
    BY <2>2 DEF clientVars
  <2> QED
    BY <2>3, <2>4
<1>8. CASE Shutdown
  BY <1>8 DEF Shutdown, ServerCloseAll, clientVars, histVars, Dead
<1> QED
  BY <1>1, <1>2, <1>3, <1>4, <1>5, <1>6, <1>7, <1>8 DEF ServerStep

LEMMA EnvironmentTypeInv == TypeInv /\ Environment => TypeInv'
<1> SUFFICES ASSUME TypeInv, Environment PROVE TypeInv'
  OBVIOUS
<1> USE ConstAssumption DEF TypeInv, TypeOK, Control, None, Conns
<1>1. CASE Access
  BY <1>1 DEF Access, BeginTransact, Ops, serverVars, netVars, histVars
<1>2. CASE Unrealize
  <2> USE <1>2 DEF Unrealize
  <2>1. CASE fd # None
    <3>1. BeginTransact("quit")
      BY <2>1
    <3> QED
      BY <2>1, <3>1 DEF BeginTransact, Ops, serverVars, netVars, histVars
  <2>2. CASE fd = None
    BY <2>2 DEF serverVars, netVars, histVars
  <2> QED
    BY <2>1, <2>2
<1>3. CASE Interrupted
  BY <1>3 DEF Interrupted, LinkFail, Abandon, ClientClose, serverVars, histVars
<1>4. CASE QemuKilled
  <2> USE <1>4 DEF QemuKilled
  <2>1. copen' \in [Conns -> BOOLEAN] /\ down' \in [Conns -> Seq(Response)]
    BY ClientCloseType
  <2>2. TypeOK'
    BY <2>1 DEF serverVars, histVars
  <2>3. Control'
    BY DEF serverVars
  <2> QED
    BY <2>2, <2>3
<1>5. CASE QemuStart
  BY <1>5 DEF QemuStart, serverVars, netVars, histVars
<1>6. CASE ServerKilled
  BY <1>6 DEF ServerKilled, ServerCloseAll, clientVars, histVars, Dead
<1>7. CASE ServerStart
  BY <1>7 DEF ServerStart, NoReply, clientVars, netVars, histVars
<1>8. CASE ConnectInterrupted
  BY <1>8 DEF ConnectInterrupted, Abandon, serverVars, netVars, histVars
<1> QED
  BY <1>1, <1>2, <1>3, <1>4, <1>5, <1>6, <1>7, <1>8 DEF Environment

LEMMA StutterTypeInv == TypeInv /\ UNCHANGED vars => TypeInv'
  BY DEF TypeInv, TypeOK, Control, Conns, vars, clientVars, serverVars, netVars, histVars

\* Every variable keeps its type, and a process is only at a statement when
\* it holds what the statement needs.
THEOREM TypeCorrect == Spec => []TypeOK
<1>1. Init => TypeInv
  BY InitTypeInv
<1>2. TypeInv /\ [Next]_vars => TypeInv'
  BY ClientTypeInv, ServerTypeInv, EnvironmentTypeInv, StutterTypeInv DEF Next
<1>3. TypeInv => TypeOK
  BY DEF TypeInv
<1> QED
  BY <1>1, <1>2, <1>3, PTL DEF Spec

(***************************************************************************)
(* MatchedResponse.  The response a callback reads is its own because an   *)
(* open connection only ever carries the access under way: every fragment  *)
(* on it, and what the server has taken from it, has the number of that    *)
(* access, and nothing is left on it when the access has been answered.    *)
(* The latter needs the count of fragments, Progress.                      *)
(***************************************************************************)

Requests(n) == {q \in Request : q.id = n}
Responses(n) == {a \in Response : a.id = n}

\* The connections: only QEMU's is open at its end, and those not yet made
\* carry nothing.
OneConnection ==
  /\ fd # None => fd <= nconn /\ copen[fd]
  /\ \A c \in Conns : copen[c] => c = fd
  /\ cpc \in {"send", "recv"} => fd # None
  /\ client_fd <= nconn
  /\ \A i \in 1 .. Len(backlog) : backlog[i] <= nconn
  /\ \A c \in Conns : c > nconn => up[c] = <<>> /\ down[c] = <<>>

\* A connection the server has closed is out of its hands.
ClosedByServer ==
  fd # None /\ ~sopen[fd] =>
    /\ up[fd] = <<>> /\ client_fd # fd
    /\ \A i \in 1 .. Len(backlog) : backlog[i] # fd

\* Whatever is under way on QEMU's connection belongs to the latest access.
OwnMessages ==
  fd # None =>
    /\ up[fd] \in Seq(Requests(issued))
    /\ down[fd] \in Seq(Responses(issued))
    /\ client_fd = fd /\ spc \in {"recv", "exec"} => sbuf \in Seq(Requests(issued))
    /\ client_fd = fd /\ spc = "send" => resp.id = issued
    /\ cpc \in {"send", "recv"} => rbuf \in Seq(Responses(issued))

Answered == Len(down[fd]) + Len(rbuf)

\* How far the access has come, by the fragments sent and answered.
Progress ==
  /\ cpc = "connect" => rbuf = <<>>
  /\ cpc \in {"send", "recv"} =>
    /\ Answered <= Frags
    /\ sopen[fd] =>
         /\ client_fd = fd /\ spc = "recv" => Answered = 0 /\ Len(up[fd]) + Len(sbuf) = sent
         /\ client_fd = fd /\ spc = "exec" => Answered = 0 /\ up[fd] = <<>> /\ sent = Frags
         /\ client_fd = fd /\ spc = "send" => Answered = ssent /\ up[fd] = <<>> /\ sent = Frags
         /\ ~(client_fd = fd /\ spc \in {"recv", "exec", "send"}) =>
              \/ Answered = 0 /\ Len(up[fd]) = sent
              \/ Answered = Frags /\ up[fd] = <<>> /\ sent = Frags

\* Between accesses the connection is at rest.
AtRest ==
  cpc = "idle" /\ fd # None =>
    /\ up[fd] = <<>> /\ down[fd] = <<>>
    /\ client_fd = fd => spc \notin {"recv", "exec", "send"}

MatchInv == /\ TypeInv /\ OneConnection /\ ClosedByServer /\ OwnMessages
            /\ Progress /\ AtRest /\ MatchedResponse

\* QEMU's side is closed, or was: nothing is under way.
LEMMA NoConnectionMatch ==
  ASSUME MatchInv, TypeInv', fd' = None,
         copen' = [c \in Conns |-> FALSE], up' = up,
         \A c \in Conns : down'[c] \in {<<>>, down[c]},
         cpc' \in {"idle", "gone"}, MatchedResponse',
         UNCHANGED <<nconn, client_fd, backlog>>
  PROVE  MatchInv'
<1> USE DEF MatchInv, None
<1>1. OneConnection'
  BY DEF OneConnection
<1>2. ClosedByServer' /\ OwnMessages' /\ AtRest' /\ Progress'
  BY DEF ClosedByServer, OwnMessages, AtRest, Progress
<1> QED
  BY <1>1, <1>2

LEMMA Unmade ==
  ASSUME TypeOK, NEW c \in Conns, c > nconn, NEW d \in Conns, d <= nconn
  PROVE  c # d
<1>1. c \in Nat /\ d \in Nat /\ nconn \in Nat
  BY ConstAssumption DEF TypeOK, Conns
<1> QED
  BY <1>1

LEMMA Lengths ==
  ASSUME TypeInv
  PROVE  /\ Len(rbuf) \in Nat /\ Len(sbuf) \in Nat
         /\ \A c \in Conns :
              /\ Len(up[c]) \in Nat /\ Len(down[c]) \in Nat
              /\ up[c] = <<>> <=> Len(up[c]) = 0
              /\ down[c] = <<>> <=> Len(down[c]) = 0
<1>1. rbuf \in Seq(Response) /\ sbuf \in Seq(Request)
  BY DEF TypeInv, TypeOK
<1>2. \A c \in Conns : up[c] \in Seq(Request) /\ down[c] \in Seq(Response)
  BY DEF TypeInv, TypeOK
<1> QED
  BY <1>1, <1>2

LEMMA ClosedMatch ==
  ASSUME MatchInv, TypeInv', fd \in Conns, fd' = None, ClientClose(fd), up' = up,
         cpc' \in {"idle", "gone"}, MatchedResponse',
         UNCHANGED <<nconn, client_fd, backlog>>
  PROVE  MatchInv'
<1>1. copen' = [c \in Conns |-> FALSE]
  BY DEF ClientClose, MatchInv, OneConnection, TypeInv, TypeOK
<1>2. \A c \in Conns : down'[c] \in {<<>>, down[c]}
  BY DEF ClientClose, MatchInv, TypeInv, TypeOK
<1> QED
  BY <1>1, <1>2, NoConnectionMatch

LEMMA LinkFailMatch ==
  ASSUME MatchInv, TypeInv', fd \in Conns, LinkFail
  PROVE  MatchInv'
  BY ClosedMatch DEF LinkFail, Abandon, serverVars, MatchedResponse

LEMMA ClientMatch == MatchInv /\ ClientStep => MatchInv'
<1> SUFFICES ASSUME MatchInv, ClientStep PROVE MatchInv'
  OBVIOUS
<1>0. TypeInv'
  BY ClientTypeInv DEF MatchInv
<1> USE <1>0, ConstAssumption
<1>1. CASE Connect
  <2> USE <1>1 DEF Connect, None, Conns, serverVars, histVars
  <2>1. fd = None /\ sent = 0 /\ rbuf = <<>> /\ fd' \in Conns
    BY DEF MatchInv, TypeInv, Control, Progress
  <2>2. OneConnection'
    <3>1. backlog \in Seq(Conns) /\ nconn \in Nat /\ copen \in [Conns -> BOOLEAN]
      BY DEF MatchInv, TypeInv, TypeOK
    <3>2. \A i \in 1 .. Len(backlog) : backlog[i] <= nconn
      BY DEF MatchInv, OneConnection
    <3>3. \A i \in 1 .. Len(backlog') : backlog'[i] <= nconn'
      BY <3>1, <3>2
    <3>4. /\ fd' # None => fd' <= nconn' /\ copen'[fd']
          /\ \A c \in Conns : copen'[c] => c = fd'
          /\ client_fd' <= nconn'
      BY <2>1, <3>1 DEF MatchInv, OneConnection, TypeInv, TypeOK
    <3>5. \A c \in Conns : c > nconn' => up'[c] = <<>> /\ down'[c] = <<>>
      <4>1. nconn' = nconn + 1 /\ UNCHANGED <<up, down>>
        OBVIOUS
      <4>2. \A c \in Conns : c > nconn => up[c] = <<>> /\ down[c] = <<>>
        BY DEF MatchInv, OneConnection
      <4> HIDE DEF Connect
      <4> QED
        BY <3>1, <4>1, <4>2
    <3> QED
      BY <2>1, <3>3, <3>4, <3>5 DEF OneConnection
  <2>3. /\ fd' # client_fd /\ up[fd'] = <<>> /\ down[fd'] = <<>> /\ sopen'[fd'] 
    BY <2>1 DEF MatchInv, OneConnection, TypeInv, TypeOK
  <2>4. ClosedByServer' /\ AtRest' /\ MatchedResponse'
    BY <2>3 DEF ClosedByServer, AtRest, MatchInv, MatchedResponse
  <2>5. OwnMessages'
    BY <2>1, <2>3 DEF OwnMessages
  <2>6. Progress'
    BY <2>1, <2>3 DEF Progress, Answered
  <2> QED
    BY <2>2, <2>4, <2>5, <2>6 DEF MatchInv
<1>2. CASE ConnectFail
  <2>1. fd = None /\ copen = [c \in Conns |-> FALSE]
    BY <1>2 DEF ConnectFail, MatchInv, OneConnection, TypeInv, TypeOK, Control, Conns, None
  <2> QED
    BY <1>2, <2>1, NoConnectionMatch DEF ConnectFail, Abandon, serverVars, netVars, MatchedResponse
<1>3. CASE SendFragment
  <2> USE <1>3 DEF SendFragment
  <2>1. /\ fd \in Conns /\ sent \in 0 .. Frags - 1 /\ up \in [Conns -> Seq(Request)]
        /\ sent' = sent + 1 /\ up[fd] \in Seq(Requests(issued))
    BY DEF MatchInv, TypeInv, TypeOK, Control, OwnMessages, Conns, None
  <2>2. /\ up'[fd] = Append(up[fd], [id |-> issued, op |-> op, part |-> sent + 1])
        /\ \A c \in Conns : c # fd => up'[c] = up[c]
        /\ Len(up'[fd]) = Len(up[fd]) + 1
    BY <2>1
  <2>3. up'[fd] \in Seq(Requests(issued))
    <3>1. [id |-> issued, op |-> op, part |-> sent + 1] \in Requests(issued)
      BY <2>1 DEF Requests, Request, MatchInv, TypeInv, TypeOK, Control
    <3> QED
      BY <2>1, <2>2, <3>1
  <2>4. /\ cpc = "send" /\ cpc' \in {"send", "recv"} /\ sopen[fd]
        /\ UNCHANGED <<fd, op, rbuf, issued, outcome, ret, spc, client_fd, sbuf, resp>>
        /\ UNCHANGED <<ssent, nconn, down, copen, sopen, backlog>>
    BY DEF serverVars
  <2> HIDE DEF SendFragment
  <2> HIDE <1>3
  <2>5. OneConnection'
    <3>1. TypeOK /\ fd \in Conns /\ fd <= nconn
      BY <2>1 DEF MatchInv, TypeInv, OneConnection, Conns, None
    <3>2. \A c \in Conns : c > nconn => up'[c] = up[c]
      BY <2>2, <3>1, Unmade
    <3> QED
      BY <2>4, <3>2 DEF MatchInv, OneConnection
  <2>6. ClosedByServer' /\ AtRest' /\ MatchedResponse'
    BY <2>4 DEF MatchInv, ClosedByServer, AtRest, MatchedResponse
  <2>7. OwnMessages'
    BY <2>3, <2>4 DEF MatchInv, OwnMessages
  <2>8. Progress'
    <3>1. UNCHANGED Answered /\ Len(up[fd]) \in Nat /\ Len(sbuf) \in Nat
      BY <2>1, <2>4, Lengths DEF Answered, MatchInv
    <3>2. Answered <= Frags /\ sent # Frags /\ sopen' = sopen
      BY <2>1, <2>4 DEF MatchInv, Progress
    <3>3. CASE client_fd = fd /\ spc \in {"recv", "exec", "send"}
      <4>1. spc = "recv" /\ Answered = 0 /\ Len(up[fd]) + Len(sbuf) = sent
        BY <2>4, <3>2, <3>3 DEF MatchInv, Progress
      <4>2. Len(up'[fd]) + Len(sbuf) = sent'
        <5> DEFINE before == Len(up[fd])
        <5> DEFINE after == Len(up'[fd])
        <5>1. after = before + 1 /\ before \in Nat /\ before + Len(sbuf) = sent
          BY <2>2, <3>1, <4>1
        <5> HIDE DEF before, after
        <5>2. after + Len(sbuf) = sent'
          BY <2>1, <3>1, <5>1
        <5> QED
          BY <5>2 DEF after
      <4> QED
        BY <2>4, <3>1, <3>2, <3>3, <4>1, <4>2 DEF Progress
    <3>4. CASE ~(client_fd = fd /\ spc \in {"recv", "exec", "send"})
      <4>1. Answered = 0 /\ Len(up'[fd]) = sent'
        BY <2>1, <2>2, <2>4, <3>1, <3>2, <3>4 DEF MatchInv, Progress
      <4> QED
        BY <2>4, <3>1, <3>2, <3>4, <4>1 DEF Progress
    <3> QED
      BY <3>3, <3>4
  <2> QED
    BY <2>5, <2>6, <2>7, <2>8 DEF MatchInv
<1>4. CASE RecvFragment
  <2> USE <1>4 DEF RecvFragment
  <2>1. /\ fd \in Conns /\ down \in [Conns -> Seq(Response)]
        /\ down[fd] \in Seq(Responses(issued)) /\ rbuf \in Seq(Responses(issued))
    BY DEF MatchInv, TypeInv, TypeOK, Control, OwnMessages, Conns, None
  <2>2. /\ down'[fd] = Tail(down[fd]) /\ rbuf' = Append(rbuf, Head(down[fd]))
        /\ \A c \in Conns : c # fd => down'[c] = down[c]
    BY <2>1
  <2>3. /\ down'[fd] \in Seq(Responses(issued)) /\ rbuf' \in Seq(Responses(issued))
        /\ Len(down'[fd]) = Len(down[fd]) - 1 /\ Len(rbuf') = Len(rbuf) + 1
        /\ Len(down[fd]) \in Nat /\ Len(rbuf) \in Nat
    BY <2>1, <2>2
  <2>4. /\ cpc = "recv"
        /\ UNCHANGED <<cpc, fd, op, sent, issued, outcome, ret, spc, client_fd, sbuf>>
        /\ UNCHANGED <<resp, ssent, nconn, up, copen, sopen, backlog>>
    BY DEF serverVars
  <2> HIDE DEF RecvFragment
  <2> HIDE <1>4
  <2>5. OneConnection'
    <3>1. TypeOK /\ fd \in Conns /\ fd <= nconn
      BY <2>1 DEF MatchInv, TypeInv, OneConnection, Conns, None
    <3>2. \A c \in Conns : c > nconn => down'[c] = down[c]
      BY <2>2, <3>1, Unmade
    <3> QED
      BY <2>4, <3>2 DEF MatchInv, OneConnection
  <2>6. ClosedByServer' /\ AtRest' /\ MatchedResponse'
    BY <2>4 DEF MatchInv, ClosedByServer, AtRest, MatchedResponse
  <2>7. OwnMessages'
    BY <2>3, <2>4 DEF MatchInv, OwnMessages
  <2>8. Progress'
    <3>1. Answered' = Answered
      <4> DEFINE before == Len(down[fd])
      <4> DEFINE after == Len(down'[fd])
      <4>1. Answered = before + Len(rbuf) /\ Answered' = after + Len(rbuf')
        BY <2>4 DEF Answered
      <4>2. /\ after = before - 1 /\ Len(rbuf') = Len(rbuf) + 1
            /\ before \in Nat /\ Len(rbuf) \in Nat
        BY <2>3
      <4> HIDE DEF before, after
      <4> QED
        BY <4>1, <4>2
    <3> QED
      BY <2>4, <3>1 DEF MatchInv, Progress
  <2> QED
    BY <2>5, <2>6, <2>7, <2>8 DEF MatchInv
<1>5. CASE PeerClosed
  <2>1. LinkFail /\ fd \in Conns
    BY <1>5 DEF PeerClosed, MatchInv, TypeInv, Control
  <2> QED
    BY <2>1, LinkFailMatch
<1>6. CASE Complete
  <2> USE <1>6 DEF Complete
  <2>1. /\ rbuf \in Seq(Responses(issued)) /\ Len(rbuf) = Frags /\ cpc = "recv"
        /\ fd \in Conns
    BY DEF MatchInv, OwnMessages, TypeInv, Control, Conns, None
  <2>2. ret' = issued /\ UNCHANGED issued
    <3>1. rbuf[1] \in Responses(issued)
      BY <2>1
    <3> QED
      BY <3>1 DEF Responses
  <2>3. /\ MatchedResponse'
        /\ UNCHANGED <<sent, nconn, up, sopen, backlog, spc, client_fd, sbuf, resp, ssent>>
    BY <2>2 DEF MatchedResponse, serverVars
  <2>4. CASE op = "quit"
    <3>1. fd' = None /\ cpc' = "gone" /\ ClientClose(fd)
      BY <2>4
    <3> QED
      BY <2>1, <2>3, <3>1, ClosedMatch
  <2>5. CASE op # "quit"
    <3>1. cpc' = "idle" /\ UNCHANGED <<fd, copen, down>>
      BY <2>5
    <3> HIDE DEF Complete
    <3>2. up[fd] = <<>> /\ down[fd] = <<>>
      <4>1. Answered = Frags /\ Len(down[fd]) = 0
        BY <2>1, Lengths DEF MatchInv, Progress, Answered
      <4>2. CASE sopen[fd]
        <5>1. ~(client_fd = fd /\ spc \in {"recv", "exec", "send"})
          BY <2>1, <4>1, <4>2 DEF MatchInv, Progress, TypeInv, Control
        <5> QED
          BY <2>1, <4>1, <4>2, <5>1 DEF MatchInv, Progress
      <4>3. CASE ~sopen[fd]
        BY <2>1, <4>1, <4>3, Lengths DEF MatchInv, ClosedByServer, None, Conns
      <4> QED
        BY <4>2, <4>3
    <3>3. client_fd = fd => spc \notin {"recv", "exec", "send"}
      <4>1. Answered = Frags
        BY <2>1, Lengths DEF MatchInv, Progress, Answered
      <4> QED
        BY <2>1, <4>1 DEF MatchInv, Progress, ClosedByServer, TypeInv, Control, None, Conns
    <3>4. OneConnection' /\ ClosedByServer' /\ AtRest'
      BY <2>3, <3>1, <3>2, <3>3 DEF MatchInv, OneConnection, ClosedByServer, AtRest
    <3>5. OwnMessages' /\ Progress'
      BY <2>2, <2>3, <3>1, <3>3 DEF MatchInv, OwnMessages, Progress
    <3> QED
      BY <2>3, <3>4, <3>5 DEF MatchInv
  <2> QED
    BY <2>4, <2>5
<1> QED
  BY <1>1, <1>2, <1>3, <1>4, <1>5, <1>6 DEF ClientStep

\* The server closes a connection only when QEMU has closed its end: QEMU's
\* own connection is another one.
LEMMA ServerCloseMatch ==
  ASSUME MatchInv, TypeInv', client_fd \in Conns, ~copen[client_fd],
         ServerClose(client_fd), client_fd' = None, spc' \in {"loop", "stopping"},
         UNCHANGED <<clientVars, sbuf, resp, nconn, down, copen, backlog>>
  PROVE  MatchInv'
<1> USE ConstAssumption
<1>1. fd # client_fd /\ fd' = fd
  BY DEF MatchInv, OneConnection, None, Conns, clientVars
<1>2. /\ fd # None => up'[fd] = up[fd] /\ sopen'[fd] = sopen[fd]
      /\ \A c \in Conns : up'[c] \in {<<>>, up[c]}
  BY <1>1 DEF ServerClose, MatchInv, TypeInv, TypeOK
<1>3. OneConnection'
  BY <1>1, <1>2 DEF MatchInv, OneConnection, TypeInv, TypeOK, None, Conns, clientVars
<1>4. ClosedByServer' /\ AtRest' /\ MatchedResponse'
  BY <1>1, <1>2 DEF MatchInv, ClosedByServer, AtRest, MatchedResponse, None, Conns, clientVars
<1>5. OwnMessages'
  BY <1>1, <1>2 DEF MatchInv, OwnMessages, None, clientVars
<1>6. Progress'
  <2>1. Answered' = Answered
    BY DEF Answered, clientVars
  <2> QED
    BY <1>1, <1>2, <2>1 DEF MatchInv, OneConnection, Progress, None, clientVars
<1> QED
  BY <1>3, <1>4, <1>5, <1>6 DEF MatchInv

\* The simulator's process ends: every connection is closed at its end.
LEMMA ServerCloseAllMatch ==
  ASSUME MatchInv, TypeInv', ServerCloseAll, spc' \in Dead,
         UNCHANGED <<clientVars, nconn, down, copen>>
  PROVE  MatchInv'
<1> USE ConstAssumption DEF None, Conns, Dead
<1>1. /\ \A c \in Conns : up'[c] = <<>> /\ sopen'[c] = FALSE
      /\ client_fd' = None /\ backlog' = <<>> /\ UNCHANGED <<cpc, fd, sent, rbuf, issued, outcome, ret>>
  BY DEF ServerCloseAll, clientVars
<1>2. OneConnection'
  <2>1. \A i \in 1 .. Len(backlog') : backlog'[i] <= nconn'
    BY <1>1
  <2>2. client_fd' <= nconn' /\ UNCHANGED <<nconn, copen, down, fd, cpc>>
    BY <1>1 DEF MatchInv, TypeInv, TypeOK
  <2>3. \A c \in Conns : c > nconn => up'[c] = <<>> /\ down[c] = <<>>
    BY <1>1 DEF MatchInv, OneConnection
  <2> QED
    BY <2>1, <2>2, <2>3 DEF MatchInv, OneConnection
<1>3. spc' \notin {"recv", "exec", "send"} /\ (fd # None => up'[fd] = <<>> /\ down'[fd] = down[fd])
  BY <1>1 DEF MatchInv, TypeInv, TypeOK
<1>4. ClosedByServer' /\ AtRest' /\ MatchedResponse' /\ OwnMessages'
  <2>1. ClosedByServer'
    BY <1>1, <1>3 DEF ClosedByServer
  <2>2. AtRest' /\ MatchedResponse'
    BY <1>1, <1>3 DEF MatchInv, AtRest, MatchedResponse
  <2>3. <<>> \in Seq(Requests(issued))
    OBVIOUS
  <2>4. OwnMessages'
    BY <1>1, <1>3, <2>3 DEF MatchInv, OwnMessages
  <2> QED
    BY <2>1, <2>2, <2>4
<1>5. Progress'
  <2>1. Answered' = Answered
    BY <1>1 DEF Answered
  <2>2. cpc \in {"send", "recv"} => sopen'[fd] = FALSE
    BY <1>1 DEF MatchInv, TypeInv, Control
  <2> QED
    BY <1>1, <2>1, <2>2 DEF MatchInv, Progress
<1> QED
  BY <1>2, <1>4, <1>5 DEF MatchInv

LEMMA ServerMatch == MatchInv /\ ServerStep => MatchInv'
<1> SUFFICES ASSUME MatchInv, ServerStep PROVE MatchInv'
  OBVIOUS
<1>0. TypeInv'
  BY ServerTypeInv DEF MatchInv
<1> USE <1>0, ConstAssumption
<1>1. CASE Accept
  <2>1. /\ client_fd' = Head(backlog) /\ backlog' = Tail(backlog) /\ backlog # <<>>
        /\ spc = "loop" /\ UNCHANGED <<clientVars, spc, sbuf, resp, ssent>>
        /\ UNCHANGED <<nconn, up, down, copen, sopen>>
    BY <1>1 DEF Accept
  <2>2. backlog \in Seq(Conns)
    BY DEF MatchInv, TypeInv, TypeOK
  <2>3. /\ 1 \in 1 .. Len(backlog) /\ client_fd' = backlog[1]
        /\ \A i \in 1 .. Len(backlog') : i + 1 \in 1 .. Len(backlog) /\ backlog'[i] = backlog[i + 1]
    BY <2>1, <2>2
  <2>4. OneConnection'
    BY <2>1, <2>3 DEF MatchInv, OneConnection, clientVars
  <2>5. ClosedByServer' /\ AtRest' /\ MatchedResponse'
    BY <2>1, <2>3 DEF MatchInv, ClosedByServer, AtRest, MatchedResponse, clientVars
  <2>6. OwnMessages'
    BY <2>1 DEF MatchInv, OwnMessages, clientVars
  <2>7. Progress'
    <3>1. Answered' = Answered
      BY <2>1 DEF Answered, clientVars
    <3> QED
      BY <2>1, <3>1 DEF MatchInv, Progress, clientVars
  <2> QED
    BY <2>4, <2>5, <2>6, <2>7 DEF MatchInv
<1>2. CASE Readable
  <2>1. /\ spc = "loop" /\ spc' = "recv" /\ sbuf' = <<>> /\ client_fd # None
        /\ up[client_fd] # <<>> \/ ~copen[client_fd]
        /\ UNCHANGED <<clientVars, client_fd, resp, ssent, netVars>>
    BY <1>2 DEF Readable
  <2>2. client_fd = fd => up[fd] # <<>> /\ cpc \in {"send", "recv"} /\ sopen[fd]
    BY <2>1 DEF MatchInv, OneConnection, ClosedByServer, AtRest, TypeInv, TypeOK, Control
  <2>3. OneConnection' /\ ClosedByServer' /\ AtRest' /\ MatchedResponse'
    BY <2>1, <2>2 DEF MatchInv, OneConnection, ClosedByServer, AtRest, MatchedResponse, clientVars, netVars
  <2>4. OwnMessages'
    BY <2>1 DEF MatchInv, OwnMessages, clientVars, netVars
  <2>5. Progress'
    <3>1. Answered' = Answered
      BY <2>1 DEF Answered, clientVars, netVars
    <3>2. sbuf' = <<>> /\ Len(sbuf') = 0
      BY <2>1
    <3>3. CASE client_fd = fd
      <4>1. Answered = 0 /\ Len(up[fd]) = sent
        BY <2>1, <2>2, <3>3 DEF MatchInv, Progress
      <4>2. fd \in Conns
        BY <2>1, <3>3 DEF MatchInv, TypeInv, TypeOK
      <4>3. Len(up[fd]) + Len(sbuf') = sent
        BY <3>2, <4>1, <4>2, Lengths DEF MatchInv
      <4> QED
        BY <2>1, <2>2, <3>1, <3>3, <4>1, <4>3 DEF MatchInv, Progress, clientVars, netVars
    <3>4. CASE client_fd # fd
      BY <2>1, <3>1, <3>4 DEF MatchInv, Progress, clientVars, netVars
    <3> QED
      BY <3>3, <3>4
  <2> QED
    BY <2>3, <2>4, <2>5 DEF MatchInv
<1>3. CASE ServerRecv
  <2> DEFINE req == Head(up[client_fd])
  <2>1. /\ spc = "recv" /\ up[client_fd] # <<>> /\ sbuf' = Append(sbuf, req)
        /\ up' = [up EXCEPT ![client_fd] = Tail(@)]
        /\ spc' = IF Len(sbuf') = Frags THEN "exec" ELSE "recv"
        /\ UNCHANGED <<clientVars, client_fd, resp, ssent, nconn, down, copen, sopen, backlog>>
        /\ client_fd \in Conns
    BY <1>3 DEF ServerRecv, MatchInv, TypeInv, Control
  <2>2. /\ up'[client_fd] = Tail(up[client_fd])
        /\ \A c \in Conns : c # client_fd => up'[c] = up[c]
    BY <2>1 DEF MatchInv, TypeInv, TypeOK
  <2>3. client_fd <= nconn /\ (client_fd = fd => sopen[fd] /\ cpc \in {"send", "recv"})
    <3>1. client_fd # None
      BY <2>1 DEF Conns, None
    <3>2. client_fd = fd => sopen[fd] /\ cpc # "idle"
      BY <2>1, <3>1 DEF MatchInv, ClosedByServer, AtRest
    <3>3. client_fd = fd => cpc \in {"send", "recv"}
      BY <3>1, <3>2 DEF MatchInv, TypeInv, TypeOK, Control
    <3> QED
      BY <3>2, <3>3 DEF MatchInv, OneConnection
  <2>4. OneConnection' /\ ClosedByServer' /\ AtRest' /\ MatchedResponse'
    <3>1. OneConnection'
      <4>1. \A c \in Conns : c > nconn => up'[c] = up[c]
        BY <2>1, <2>2, <2>3, Unmade DEF MatchInv, TypeInv
      <4> QED
        BY <2>1, <4>1 DEF MatchInv, OneConnection, clientVars
    <3>2. ClosedByServer'
      BY <2>1, <2>2, <2>3 DEF MatchInv, ClosedByServer, clientVars, TypeInv, TypeOK
    <3>3. AtRest' /\ MatchedResponse'
      BY <2>1, <2>2, <2>3 DEF MatchInv, AtRest, MatchedResponse, clientVars, TypeInv, TypeOK
    <3> QED
      BY <3>1, <3>2, <3>3
  <2>5. CASE client_fd = fd
    <3>1. fd # None /\ up[fd] \in Seq(Requests(issued)) /\ sbuf \in Seq(Requests(issued))
      BY <2>1, <2>5 DEF MatchInv, OwnMessages, None, Conns
    <3>2. /\ up'[fd] \in Seq(Requests(issued)) /\ sbuf' \in Seq(Requests(issued))
          /\ Len(up'[fd]) = Len(up[fd]) - 1 /\ Len(sbuf') = Len(sbuf) + 1
      <4> DEFINE q == up[fd]
      <4>1. q \in Seq(Requests(issued)) /\ q # <<>>
        BY <2>1, <2>5, <3>1
      <4>2. up'[fd] = Tail(q) /\ sbuf' = Append(sbuf, Head(q))
        BY <2>1, <2>2, <2>5
      <4> HIDE DEF q
      <4>3. /\ Tail(q) \in Seq(Requests(issued)) /\ Head(q) \in Requests(issued)
            /\ Len(Tail(q)) = Len(q) - 1
        BY <4>1
      <4>4. /\ Append(sbuf, Head(q)) \in Seq(Requests(issued))
            /\ Len(Append(sbuf, Head(q))) = Len(sbuf) + 1
        BY <3>1, <4>3
      <4> QED
        BY <4>2, <4>3, <4>4 DEF q
    <3>3. OwnMessages'
      <4>1. /\ down[fd] \in Seq(Responses(issued))
            /\ cpc \in {"send", "recv"} => rbuf \in Seq(Responses(issued))
        BY <3>1 DEF MatchInv, OwnMessages
      <4>2. UNCHANGED <<fd, issued, down, cpc, rbuf, client_fd>> /\ spc' # "send"
        BY <2>1 DEF clientVars
      <4> HIDE <2>1
      <4> QED
        BY <3>2, <4>1, <4>2 DEF OwnMessages
    <3>4. Answered = 0 /\ Len(up[fd]) + Len(sbuf) = sent
      BY <2>1, <2>3, <2>5 DEF MatchInv, Progress
    <3>5. Len(up'[fd]) + Len(sbuf') = sent /\ Len(sbuf') \in Nat
      <4> DEFINE before == Len(up[fd])
      <4> DEFINE after == Len(up'[fd])
      <4>1. /\ before \in Nat /\ Len(sbuf) \in Nat /\ before + Len(sbuf) = sent
            /\ after = before - 1 /\ Len(sbuf') = Len(sbuf) + 1
        BY <2>1, <2>5, <3>2, <3>4, Lengths DEF MatchInv
      <4> HIDE DEF before, after, req
      <4>2. after + Len(sbuf') = sent /\ Len(sbuf') \in Nat
        BY <4>1
      <4> QED
        BY <4>2 DEF after
    <3>6. Len(sbuf') = Frags => up'[fd] = <<>> /\ sent = Frags
      <4> DEFINE after == Len(up'[fd])
      <4>1. after \in Nat /\ (after = 0 => up'[fd] = <<>>) /\ after + Len(sbuf') = sent
        <5>1. up'[fd] \in Seq(Requests(issued))
          BY <3>2
        <5> QED
          BY <3>5, <5>1
      <4>2. sent <= Frags /\ sent \in Nat
        BY DEF MatchInv, TypeInv, TypeOK
      <4> HIDE DEF after
      <4>3. Len(sbuf') = Frags => after = 0 /\ sent = Frags
        BY <3>5, <4>1, <4>2
      <4> QED
        BY <4>1, <4>3
    <3>7. Progress'
      <4>1. Answered' = Answered
        BY <2>1 DEF Answered, clientVars
      <4> QED
        BY <2>1, <2>3, <2>5, <3>4, <3>5, <3>6, <4>1 DEF MatchInv, Progress, clientVars
    <3> QED
      BY <2>4, <3>3, <3>7 DEF MatchInv
  <2>6. CASE client_fd # fd
    <3>1. fd # None => up'[fd] = up[fd]
      BY <2>2, <2>6 DEF MatchInv, TypeInv, TypeOK
    <3>2. OwnMessages'
      BY <2>1, <2>6, <3>1 DEF MatchInv, OwnMessages, clientVars
    <3>3. Progress'
      <4>1. Answered' = Answered
        BY <2>1 DEF Answered, clientVars
      <4> QED
        BY <2>1, <2>6, <3>1, <4>1 DEF MatchInv, OneConnection, Progress, clientVars
    <3> QED
      BY <2>4, <3>2, <3>3 DEF MatchInv
  <2> QED
    BY <2>5, <2>6
<1>4. CASE ServerRecvFails
  <2>1. /\ ~copen[client_fd] /\ ServerClose(client_fd) /\ client_fd' = None /\ spc' = "loop"
        /\ UNCHANGED <<clientVars, sbuf, resp, nconn, down, copen, backlog>>
    BY <1>4 DEF ServerRecvFails
  <2>2. client_fd \in Conns
    BY <1>4 DEF ServerRecvFails, MatchInv, TypeInv, Control
  <2> QED
    BY <2>1, <2>2, ServerCloseMatch
<1>5. CASE Dispatch
  <2>1. /\ spc = "exec" /\ spc' = "send" /\ resp'.id = sbuf[1].id /\ ssent' = 0
        /\ UNCHANGED <<clientVars, client_fd, sbuf, netVars>>
    BY <1>5 DEF Dispatch
  <2>2. client_fd = fd /\ fd # None => resp'.id = issued
    <3> SUFFICES ASSUME client_fd = fd, fd # None PROVE resp'.id = issued
      OBVIOUS
    <3>1. sbuf \in Seq(Requests(issued)) /\ Len(sbuf) = Frags
      BY <2>1 DEF MatchInv, OwnMessages, TypeInv, Control
    <3>2. sbuf[1] \in Requests(issued)
      BY <3>1
    <3> QED
      BY <2>1, <3>2 DEF Requests
  <2>3. OneConnection' /\ ClosedByServer' /\ AtRest' /\ MatchedResponse'
    BY <2>1 DEF MatchInv, OneConnection, ClosedByServer, AtRest, MatchedResponse, clientVars, netVars
  <2>4. OwnMessages'
    BY <2>1, <2>2 DEF MatchInv, OwnMessages, clientVars, netVars
  <2>5. Progress'
    <3>1. Answered' = Answered
      BY <2>1 DEF Answered, clientVars, netVars
    <3> QED
      BY <2>1, <3>1 DEF MatchInv, Progress, clientVars, netVars
  <2> QED
    BY <2>3, <2>4, <2>5 DEF MatchInv
<1>6. CASE ServerSend
  <2> DEFINE ans == [id |-> resp.id, status |-> resp.status, irq |-> resp.irq,
                     part |-> ssent + 1]
  <2>1. /\ spc = "send" /\ copen[client_fd] /\ client_fd \in Conns
        /\ down' = [down EXCEPT ![client_fd] = Append(@, ans)]
        /\ ssent' = ssent + 1
        /\ spc' \in IF ssent' = Frags THEN {"loop", "stopping"} ELSE {"send"}
        /\ UNCHANGED <<clientVars, client_fd, sbuf, resp, nconn, up, copen, sopen, backlog>>
    BY <1>6 DEF ServerSend, AfterSend, MatchInv, TypeInv, Control
  <2>2. client_fd = fd /\ fd # None /\ fd \in Conns
    BY <2>1 DEF MatchInv, OneConnection, None, Conns
  <2>3. sopen[fd] /\ cpc \in {"send", "recv"} /\ cpc # "idle"
    BY <2>1, <2>2 DEF MatchInv, ClosedByServer, AtRest, TypeInv, TypeOK, Control
  <2>4. /\ down'[fd] = Append(down[fd], ans)
        /\ \A c \in Conns : c # fd => down'[c] = down[c]
        /\ down[fd] \in Seq(Responses(issued))
    BY <2>1, <2>2 DEF MatchInv, TypeInv, TypeOK, OwnMessages
  <2>5. ans \in Responses(issued)
    <3>1. resp.id = issued /\ resp \in Reply /\ ssent \in 0 .. Frags - 1
      BY <2>1, <2>2 DEF MatchInv, OwnMessages, TypeInv, TypeOK, Control
    <3> QED
      BY <3>1 DEF Responses, Response, Reply
  <2>6. down'[fd] \in Seq(Responses(issued)) /\ Len(down'[fd]) = Len(down[fd]) + 1
    BY <2>4, <2>5
  <2>7. /\ Answered = ssent /\ up[fd] = <<>> /\ sent = Frags /\ ssent < Frags
        /\ ssent \in Nat
    BY <2>1, <2>2, <2>3 DEF MatchInv, Progress, TypeInv, TypeOK, Control
  <2>8. Answered' = ssent'
    <3> DEFINE before == Len(down[fd])
    <3> DEFINE after == Len(down'[fd])
    <3>1. Answered = before + Len(rbuf) /\ Answered' = after + Len(rbuf)
      BY <2>1 DEF Answered, clientVars
    <3>2. after = before + 1 /\ before \in Nat /\ Len(rbuf) \in Nat
      BY <2>2, <2>6, Lengths DEF MatchInv
    <3> HIDE DEF before, after
    <3> QED
      BY <2>1, <2>7, <3>1, <3>2
  <2>9. OneConnection'
    BY <2>1, <2>2, <2>4 DEF MatchInv, OneConnection, TypeInv, TypeOK, clientVars, Conns
  <2>10. ClosedByServer' /\ AtRest' /\ MatchedResponse'
    BY <2>1, <2>3 DEF MatchInv, ClosedByServer, AtRest, MatchedResponse, clientVars
  <2>11. OwnMessages'
    BY <2>1, <2>2, <2>6 DEF MatchInv, OwnMessages, clientVars
  <2>12. Progress'
    BY <2>1, <2>2, <2>3, <2>7, <2>8 DEF Progress, clientVars
  <2> QED
    BY <2>9, <2>10, <2>11, <2>12 DEF MatchInv
<1>7. CASE ServerSendFails
  <2>1. /\ ~copen[client_fd] /\ UNCHANGED <<clientVars, sbuf, resp, nconn, down, copen>>
        /\ client_fd \in Conns
    BY <1>7 DEF ServerSendFails, MatchInv, TypeInv, Control
  <2>2. CASE sigpipe = "ignored"
    <3>1. /\ ServerClose(client_fd) /\ client_fd' = None /\ spc' \in {"loop", "stopping"}
          /\ UNCHANGED backlog
      BY <1>7, <2>2 DEF ServerSendFails, AfterSend
    <3> QED
      BY <2>1, <3>1, ServerCloseMatch
  <2>3. CASE sigpipe = "default"
    <3>1. ServerCloseAll /\ spc' \in Dead
      BY <1>7, <2>3 DEF ServerSendFails, Dead
    <3> QED
      BY <2>1, <3>1, ServerCloseAllMatch
  <2> QED
    BY <1>7, <2>2, <2>3 DEF ServerSendFails
<1>8. CASE Shutdown
  BY <1>8, ServerCloseAllMatch DEF Shutdown, Dead
<1> QED
  BY <1>1, <1>2, <1>3, <1>4, <1>5, <1>6, <1>7, <1>8 DEF ServerStep

\* A new access starts on a connection at rest, or on none.
LEMMA BeginMatch ==
  ASSUME MatchInv, TypeInv', cpc = "idle", NEW o, BeginTransact(o),
         UNCHANGED <<fd, ret, serverVars, netVars>>
  PROVE  MatchInv'
<1> USE DEF BeginTransact, serverVars, netVars
<1>1. OneConnection'
  BY DEF MatchInv, OneConnection
<1>2. ClosedByServer' /\ AtRest' /\ MatchedResponse'
  BY DEF MatchInv, ClosedByServer, AtRest, MatchedResponse
<1>3. fd # None => up[fd] = <<>> /\ down[fd] = <<>>
                   /\ (client_fd = fd => spc \notin {"recv", "exec", "send"})
  BY DEF MatchInv, AtRest
<1>4. OwnMessages'
  <2>1. <<>> \in Seq(Requests(issued')) /\ <<>> \in Seq(Responses(issued'))
    OBVIOUS
  <2> QED
    BY <1>3, <2>1 DEF OwnMessages
<1>5. Progress'
  <2>1. fd # None => Answered' = 0
    BY <1>3 DEF Answered
  <2> QED
    BY <1>3, <2>1, ConstAssumption DEF Progress
<1> QED
  BY <1>1, <1>2, <1>4, <1>5 DEF MatchInv

LEMMA EnvironmentMatch == MatchInv /\ Environment => MatchInv'
<1> SUFFICES ASSUME MatchInv, Environment PROVE MatchInv'
  OBVIOUS
<1>0. TypeInv'
  BY EnvironmentTypeInv DEF MatchInv
<1> USE <1>0, ConstAssumption
<1>1. CASE Access
  <2>1. PICK o \in {"mapped", "unmapped"} : BeginTransact(o)
    BY <1>1 DEF Access
  <2> QED
    BY <1>1, <2>1, BeginMatch DEF Access
<1>2. CASE Unrealize
  <2>1. CASE fd # None
    <3>1. BeginTransact("quit")
      BY <1>2, <2>1 DEF Unrealize
    <3> QED
      BY <1>2, <3>1, BeginMatch DEF Unrealize
  <2>2. CASE fd = None
    <3>1. copen = [c \in Conns |-> FALSE]
      BY <2>2 DEF MatchInv, OneConnection, TypeInv, TypeOK, None, Conns
    <3>2. /\ cpc' = "gone" /\ fd' = None /\ UNCHANGED <<issued, outcome, ret>>
          /\ UNCHANGED <<nconn, client_fd, backlog, copen, up, down>>
      BY <1>2, <2>2 DEF Unrealize, serverVars, netVars
    <3> QED
      BY <3>1, <3>2, NoConnectionMatch DEF MatchInv, MatchedResponse
  <2> QED
    BY <2>1, <2>2
<1>3. CASE Interrupted
  <2>1. LinkFail /\ fd \in Conns
    BY <1>3 DEF Interrupted, MatchInv, TypeInv, Control
  <2> QED
    BY <2>1, LinkFailMatch
<1>4. CASE QemuKilled
  <2>1. /\ fd' = None /\ up' = up /\ cpc' = "gone" /\ MatchedResponse'
        /\ UNCHANGED <<nconn, client_fd, backlog>>
    BY <1>4 DEF QemuKilled, MatchedResponse, serverVars
  <2>2. CASE fd = None
    <3>1. copen = [c \in Conns |-> FALSE] /\ UNCHANGED <<copen, down>>
      BY <1>4, <2>2 DEF QemuKilled, MatchInv, OneConnection, TypeInv, TypeOK, None, Conns
    <3> QED
      BY <2>1, <3>1, NoConnectionMatch
  <2>3. CASE fd # None
    <3>1. fd \in Conns /\ ClientClose(fd)
      BY <1>4, <2>3 DEF QemuKilled, MatchInv, TypeInv, TypeOK
    <3> QED
      BY <2>1, <3>1, ClosedMatch
  <2> QED
    BY <2>2, <2>3
<1>5. CASE QemuStart
  <2>1. fd = None
    BY <1>5 DEF QemuStart, MatchInv, TypeInv, Control
  <2>2. copen = [c \in Conns |-> FALSE]
    BY <2>1 DEF MatchInv, OneConnection, TypeInv, TypeOK, None, Conns
  <2> QED
    BY <1>5, <2>2, NoConnectionMatch DEF QemuStart, MatchedResponse, serverVars, netVars
<1>6. CASE ServerKilled
  BY <1>6, ServerCloseAllMatch DEF ServerKilled, Dead
<1>7. CASE ServerStart
  <2>1. /\ spc' = "loop" /\ client_fd' = None /\ spc \in Dead
        /\ UNCHANGED <<clientVars, netVars>>
    BY <1>7 DEF ServerStart
  <2>2. OneConnection' /\ ClosedByServer' /\ AtRest' /\ MatchedResponse' /\ OwnMessages'
    BY <2>1 DEF MatchInv, OneConnection, ClosedByServer, AtRest, MatchedResponse, OwnMessages,
                clientVars, netVars, None, TypeInv, TypeOK
  <2>3. Progress'
    <3>1. Answered' = Answered
      BY <2>1 DEF Answered, clientVars, netVars
    <3> QED
      BY <2>1, <3>1 DEF MatchInv, Progress, clientVars, netVars, Dead
  <2> QED
    BY <2>2, <2>3 DEF MatchInv
<1>8. CASE ConnectInterrupted
  <2>1. fd = None /\ copen = [c \in Conns |-> FALSE]
    BY <1>8 DEF ConnectInterrupted, MatchInv, OneConnection, TypeInv, TypeOK, Control, Conns, None
  <2> QED
    BY <1>8, <2>1, NoConnectionMatch
       DEF ConnectInterrupted, Abandon, serverVars, netVars, MatchedResponse
<1> QED
  BY <1>1, <1>2, <1>3, <1>4, <1>5, <1>6, <1>7, <1>8 DEF Environment

LEMMA StutterMatch == MatchInv /\ UNCHANGED vars => MatchInv'
<1> SUFFICES ASSUME MatchInv, UNCHANGED vars PROVE MatchInv'
  OBVIOUS
<1>1. TypeInv'
  BY StutterTypeInv DEF MatchInv
<1>2. Answered' = Answered
  BY DEF Answered, vars, clientVars, netVars
<1> QED
  BY <1>1, <1>2 DEF MatchInv, OneConnection, ClosedByServer, OwnMessages, Progress, AtRest,
       MatchedResponse, vars, clientVars, serverVars, netVars

LEMMA InitMatch == Init => MatchInv
  BY InitTypeInv DEF Init, MatchInv, OneConnection, ClosedByServer, OwnMessages, Progress,
       AtRest, MatchedResponse, None, Conns

\* A callback that returns with an answer returns the answer to its own
\* request, whatever was interrupted, closed, killed and restarted before.
THEOREM OwnResponse == Spec => []MatchedResponse
<1>1. Init => MatchInv
  BY InitMatch
<1>2. MatchInv /\ [Next]_vars => MatchInv'
  BY ClientMatch, ServerMatch, EnvironmentMatch, StutterMatch DEF Next
<1>3. MatchInv => MatchedResponse
  BY DEF MatchInv
<1> QED
  BY <1>1, <1>2, <1>3, PTL DEF Spec

(***************************************************************************)
(* WholeRequests.  What the server has read of a request and what is still *)
(* on its way are one run of fragments, on every connection, abandoned or  *)
(* not: nothing else is ever appended to a request that broke off, because *)
(* a connection that breaks is not used again.                             *)
(***************************************************************************)

Taken(c) == IF client_fd = c /\ spc = "recv" THEN Len(sbuf) ELSE 0

\* The fragments on connection c follow those the server took from it.
RunOn(c) ==
  /\ \A i \in 1 .. Len(up[c]) : /\ up[c][i].part = Taken(c) + i
                                /\ up[c][i].id = up[c][1].id
  /\ client_fd = c /\ spc = "recv" /\ sbuf # <<>> /\ up[c] # <<>> =>
       up[c][1].id = sbuf[1].id

\* The fragments taken are the first of one request.
RunTaken == spc \in {"recv", "exec"} =>
              \A i \in 1 .. Len(sbuf) : sbuf[i].part = i /\ sbuf[i].id = sbuf[1].id

\* A request that is whole left nothing behind it.
NothingLeft == spc = "exec" => up[client_fd] = <<>>

WholeInv == RunTaken /\ NothingLeft /\ \A c \in Conns : RunOn(c)

(***************************************************************************)
(* The refinement.  Requests are dispatched in the order of the accesses   *)
(* because the server serves the connections in the order in which they    *)
(* were made, and an access is the only one on its connection.             *)
(***************************************************************************)

\* The connections the server holds, in the order they were made.
Queue ==
  /\ \A i, j \in 1 .. Len(backlog) : i < j => backlog[i] < backlog[j]
  /\ \A i \in 1 .. Len(backlog) : client_fd < backlog[i]
  /\ fd # None => fd = nconn
  /\ spc \in Dead => client_fd = None
  /\ \A c \in Conns : up[c] # <<>> \/ sopen[c] =>
       c = client_fd \/ \E i \in 1 .. Len(backlog) : backlog[i] = c

\* The accesses connection c holds: requested on it and not yet performed.
Held(c) ==
  {n \in 1 .. MaxAccess :
     \/ \E i \in 1 .. Len(up[c]) : up[c][i].id = n
     \/ client_fd = c /\ spc \in {"recv", "exec"} /\ sbuf # <<>> /\ sbuf[1].id = n}

\* What is held is newer than what was performed, and newer than what is held
\* on the connections made before; the access under way is the newest.
Order ==
  /\ served <= issued
  /\ cpc \in {"connect", "send"} => served < issued
  /\ \A c \in Conns : \A n \in Held(c) :
       /\ served < n /\ n <= issued
       /\ cpc \in {"connect", "send", "recv"} /\ c # fd => n < issued
  /\ \A c, d \in Conns : c < d => \A n \in Held(c), m \in Held(d) : n < m

\* An answer on its way carries what was sampled with the latest dispatch.
Sampled ==
  /\ spc = "send" => resp.id = served /\ resp.irq = sampled
  /\ cpc \in {"send", "recv"} =>
       /\ \A i \in 1 .. Len(rbuf) : rbuf[i].id = served /\ rbuf[i].irq = sampled
       /\ \A i \in 1 .. Len(down[fd]) : down[fd][i].id = served /\ down[fd][i].irq = sampled

\* A callback is being executed exactly while the access is busy.
Busy == outcome = "busy" <=> cpc \in {"connect", "send", "recv"}

RpcInv == WholeInv /\ Queue /\ Order /\ Sampled /\ Busy

LEMMA UpType ==
  ASSUME TypeOK, NEW c \in Conns
  PROVE  /\ up[c] \in Seq(Request) /\ Len(up[c]) \in Nat
         /\ \A i \in 1 .. Len(up[c]) : up[c][i] \in Request
<1>1. up[c] \in Seq(Request)
  BY DEF TypeOK
<1> QED
  BY <1>1

LEMMA TailElements ==
  ASSUME NEW T, NEW s \in Seq(T), s # <<>>
  PROVE  /\ 1 \in 1 .. Len(s) /\ Head(s) = s[1] /\ Len(Tail(s)) = Len(s) - 1
         /\ Tail(s) \in Seq(T)
         /\ \A i \in 1 .. Len(Tail(s)) : i + 1 \in 1 .. Len(s) /\ Tail(s)[i] = s[i + 1]
  OBVIOUS

LEMMA AppendElements ==
  ASSUME NEW T, NEW s \in Seq(T), NEW e
  PROVE  /\ Len(s) \in Nat /\ Len(Append(s, e)) = Len(s) + 1 /\ Append(s, e)[Len(s) + 1] = e
         /\ \A i \in 1 .. Len(s) : Append(s, e)[i] = s[i] /\ s[i] \in T
  OBVIOUS

LEMMA BufType ==
  ASSUME TypeOK
  PROVE  /\ sbuf \in Seq(Request) /\ Len(sbuf) \in Nat
         /\ \A i \in 1 .. Len(sbuf) : sbuf[i] \in Request
<1>1. sbuf \in Seq(Request)
  BY DEF TypeOK
<1> QED
  BY <1>1

\* While it sends, the fragments that left are those taken or on their way.
LEMMA SentSoFar ==
  ASSUME MatchInv, cpc = "send", sopen[fd]
  PROVE  sent = Taken(fd) + Len(up[fd])
<1>1. sent < Frags /\ sent \in Nat /\ Frags \in Nat /\ fd \in Conns
  BY ConstAssumption DEF MatchInv, TypeInv, TypeOK, Control
<1>2. Len(up[fd]) \in Nat /\ Len(sbuf) \in Nat
  BY <1>1, UpType, BufType DEF MatchInv, TypeInv
<1>3. CASE client_fd = fd /\ spc = "recv"
  <2>1. Len(up[fd]) + Len(sbuf) = sent
    BY <1>3 DEF MatchInv, Progress
  <2> QED
    BY <1>2, <1>3, <2>1 DEF Taken
<1>4. CASE ~(client_fd = fd /\ spc = "recv")
  <2>1. ~(client_fd = fd /\ spc \in {"recv", "exec", "send"})
    BY <1>1, <1>4 DEF MatchInv, Progress
  <2>2. Len(up[fd]) = sent
    BY <1>1, <2>1 DEF MatchInv, Progress
  <2>3. Taken(fd) = 0
    BY <1>4 DEF Taken
  <2> QED
    BY <1>2, <2>2, <2>3
<1> QED
  BY <1>3, <1>4

LEMMA SameWhole ==
  ASSUME WholeInv, UNCHANGED <<up, sbuf, spc, client_fd>>
  PROVE  WholeInv'
  BY DEF WholeInv, RunTaken, NothingLeft, RunOn, Taken

\* A step that ends or does not begin the reading of a request.
LEMMA NotReading ==
  ASSUME WholeInv, spc' \notin {"recv", "exec"},
         \A c \in Conns : up'[c] = <<>> \/ (up'[c] = up[c] /\ Taken(c) = 0)
  PROVE  WholeInv'
<1>1. ASSUME NEW c \in Conns PROVE RunOn(c)'
  <2>1. CASE up'[c] = <<>>
    BY <2>1 DEF RunOn
  <2>2. CASE up'[c] = up[c] /\ Taken(c) = 0
    BY <2>2 DEF WholeInv, RunOn, Taken
  <2> QED
    BY <1>1, <2>1, <2>2
<1> QED
  BY <1>1 DEF WholeInv, RunTaken, NothingLeft

LEMMA SendWhole ==
  ASSUME MatchInv, WholeInv, SendFragment
  PROVE  WholeInv'
<1> DEFINE e == [id |-> issued, op |-> op, part |-> sent + 1]
<1>1. /\ cpc = "send" /\ sopen[fd] /\ fd \in Conns /\ up' = [up EXCEPT ![fd] = Append(@, e)]
      /\ UNCHANGED <<sbuf, spc, client_fd>>
  BY DEF SendFragment, MatchInv, TypeInv, Control, serverVars
<1>2. sent = Taken(fd) + Len(up[fd]) /\ up[fd] \in Seq(Request)
  BY <1>1, SentSoFar, UpType DEF MatchInv, TypeInv
<1>3. up'[fd] = Append(up[fd], e) /\ \A c \in Conns \ {fd} : up'[c] = up[c]
  BY <1>1 DEF MatchInv, TypeInv, TypeOK
<1>4. Taken(fd)' = Taken(fd)
  BY <1>1 DEF Taken, SendFragment, clientVars
<1>5. up[fd] \in Seq(Requests(issued))
  BY <1>1 DEF MatchInv, OwnMessages, None, Conns
<1>6. \A i \in 1 .. Len(up[fd]) : up[fd][i].id = issued
  BY <1>5 DEF Requests
<1>7. /\ Len(up'[fd]) = Len(up[fd]) + 1 /\ Len(up[fd]) \in Nat
      /\ \A i \in 1 .. Len(up[fd]) : up'[fd][i] = up[fd][i]
      /\ up'[fd][Len(up[fd]) + 1] = e
  BY <1>2, <1>3
<1>8. Taken(fd) \in Nat
  BY BufType DEF Taken, MatchInv, TypeInv
<1>9. \A i \in 1 .. Len(up'[fd]) : up'[fd][i].part = Taken(fd) + i /\ up'[fd][i].id = issued
  <2> SUFFICES ASSUME NEW i \in 1 .. Len(up'[fd])
               PROVE  up'[fd][i].part = Taken(fd) + i /\ up'[fd][i].id = issued
    OBVIOUS
  <2>1. CASE i \in 1 .. Len(up[fd])
    BY <1>1, <1>6, <1>7, <2>1 DEF WholeInv, RunOn
  <2>2. CASE i = Len(up[fd]) + 1
    <3>1. up'[fd][i].part = sent + 1 /\ up'[fd][i].id = issued
      BY <1>7, <2>2
    <3> QED
      BY <1>2, <1>7, <1>8, <2>2, <3>1
  <2> QED
    BY <1>7, <2>1, <2>2
<1>10. 1 \in 1 .. Len(up'[fd])
  BY <1>7
<1>11. client_fd = fd /\ spc = "recv" /\ sbuf # <<>> => sbuf[1].id = issued
  <2>1. client_fd = fd /\ spc = "recv" => sbuf \in Seq(Requests(issued))
    BY <1>1 DEF MatchInv, OwnMessages, None, Conns
  <2> QED
    BY <2>1 DEF Requests
<1>12. RunOn(fd)'
  <2>1. ASSUME NEW fd1, fd1 = fd PROVE RunOn(fd1)'
    <3>1. Taken(fd1)' = Taken(fd)
      BY <1>1, <2>1 DEF Taken
    <3> QED
      BY <1>1, <1>9, <1>10, <1>11, <2>1, <3>1 DEF RunOn
  <2> QED
    BY <1>1, <2>1 DEF SendFragment
<1>13. \A c \in Conns \ {fd} : RunOn(c)'
  BY <1>1, <1>3 DEF WholeInv, RunOn, Taken
<1>14. fd' = fd
  BY DEF SendFragment
<1>15. \A c \in Conns : RunOn(c)'
  BY <1>12, <1>13, <1>14
<1>16. NothingLeft'
  <2>1. spc = "exec" => client_fd # fd /\ client_fd \in Conns
    BY <1>1, ConstAssumption DEF MatchInv, Progress, TypeInv, TypeOK, Control
  <2> QED
    BY <1>1, <1>3, <2>1 DEF WholeInv, NothingLeft
<1> QED
  BY <1>1, <1>15, <1>16 DEF WholeInv, RunTaken

LEMMA ReceiveWhole ==
  ASSUME TypeInv, WholeInv, ServerRecv
  PROVE  WholeInv'
<1>1. /\ client_fd \in Conns /\ spc = "recv" /\ up[client_fd] # <<>>
      /\ sbuf' = Append(sbuf, Head(up[client_fd]))
      /\ up' = [up EXCEPT ![client_fd] = Tail(@)] /\ client_fd' = client_fd
      /\ spc' = IF Len(sbuf') = Frags THEN "exec" ELSE "recv"
  BY DEF ServerRecv, TypeInv, Control
<1> DEFINE c == client_fd
<1>2. up[c] \in Seq(Request) /\ sbuf \in Seq(Request) /\ Len(up[c]) \in Nat /\ Len(sbuf) \in Nat
  BY <1>1, UpType, BufType DEF TypeInv
<1>3. /\ up'[c] = Tail(up[c]) /\ \A d \in Conns \ {c} : up'[d] = up[d]
      /\ 1 \in 1 .. Len(up[c]) /\ Len(up'[c]) = Len(up[c]) - 1
      /\ \A i \in 1 .. Len(up'[c]) : i + 1 \in 1 .. Len(up[c]) /\ up'[c][i] = up[c][i + 1]
  <2>1. up'[c] = Tail(up[c]) /\ \A d \in Conns \ {c} : up'[d] = up[d]
    BY <1>1 DEF TypeInv, TypeOK
  <2>2. /\ 1 \in 1 .. Len(up[c]) /\ Len(Tail(up[c])) = Len(up[c]) - 1
        /\ \A i \in 1 .. Len(Tail(up[c])) :
             i + 1 \in 1 .. Len(up[c]) /\ Tail(up[c])[i] = up[c][i + 1]
    BY <1>1, <1>2, TailElements
  <2> HIDE DEF c
  <2> QED
    BY <2>1, <2>2
<1>4. /\ Len(sbuf') = Len(sbuf) + 1 /\ sbuf'[Len(sbuf) + 1] = up[c][1]
      /\ \A i \in 1 .. Len(sbuf) : sbuf'[i] = sbuf[i]
  BY <1>1, <1>2
<1>5. /\ \A i \in 1 .. Len(up[c]) : up[c][i].part = Len(sbuf) + i /\ up[c][i].id = up[c][1].id
      /\ sbuf # <<>> => up[c][1].id = sbuf[1].id
  BY <1>1 DEF WholeInv, RunOn, Taken
<1>6. \A i \in 1 .. Len(sbuf) : sbuf[i].part = i /\ sbuf[i].id = sbuf[1].id
  BY <1>1 DEF WholeInv, RunTaken
<1>7. sbuf'[1].id = up[c][1].id
  <2>1. CASE sbuf = <<>>
    BY <1>4, <2>1
  <2>2. CASE sbuf # <<>>
    <3>1. 1 \in 1 .. Len(sbuf)
      BY <1>2, <2>2
    <3> QED
      BY <1>4, <1>5, <2>2, <3>1
  <2> QED
    BY <2>1, <2>2
<1>8. \A i \in 1 .. Len(sbuf') : sbuf'[i].part = i /\ sbuf'[i].id = sbuf'[1].id
  <2> SUFFICES ASSUME NEW i \in 1 .. Len(sbuf')
               PROVE  sbuf'[i].part = i /\ sbuf'[i].id = sbuf'[1].id
    OBVIOUS
  <2>1. CASE i \in 1 .. Len(sbuf)
    <3>1. sbuf # <<>> /\ sbuf'[i] = sbuf[i]
      BY <1>2, <1>4, <2>1
    <3> QED
      BY <1>5, <1>6, <1>7, <2>1, <3>1
  <2>2. CASE i = Len(sbuf) + 1
    BY <1>3, <1>4, <1>5, <1>7, <2>2
  <2> QED
    BY <1>2, <1>4, <2>1, <2>2
<1>9. spc' = "exec" => up'[c] = <<>>
  <2> SUFFICES ASSUME spc' = "exec", up'[c] # <<>> PROVE FALSE
    OBVIOUS
  <2>1. Len(sbuf) + 1 = Frags
    BY <1>1, <1>4
  <2>2. up'[c] \in Seq(Request)
    BY <1>2, <1>3
  <2>3. 1 \in 1 .. Len(up'[c])
    BY <2>2
  <2>4. 2 \in 1 .. Len(up[c])
    BY <1>2, <1>3, <2>3
  <2>5. up[c][2] \in Request /\ up[c][2].part = Len(sbuf) + 2
    BY <1>2, <1>5, <2>4
  <2>6. Frags \in Nat /\ up[c][2].part \in 1 .. Frags
    BY <2>5, ConstAssumption DEF Request
  <2> QED
    BY <1>2, <2>1, <2>5, <2>6
<1>10. ASSUME NEW d \in Conns, d = c PROVE RunOn(d)'
  <2>1. CASE spc' = "exec"
    BY <1>1, <1>9, <1>10, <2>1 DEF RunOn
  <2>2. CASE spc' = "recv"
    <3>1. Taken(d)' = Len(sbuf) + 1
      BY <1>1, <1>4, <1>10, <2>2 DEF Taken
    <3>2. \A i \in 1 .. Len(up'[c]) :
            up'[c][i].part = Len(sbuf) + 1 + i /\ up'[c][i].id = up[c][1].id
      <4> SUFFICES ASSUME NEW i \in 1 .. Len(up'[c])
                   PROVE  /\ up'[c][i].part = Len(sbuf) + 1 + i
                          /\ up'[c][i].id = up[c][1].id
        OBVIOUS
      <4>1. i + 1 \in 1 .. Len(up[c]) /\ up'[c][i] = up[c][i + 1]
        BY <1>3
      <4>2. up'[c][i].part = Len(sbuf) + (i + 1) /\ up'[c][i].id = up[c][1].id
        BY <1>5, <4>1
      <4> QED
        BY <1>2, <4>2
    <3>3. \A i \in 1 .. Len(up'[c]) : 1 \in 1 .. Len(up'[c])
      BY <1>2, <1>3
    <3>4. up'[c] # <<>> => 1 \in 1 .. Len(up'[c])
      BY <1>2, <1>3
    <3> QED
      BY <1>1, <1>7, <1>10, <3>1, <3>2, <3>3, <3>4 DEF RunOn
  <2> QED
    BY <1>1, <2>1, <2>2
<1>11. ASSUME NEW d \in Conns, d # c PROVE RunOn(d)'
  BY <1>1, <1>3, <1>11 DEF WholeInv, RunOn, Taken
<1>12. NothingLeft'
  BY <1>1, <1>9 DEF NothingLeft
<1> QED
  BY <1>8, <1>10, <1>11, <1>12 DEF WholeInv, RunTaken

LEMMA ClientWhole == MatchInv /\ WholeInv /\ ClientStep => WholeInv'
<1> SUFFICES ASSUME MatchInv, WholeInv, ClientStep PROVE WholeInv'
  OBVIOUS
<1>1. CASE SendFragment
  BY <1>1, SendWhole
<1>2. CASE Connect \/ ConnectFail \/ RecvFragment \/ PeerClosed \/ Complete
  <2>1. UNCHANGED <<up, sbuf, spc, client_fd>>
    BY <1>2 DEF Connect, ConnectFail, RecvFragment, PeerClosed, LinkFail, Complete,
                serverVars, netVars
  <2> QED
    BY <2>1, SameWhole
<1> QED
  BY <1>1, <1>2 DEF ClientStep

LEMMA ServerWhole == MatchInv /\ WholeInv /\ ServerStep => WholeInv'
<1> SUFFICES ASSUME MatchInv, WholeInv, ServerStep PROVE WholeInv'
  OBVIOUS
<1>1. CASE ServerRecv
  BY <1>1, ReceiveWhole DEF MatchInv
<1>2. CASE Readable
  <2>1. /\ sbuf' = <<>> /\ UNCHANGED <<up, client_fd>> /\ spc = "loop" /\ spc' = "recv"
    BY <1>2 DEF Readable, netVars
  <2>2. ASSUME NEW c \in Conns PROVE Taken(c)' = Taken(c)
    BY <2>1 DEF Taken
  <2> QED
    BY <2>1, <2>2 DEF WholeInv, RunTaken, NothingLeft, RunOn
<1>3. CASE Accept \/ Dispatch \/ ServerSend
  <2>1. /\ spc' \notin {"recv", "exec"} /\ up' = up /\ spc # "recv"
    BY <1>3 DEF Accept, Dispatch, ServerSend, AfterSend, netVars
  <2> QED
    BY <2>1, NotReading DEF Taken
<1>4. CASE ServerRecvFails
  <2>1. spc' = "loop" /\ up' = [up EXCEPT ![client_fd] = <<>>]
    BY <1>4 DEF ServerRecvFails, ServerClose
  <2>2. \A c \in Conns : up'[c] = <<>> \/ (up'[c] = up[c] /\ Taken(c) = 0)
    BY <2>1 DEF Taken, MatchInv, TypeInv, TypeOK
  <2> QED
    BY <2>1, <2>2, NotReading
<1>5. CASE ServerSendFails
  <2>1. spc' \in {"loop", "stopping", "sigpipe"} /\ spc # "recv"
    BY <1>5 DEF ServerSendFails, AfterSend
  <2>2. \A c \in Conns : up'[c] = <<>> \/ (up'[c] = up[c] /\ Taken(c) = 0)
    BY <1>5, <2>1 DEF ServerSendFails, ServerClose, ServerCloseAll, Taken, MatchInv,
                      TypeInv, TypeOK
  <2> QED
    BY <2>1, <2>2, NotReading
<1>6. CASE Shutdown
  BY <1>6, NotReading DEF Shutdown, ServerCloseAll
<1> QED
  BY <1>1, <1>2, <1>3, <1>4, <1>5, <1>6 DEF ServerStep

LEMMA EnvironmentWhole == WholeInv /\ Environment => WholeInv'
<1> SUFFICES ASSUME WholeInv, Environment PROVE WholeInv'
  OBVIOUS
<1>1. CASE Access \/ Unrealize \/ ConnectInterrupted \/ Interrupted \/ QemuKilled \/ QemuStart
  <2>1. UNCHANGED <<up, sbuf, spc, client_fd>>
    BY <1>1 DEF Access, Unrealize, ConnectInterrupted, Interrupted, LinkFail, QemuKilled, QemuStart,
                serverVars, netVars
  <2> QED
    BY <2>1, SameWhole
<1>2. CASE ServerKilled
  BY <1>2, NotReading DEF ServerKilled, ServerCloseAll
<1>3. CASE ServerStart
  BY <1>3, NotReading DEF ServerStart, Dead, Taken, netVars
<1> QED
  BY <1>1, <1>2, <1>3 DEF Environment

LEMMA MatchInductive == Spec => []MatchInv
<1>1. MatchInv /\ [Next]_vars => MatchInv'
  BY ClientMatch, ServerMatch, EnvironmentMatch, StutterMatch DEF Next
<1> QED
  BY InitMatch, <1>1, PTL DEF Spec

LEMMA WholeInductive == Spec => []WholeInv
<1>1. Init => WholeInv
  BY DEF Init, WholeInv, RunTaken, NothingLeft, RunOn, Taken
<1>2. MatchInv /\ WholeInv /\ [Next]_vars => WholeInv'
  <2>1. WholeInv /\ UNCHANGED vars => WholeInv'
    BY SameWhole DEF vars, serverVars, netVars
  <2> QED
    BY <2>1, ClientWhole, ServerWhole, EnvironmentWhole DEF Next
<1> QED
  BY MatchInductive, <1>1, <1>2, PTL DEF Spec

\* For any number of fragments and connections, what the server dispatches is
\* one request, whole, of one access.
THEOREM DispatchedWhole == Spec => []WholeRequests
<1>1. MatchInv /\ WholeInv => WholeRequests
  BY DEF MatchInv, TypeInv, Control, WholeInv, RunTaken, WholeRequests, Whole
<1> QED
  BY MatchInductive, WholeInductive, <1>1, PTL

(***************************************************************************)
(* The steps of the refinement's invariant, part by part.                  *)
(***************************************************************************)

LEMMA BusyStep == TypeInv /\ Busy /\ [Next]_vars => Busy'
<1> SUFFICES ASSUME TypeInv, Busy, [Next]_vars PROVE Busy'
  OBVIOUS
<1>1. CASE ClientStep
  BY <1>1 DEF ClientStep, Connect, ConnectFail, SendFragment, RecvFragment, PeerClosed,
              LinkFail, Abandon, Complete, Busy
<1>2. CASE ServerStep
  BY <1>2 DEF ServerStep, Accept, Readable, ServerRecv, ServerRecvFails, Dispatch,
              ServerSend, ServerSendFails, Shutdown, clientVars, Busy
<1>3. CASE Environment
  BY <1>3 DEF Environment, Access, Unrealize, BeginTransact, ConnectInterrupted, Interrupted,
              LinkFail, Abandon, QemuKilled, QemuStart, ServerKilled, ServerStart, clientVars, Busy
<1>4. CASE UNCHANGED vars
  BY <1>4 DEF vars, clientVars, Busy
<1> QED
  BY <1>1, <1>2, <1>3, <1>4 DEF Next

LEMMA SameQueue ==
  ASSUME Queue, UNCHANGED <<nconn, sopen, backlog, client_fd, spc>>, fd' \in {fd, None},
         \A c \in Conns : up'[c] # <<>> => up[c] # <<>> \/ sopen[c]
  PROVE  Queue'
  BY DEF Queue

LEMMA ConnectQueue ==
  ASSUME MatchInv, Queue, Connect
  PROVE  Queue'
<1>0. TypeOK /\ MaxConns \in Nat
  BY ConstAssumption DEF MatchInv, TypeInv
<1>a. nconn \in Nat /\ backlog \in Seq(Conns) /\ Conns \subseteq Nat
  BY <1>0 DEF TypeOK, Conns
<1>b. client_fd \in Nat /\ client_fd <= nconn
  BY <1>0 DEF TypeOK, Conns, None, MatchInv, OneConnection
<1>1. /\ nconn' = nconn + 1 /\ fd' = nconn + 1
      /\ sopen' = [sopen EXCEPT ![nconn + 1] = TRUE] /\ backlog' = Append(backlog, nconn + 1)
      /\ UNCHANGED <<client_fd, spc, up>>
  BY DEF Connect, serverVars
<1>2. /\ Len(backlog) \in Nat /\ Len(backlog') = Len(backlog) + 1
      /\ backlog'[Len(backlog) + 1] = nconn + 1
      /\ \A i \in 1 .. Len(backlog) : backlog'[i] = backlog[i] /\ backlog[i] \in Nat
  <2> DEFINE last == nconn + 1
  <2>1. backlog' = Append(backlog, last) /\ backlog \in Seq(Conns)
    BY <1>a, <1>1
  <2> HIDE DEF last
  <2>2. /\ Len(backlog) \in Nat /\ Len(backlog') = Len(backlog) + 1
        /\ backlog'[Len(backlog) + 1] = last
        /\ \A i \in 1 .. Len(backlog) : backlog'[i] = backlog[i] /\ backlog[i] \in Conns
    BY <2>1, AppendElements
  <2> QED
    BY <1>a, <2>2 DEF last
<1>3. \A i \in 1 .. Len(backlog) : backlog[i] < nconn + 1
  BY <1>a, <1>2 DEF MatchInv, OneConnection
<1>4. \A i, j \in 1 .. Len(backlog') : i < j => backlog'[i] < backlog'[j]
  <2> SUFFICES ASSUME NEW i \in 1 .. Len(backlog'), NEW j \in 1 .. Len(backlog'), i < j
               PROVE  backlog'[i] < backlog'[j]
    OBVIOUS
  <2>1. i \in 1 .. Len(backlog)
    BY <1>2
  <2>2. CASE j \in 1 .. Len(backlog)
    BY <1>2, <2>1, <2>2 DEF Queue
  <2>3. CASE j = Len(backlog) + 1
    BY <1>2, <1>3, <2>1, <2>3
  <2> QED
    BY <1>2, <2>2, <2>3
<1>5. \A i \in 1 .. Len(backlog') : client_fd < backlog'[i]
  <2> SUFFICES ASSUME NEW i \in 1 .. Len(backlog') PROVE client_fd < backlog'[i]
    OBVIOUS
  <2>1. CASE i \in 1 .. Len(backlog)
    BY <1>2, <2>1 DEF Queue
  <2>2. CASE i = Len(backlog) + 1
    BY <1>a, <1>b, <1>1, <1>2, <2>2
  <2> QED
    BY <1>2, <2>1, <2>2
<1>6. ASSUME NEW c \in Conns, up[c] # <<>> \/ sopen'[c]
      PROVE  c = client_fd \/ \E i \in 1 .. Len(backlog') : backlog'[i] = c
  <2>1. CASE c = nconn + 1
    BY <1>2, <2>1
  <2>2. CASE c # nconn + 1
    <3>1. up[c] # <<>> \/ sopen[c]
      BY <1>1, <1>6, <2>2 DEF MatchInv, TypeInv, TypeOK
    <3>2. c = client_fd \/ \E i \in 1 .. Len(backlog) : backlog[i] = c
      BY <3>1 DEF Queue
    <3>3. \A i \in 1 .. Len(backlog) : i \in 1 .. Len(backlog')
      BY <1>2
    <3> QED
      BY <1>2, <3>2, <3>3
  <2> QED
    BY <2>1, <2>2
<1>7. spc' \in Dead => client_fd' = None
  BY <1>1 DEF Queue
<1> QED
  BY <1>1, <1>4, <1>5, <1>6, <1>7 DEF Queue

LEMMA AcceptQueue ==
  ASSUME MatchInv, Queue, Accept
  PROVE  Queue'
<1>1. /\ client_fd = None /\ backlog # <<>> /\ client_fd' = Head(backlog) /\ backlog' = Tail(backlog)
      /\ backlog \in Seq(Conns) /\ spc' = "loop"
      /\ UNCHANGED <<up, sopen, nconn, fd>>
  BY DEF Accept, clientVars, MatchInv, TypeInv, TypeOK
<1>2. /\ 1 \in 1 .. Len(backlog) /\ client_fd' = backlog[1] /\ Len(backlog) \in Nat
      /\ Len(backlog') = Len(backlog) - 1
      /\ \A i \in 1 .. Len(backlog') : i + 1 \in 1 .. Len(backlog) /\ backlog'[i] = backlog[i + 1]
  BY <1>1, TailElements
<1>3. \A i, j \in 1 .. Len(backlog') : i < j => backlog'[i] < backlog'[j]
  <2> SUFFICES ASSUME NEW i \in 1 .. Len(backlog'), NEW j \in 1 .. Len(backlog'), i < j
               PROVE  backlog'[i] < backlog'[j]
    OBVIOUS
  <2>1. i + 1 < j + 1
    BY <1>2
  <2> QED
    BY <1>2, <2>1 DEF Queue
<1>4. \A i \in 1 .. Len(backlog') : client_fd' < backlog'[i]
  <2> SUFFICES ASSUME NEW i \in 1 .. Len(backlog') PROVE client_fd' < backlog'[i]
    OBVIOUS
  <2>1. 1 < i + 1
    BY <1>2
  <2> QED
    BY <1>2, <2>1 DEF Queue
<1>5. ASSUME NEW c \in Conns, up[c] # <<>> \/ sopen[c]
      PROVE  c = client_fd' \/ \E i \in 1 .. Len(backlog') : backlog'[i] = c
  <2>1. c # None
    BY DEF Conns, None
  <2>2. PICK i \in 1 .. Len(backlog) : backlog[i] = c
    BY <1>1, <1>5, <2>1 DEF Queue
  <2>3. CASE i = 1
    BY <1>2, <2>2, <2>3
  <2>4. CASE i # 1
    <3>1. i - 1 \in 1 .. Len(backlog') /\ (i - 1) + 1 = i
      BY <1>2, <2>4
    <3>2. backlog'[i - 1] = c
      BY <1>2, <2>2, <3>1
    <3> QED
      BY <3>1, <3>2
  <2> QED
    BY <2>3, <2>4
<1>6. fd' # None => fd' = nconn'
  BY <1>1 DEF Queue
<1>7. spc' \notin Dead
  BY <1>1 DEF Dead
<1> QED
  BY <1>1, <1>3, <1>4, <1>5, <1>6, <1>7 DEF Queue

\* The server drops its connection.
LEMMA DropQueue ==
  ASSUME MatchInv, Queue, client_fd \in Conns, ServerClose(client_fd), client_fd' = None,
         UNCHANGED <<backlog, nconn, fd>>
  PROVE  Queue'
<1>1. /\ up' = [up EXCEPT ![client_fd] = <<>>] /\ sopen' = [sopen EXCEPT ![client_fd] = FALSE]
      /\ backlog \in Seq(Conns) /\ Conns \subseteq Nat
  BY DEF ServerClose, MatchInv, TypeInv, TypeOK, Conns
<1>2. \A i \in 1 .. Len(backlog) : None < backlog[i]
  <2>1. \A i \in 1 .. Len(backlog) : backlog[i] \in Conns
    BY <1>1
  <2> QED
    BY <2>1 DEF Conns, None
<1>3. \A c \in Conns : up'[c] # <<>> \/ sopen'[c] => c # client_fd /\ (up[c] # <<>> \/ sopen[c])
  BY <1>1 DEF MatchInv, TypeInv, TypeOK
<1> QED
  BY <1>1, <1>2, <1>3 DEF Queue

LEMMA ClosedAllQueue ==
  ASSUME Queue, ServerCloseAll, UNCHANGED <<nconn, fd>>
  PROVE  Queue'
  BY DEF ServerCloseAll, Queue

LEMMA QueueStep == MatchInv /\ Queue /\ [Next]_vars => Queue'
<1> SUFFICES ASSUME MatchInv, Queue, [Next]_vars PROVE Queue'
  OBVIOUS
<1>0. TypeInv
  BY DEF MatchInv
<1>1. CASE Connect
  BY <1>1, ConnectQueue
<1>2. CASE SendFragment
  <2>1. /\ sopen[fd] /\ UNCHANGED <<nconn, sopen, backlog, client_fd, spc, fd>>
        /\ \A c \in Conns : c # fd => up'[c] = up[c]
    BY <1>0, <1>2 DEF SendFragment, serverVars, TypeInv, TypeOK
  <2> QED
    BY <2>1, SameQueue
<1>3. CASE ConnectFail \/ RecvFragment \/ PeerClosed \/ Complete \/ Access \/ Unrealize
           \/ ConnectInterrupted \/ Interrupted \/ QemuKilled \/ QemuStart \/ UNCHANGED vars
  <2>1. UNCHANGED <<nconn, sopen, backlog, client_fd, spc, up>> /\ fd' \in {fd, None}
    BY <1>3 DEF ConnectFail, RecvFragment, PeerClosed, Complete, Access, Unrealize,
                ConnectInterrupted, Interrupted, QemuKilled, QemuStart, LinkFail, Abandon,
                vars, clientVars, serverVars, netVars
  <2> QED
    BY <2>1, SameQueue
<1>4. CASE Accept
  BY <1>4, AcceptQueue
<1>5. CASE Readable \/ Dispatch \/ ServerSend
  BY <1>5 DEF Readable, Dispatch, ServerSend, AfterSend, clientVars, netVars, Queue, Dead
<1>6. CASE ServerRecv
  <2>1. /\ up[client_fd] # <<>> /\ UNCHANGED <<nconn, sopen, backlog, client_fd, fd>>
        /\ \A c \in Conns : c # client_fd => up'[c] = up[c]
        /\ spc' \in {"exec", "recv"}
    BY <1>0, <1>6 DEF ServerRecv, clientVars, TypeInv, TypeOK
  <2> QED
    BY <2>1 DEF Queue, Dead
<1>7. CASE ServerRecvFails
  BY <1>0, <1>7, DropQueue DEF ServerRecvFails, clientVars, TypeInv, Control
<1>8. CASE ServerSendFails
  BY <1>0, <1>8, DropQueue, ClosedAllQueue DEF ServerSendFails, clientVars, TypeInv, Control
<1>9. CASE Shutdown \/ ServerKilled
  BY <1>9, ClosedAllQueue DEF Shutdown, ServerKilled, clientVars
<1>10. CASE ServerStart
  BY <1>10 DEF ServerStart, Queue, clientVars, netVars, Dead
<1> QED
  BY <1>1, <1>2, <1>3, <1>4, <1>5, <1>6, <1>7, <1>8, <1>9, <1>10
     DEF Next, ClientStep, ServerStep, Environment

\* Nothing new is held and nothing is performed.
LEMMA NothingNew ==
  ASSUME Order, UNCHANGED <<served, issued>>, \A c \in Conns : Held(c)' \subseteq Held(c),
         cpc' \in {"connect", "send"} => cpc \in {"connect", "send"},
         cpc' \in {"connect", "send", "recv"} =>
           cpc \in {"connect", "send", "recv"} /\ (fd' = fd \/ fd \notin Conns)
  PROVE  Order'
<1>1. \A c \in Conns : \A n \in Held(c)' : n \in Held(c)
  OBVIOUS
<1>2. ASSUME NEW c \in Conns, NEW n \in Held(c)',
             cpc' \in {"connect", "send", "recv"}, c # fd'
      PROVE  n < issued'
  BY <1>1, <1>2 DEF Order
<1>3. \A c \in Conns : \A n \in Held(c)' : served' < n /\ n <= issued'
  BY <1>1 DEF Order
<1>4. \A c, d \in Conns : c < d => \A n \in Held(c)', m \in Held(d)' : n < m
  BY <1>1 DEF Order
<1>5. served' <= issued' /\ (cpc' \in {"connect", "send"} => served' < issued')
  BY DEF Order
<1> QED
  BY <1>2, <1>3, <1>4, <1>5 DEF Order

LEMMA BeginOrder ==
  ASSUME TypeInv, Order, NEW o, BeginTransact(o),
         UNCHANGED <<served, up, sbuf, spc, client_fd>>
  PROVE  Order'
<1>1. issued \in Nat /\ served \in Nat /\ issued' = issued + 1 /\ served' = served
  BY ConstAssumption DEF TypeInv, TypeOK, BeginTransact
<1>2. \A c \in Conns : Held(c)' = Held(c)
  BY DEF Held
<1>3. \A c \in Conns : Held(c) \subseteq Nat
  BY DEF Held
<1>4. \A c \in Conns : \A n \in Held(c)' : served' < n /\ n < issued' /\ n <= issued'
  BY <1>1, <1>2, <1>3 DEF Order
<1>5. \A c, d \in Conns : c < d => \A n \in Held(c)', m \in Held(d)' : n < m
  BY <1>2 DEF Order
<1>6. served' < issued' /\ served' <= issued'
  BY <1>1 DEF Order
<1> QED
  BY <1>4, <1>5, <1>6 DEF Order

LEMMA SendOrder ==
  ASSUME MatchInv, Queue, Order, SendFragment
  PROVE  Order'
<1> DEFINE e == [id |-> issued, op |-> op, part |-> sent + 1]
<1>1. /\ cpc = "send" /\ fd \in Conns /\ up' = [up EXCEPT ![fd] = Append(@, e)]
      /\ cpc' \in {"send", "recv"} /\ issued \in 1 .. MaxAccess
      /\ UNCHANGED <<sbuf, spc, client_fd, fd, issued, served>>
  BY DEF SendFragment, MatchInv, TypeInv, Control, serverVars, histVars
<1>2. /\ up[fd] \in Seq(Request) /\ up'[fd] = Append(up[fd], e)
      /\ \A c \in Conns \ {fd} : up'[c] = up[c]
  BY <1>1 DEF MatchInv, TypeInv, TypeOK
<1>3. \A c \in Conns \ {fd} : Held(c)' = Held(c)
  BY <1>1, <1>2 DEF Held
<1>4. ASSUME NEW c \in Conns, c = fd, NEW n \in Held(c)'
      PROVE  n \in Held(c) \/ n = issued
  <2>1. /\ Len(up[fd]) \in Nat /\ Len(up'[fd]) = Len(up[fd]) + 1
        /\ up'[fd][Len(up[fd]) + 1] = e /\ e.id = issued
        /\ \A i \in 1 .. Len(up[fd]) : up'[fd][i] = up[fd][i]
    <3>1. e.id = issued
      OBVIOUS
    <3> HIDE DEF e
    <3> QED
      BY <1>2, <3>1, AppendElements
  <2>2. \A i \in 1 .. Len(up'[fd]) : i \in 1 .. Len(up[fd]) \/ up'[fd][i].id = issued
    BY <2>1
  <2> QED
    BY <1>1, <1>4, <2>1, <2>2 DEF Held
<1>5. \A c \in Conns : c > fd => Held(c) = {}
  <2>1. fd = nconn /\ client_fd <= nconn
    BY <1>1 DEF Queue, MatchInv, OneConnection, Conns, None
  <2>2. \A c \in Conns : c > fd => up[c] = <<>> /\ client_fd # c
    BY <2>1, ConstAssumption DEF MatchInv, OneConnection, TypeInv, TypeOK, Conns, None
  <2> QED
    BY <2>2 DEF Held
<1>6. \A c \in Conns : Held(c) \subseteq Nat
  BY DEF Held
<1>7. \A c \in Conns : \A n \in Held(c)' :
        /\ served' < n /\ n <= issued'
        /\ c # fd' => n < issued'
  BY <1>1, <1>3, <1>4 DEF Order
<1>8. ASSUME NEW c \in Conns, NEW d \in Conns, c < d, NEW n \in Held(c)', NEW m \in Held(d)'
      PROVE  n < m
  <2>1. CASE c = fd
    <3>1. d \in Conns \ {fd} /\ d > fd
      BY <1>8, <2>1 DEF Conns
    <3> QED
      BY <1>3, <1>5, <1>8, <3>1
  <2>2. CASE d = fd
    <3>1. c \in Conns \ {fd}
      BY <1>8, <2>2 DEF Conns
    <3>2. n \in Held(c) /\ n < issued
      BY <1>1, <1>3, <1>8, <3>1 DEF Order
    <3>3. m \in Held(d) \/ m = issued
      BY <1>4, <1>8, <2>2
    <3> QED
      BY <1>8, <3>2, <3>3 DEF Order
  <2>3. CASE c # fd /\ d # fd
    BY <1>3, <1>8, <2>3 DEF Order
  <2> QED
    BY <2>1, <2>2, <2>3
<1>9. served' <= issued' /\ served' < issued'
  BY <1>1 DEF Order
<1> QED
  BY <1>7, <1>8, <1>9 DEF Order

LEMMA ReceiveHeld ==
  ASSUME TypeInv, ServerRecv
  PROVE  \A c \in Conns : Held(c)' \subseteq Held(c)
<1> DEFINE k == client_fd
<1>1. /\ k \in Conns /\ spc = "recv" /\ up[k] # <<>> /\ spc' \in {"recv", "exec"}
      /\ sbuf' = Append(sbuf, Head(up[k])) /\ up' = [up EXCEPT ![k] = Tail(@)]
      /\ client_fd' = client_fd
  BY DEF ServerRecv, TypeInv, Control
<1>2. up[k] \in Seq(Request) /\ sbuf \in Seq(Request)
  BY <1>1, BufType, UpType DEF TypeInv
<1>3. /\ 1 \in 1 .. Len(up[k]) /\ Head(up[k]) = up[k][1]
      /\ \A i \in 1 .. Len(Tail(up[k])) : i + 1 \in 1 .. Len(up[k]) /\ Tail(up[k])[i] = up[k][i + 1]
  BY <1>1, <1>2, TailElements
<1>4. up'[k] = Tail(up[k]) /\ \A c \in Conns \ {k} : up'[c] = up[c]
  BY <1>1 DEF TypeInv, TypeOK
<1>5. sbuf'[1] = IF sbuf = <<>> THEN up[k][1] ELSE sbuf[1]
  BY <1>1, <1>2, <1>3
<1>6. \A c \in Conns \ {k} : Held(c)' = Held(c)
  BY <1>1, <1>4 DEF Held
<1>7. ASSUME NEW c \in Conns, c = k, NEW n \in Held(c)' PROVE n \in Held(c)
  <2>1. n \in 1 .. MaxAccess
    BY <1>7 DEF Held
  <2>2. (\E i \in 1 .. Len(up'[c]) : up'[c][i].id = n) \/ sbuf'[1].id = n
    BY <1>7 DEF Held
  <2>3. CASE \E i \in 1 .. Len(up'[c]) : up'[c][i].id = n
    <3>1. \E i \in 1 .. Len(up[k]) : up[k][i].id = n
      BY <1>3, <1>4, <1>7, <2>3
    <3> QED
      BY <1>7, <2>1, <3>1 DEF Held
  <2>4. CASE sbuf'[1].id = n
    BY <1>1, <1>3, <1>5, <1>7, <2>1, <2>4 DEF Held
  <2> QED
    BY <2>2, <2>3, <2>4
<1> QED
  BY <1>6, <1>7

LEMMA DispatchOrder ==
  ASSUME MatchInv, WholeInv, Queue, Order, Dispatch
  PROVE  Order' /\ served' \in Nat /\ served < served' /\ served' <= issued
<1> DEFINE k == client_fd
<1>1. /\ k \in Conns /\ spc = "exec" /\ spc' = "send" /\ sbuf \in Seq(Request)
      /\ Len(sbuf) = Frags /\ Frags \in Nat \ {0}
      /\ UNCHANGED <<up, sbuf, client_fd, issued, cpc, fd>>
  BY ConstAssumption DEF Dispatch, MatchInv, TypeInv, TypeOK, Control, clientVars, netVars
<1>2. 1 \in 1 .. Len(sbuf) /\ sbuf # <<>>
  BY <1>1
<1>3. sbuf[1].part = 1 /\ sbuf[1].id \in 1 .. MaxAccess
  <2>1. sbuf[1].part = 1
    BY <1>1, <1>2 DEF WholeInv, RunTaken
  <2>2. sbuf[1] \in Request
    BY <1>1, <1>2
  <2> QED
    BY <2>1, <2>2 DEF Request
<1>4. served' = sbuf[1].id
  BY <1>3 DEF Dispatch
<1>5. served' \in Held(k)
  BY <1>1, <1>2, <1>3, <1>4 DEF Held
<1>6. served < served' /\ served' <= issued
  BY <1>1, <1>5 DEF Order
<1>7. \A c \in Conns : c = k => Held(c)' = {}
  <2>1. up[k] = <<>>
    BY <1>1 DEF WholeInv, NothingLeft
  <2>2. ASSUME NEW c, c = k PROVE Held(c)' = {}
    BY <1>1, <2>1, <2>2 DEF Held
  <2> QED
    BY <1>1, <2>2
<1>8. \A c \in Conns \ {k} : Held(c)' = Held(c)
  BY <1>1 DEF Held
<1>9. \A c \in Conns \ {k} : \A n \in Held(c) : served' < n
  <2> SUFFICES ASSUME NEW c \in Conns \ {k}, NEW n \in Held(c) PROVE served' < n
    OBVIOUS
  <2>1. up[c] # <<>>
    BY DEF Held
  <2>2. k < c
    BY <2>1 DEF Queue
  <2> QED
    BY <1>1, <1>5, <2>2 DEF Order
<1>10. \A c \in Conns : \A n \in Held(c)' :
        /\ served' < n /\ n <= issued'
        /\ cpc' \in {"connect", "send", "recv"} /\ c # fd' => n < issued'
  BY <1>1, <1>7, <1>8, <1>9 DEF Order
<1>11. \A c, d \in Conns : c < d => \A n \in Held(c)', m \in Held(d)' : n < m
  BY <1>7, <1>8 DEF Order
<1>12. cpc \in {"connect", "send"} => served' < issued
  <2> SUFFICES ASSUME cpc \in {"connect", "send"} PROVE served' < issued
    OBVIOUS
  <2>1. CASE k # fd
    BY <1>1, <1>5, <2>1 DEF Order
  <2>2. CASE k = fd
    <3>1. cpc = "send" /\ sent < Frags /\ sopen[fd]
      BY <1>1, <2>2 DEF MatchInv, TypeInv, Control, ClosedByServer, Conns, None
    <3>2. sent = Frags
      BY <1>1, <2>2, <3>1 DEF MatchInv, Progress
    <3> QED
      BY <1>1, <3>1, <3>2
  <2> QED
    BY <2>1, <2>2
<1>13. Order'
  BY <1>1, <1>6, <1>10, <1>11, <1>12 DEF Order
<1>14. served' \in Nat
  BY <1>3, <1>4
<1> QED
  BY <1>6, <1>13, <1>14

LEMMA OrderStep == MatchInv /\ WholeInv /\ Queue /\ Order /\ [Next]_vars => Order'
<1> SUFFICES ASSUME MatchInv, WholeInv, Queue, Order, [Next]_vars PROVE Order'
  OBVIOUS
<1>0. TypeInv /\ None \notin Conns
  BY DEF MatchInv, Conns, None
<1>1. CASE Access \/ Unrealize
  <2>1. CASE \E o \in Ops : BeginTransact(o)
    BY <1>0, <1>1, <2>1, BeginOrder DEF Access, Unrealize, serverVars, netVars, histVars
  <2>2. CASE cpc' = "gone" /\ UNCHANGED issued
    BY <1>1, <2>2, NothingNew DEF Access, Unrealize, serverVars, netVars, histVars, Held
  <2> QED
    BY <1>1, <2>1, <2>2 DEF Access, Unrealize, Ops
<1>2. CASE Connect
  <2>1. fd = None /\ cpc = "connect" /\ cpc' = "send"
    BY <1>0, <1>2 DEF Connect, TypeInv, Control
  <2> QED
    BY <1>0, <1>2, <2>1, NothingNew DEF Connect, serverVars, histVars, Held
<1>3. CASE SendFragment
  BY <1>3, SendOrder
<1>4. CASE ConnectFail \/ PeerClosed \/ ConnectInterrupted \/ Interrupted \/ Complete
           \/ QemuKilled \/ QemuStart
  <2>1. cpc' \in {"idle", "gone"} /\ UNCHANGED <<up, sbuf, spc, client_fd, served, issued>>
    BY <1>4 DEF ConnectFail, PeerClosed, ConnectInterrupted, Interrupted, Complete,
                QemuKilled, QemuStart, LinkFail, Abandon, serverVars, netVars, histVars
  <2> QED
    BY <2>1, NothingNew DEF Held
<1>5. CASE RecvFragment \/ UNCHANGED vars
  <2>1. UNCHANGED <<cpc, fd, up, sbuf, spc, client_fd, served, issued>>
    BY <1>5 DEF RecvFragment, vars, clientVars, serverVars, netVars, histVars
  <2> QED
    BY <2>1, NothingNew DEF Held
<1>6. CASE ServerRecv
  BY <1>0, <1>6, ReceiveHeld, NothingNew DEF ServerRecv, clientVars, histVars
<1>7. CASE Dispatch
  BY <1>7, DispatchOrder
<1>8. CASE Accept \/ Readable \/ ServerSend \/ ServerStart
  <2>1. UNCHANGED <<cpc, fd, up, served, issued>>
    BY <1>8 DEF Accept, Readable, ServerSend, ServerStart, clientVars, netVars, histVars
  <2>2. spc' \notin {"recv", "exec"} \/ sbuf' = <<>>
    BY <1>8 DEF Accept, Readable, ServerSend, ServerStart, AfterSend
  <2>3. \A c \in Conns : Held(c)' \subseteq Held(c)
    BY <2>1, <2>2 DEF Held
  <2> QED
    BY <2>1, <2>3, NothingNew
<1>9. CASE ServerRecvFails \/ ServerSendFails \/ Shutdown \/ ServerKilled
  <2>1. UNCHANGED <<cpc, fd, served, issued>> /\ spc' \notin {"recv", "exec"}
    BY <1>9 DEF ServerRecvFails, ServerSendFails, Shutdown, ServerKilled, AfterSend, Dead,
                clientVars, histVars
  <2>2. \A c \in Conns : up'[c] \in {<<>>, up[c]}
    BY <1>0, <1>9 DEF ServerRecvFails, ServerSendFails, Shutdown, ServerKilled, ServerClose,
                      ServerCloseAll, TypeInv, TypeOK
  <2>3. \A c \in Conns : Held(c)' \subseteq Held(c)
    BY <2>1, <2>2 DEF Held
  <2> QED
    BY <2>1, <2>3, NothingNew
<1> QED
  BY <1>1, <1>2, <1>3, <1>4, <1>5, <1>6, <1>7, <1>8, <1>9
     DEF Next, ClientStep, ServerStep, Environment

\* The callback is over, or its buffers are as they were.
LEMMA SameSampled ==
  ASSUME Sampled, UNCHANGED <<served, sampled>>,
         spc' = "send" => spc = "send" /\ resp' = resp,
         cpc' \in {"send", "recv"} =>
           cpc \in {"send", "recv"} /\ rbuf' = rbuf /\ fd' = fd /\ down'[fd] = down[fd]
  PROVE  Sampled'
  BY DEF Sampled

LEMMA BeginSampled ==
  ASSUME MatchInv, Sampled, cpc = "idle", NEW o, BeginTransact(o),
         UNCHANGED <<fd, down, spc, resp, served, sampled>>
  PROVE  Sampled'
<1>1. rbuf' = <<>> /\ (cpc' \in {"send", "recv"} => fd # None)
  BY DEF BeginTransact
<1>2. cpc' \in {"send", "recv"} => down'[fd] = <<>>
  BY <1>1 DEF MatchInv, AtRest
<1> QED
  BY <1>1, <1>2 DEF Sampled

LEMMA ConnectSampled ==
  ASSUME MatchInv, Sampled, Connect
  PROVE  Sampled'
<1>1. rbuf' = <<>> /\ down' = down /\ fd' = nconn + 1 /\ nconn + 1 \in Conns /\ nconn \in Nat
  BY ConstAssumption DEF Connect, MatchInv, TypeInv, TypeOK, Conns, Progress
<1>2. down'[fd'] = <<>>
  BY <1>1 DEF MatchInv, OneConnection
<1>3. UNCHANGED <<spc, resp, served, sampled>>
  BY DEF Connect, serverVars, histVars
<1> QED
  BY <1>1, <1>2, <1>3 DEF Sampled

LEMMA ReceiveSampled ==
  ASSUME TypeInv, Sampled, RecvFragment
  PROVE  Sampled'
<1>1. /\ cpc = "recv" /\ fd \in Conns /\ down[fd] # <<>>
      /\ rbuf' = Append(rbuf, Head(down[fd])) /\ down' = [down EXCEPT ![fd] = Tail(@)]
      /\ UNCHANGED <<cpc, fd, spc, resp, served, sampled>>
  BY DEF RecvFragment, TypeInv, Control, serverVars, histVars
<1>2. down[fd] \in Seq(Response) /\ rbuf \in Seq(Response) /\ down'[fd] = Tail(down[fd])
  BY <1>1 DEF TypeInv, TypeOK
<1>3. /\ 1 \in 1 .. Len(down[fd]) /\ Head(down[fd]) = down[fd][1]
      /\ \A i \in 1 .. Len(Tail(down[fd])) :
           i + 1 \in 1 .. Len(down[fd]) /\ Tail(down[fd])[i] = down[fd][i + 1]
  BY <1>1, <1>2, TailElements
<1>4. /\ Len(rbuf) \in Nat /\ Len(rbuf') = Len(rbuf) + 1 /\ rbuf'[Len(rbuf) + 1] = down[fd][1]
      /\ \A i \in 1 .. Len(rbuf) : rbuf'[i] = rbuf[i]
  <2> DEFINE e == Head(down[fd])
  <2>1. rbuf' = Append(rbuf, e) /\ e = down[fd][1]
    BY <1>1, <1>3
  <2> HIDE DEF e
  <2> QED
    BY <1>2, <2>1, AppendElements
<1>5. \A i \in 1 .. Len(rbuf') : rbuf'[i].id = served /\ rbuf'[i].irq = sampled
  BY <1>1, <1>3, <1>4 DEF Sampled
<1>6. \A i \in 1 .. Len(down'[fd]) : down'[fd][i].id = served /\ down'[fd][i].irq = sampled
  BY <1>1, <1>2, <1>3 DEF Sampled
<1> QED
  BY <1>1, <1>5, <1>6 DEF Sampled

\* When a request is dispatched nothing is left of an earlier answer.
LEMMA DispatchSampled ==
  ASSUME MatchInv, WholeInv, Queue, Order, Sampled, Dispatch
  PROVE  Sampled'
<1>1. /\ client_fd \in Conns /\ spc = "exec" /\ spc' = "send" /\ issued \in Nat /\ served \in Nat
      /\ UNCHANGED <<issued, cpc, fd, rbuf, down>>
  BY ConstAssumption DEF Dispatch, MatchInv, TypeInv, TypeOK, Control, clientVars, netVars
<1>2. resp'.id = served' /\ resp'.irq = sampled'
  BY DispatchOrder DEF Dispatch
<1>3. served < issued
  BY <1>1, DispatchOrder
<1>4. ASSUME cpc \in {"send", "recv"} PROVE rbuf = <<>> /\ down[fd] = <<>>
  <2>1. fd \in Conns /\ fd # None
    BY <1>4 DEF MatchInv, TypeInv, Control, Conns, None
  <2>2. \A i \in 1 .. Len(rbuf) : rbuf[i].id = issued
    BY <1>4, <2>1 DEF MatchInv, OwnMessages, Responses
  <2>3. \A i \in 1 .. Len(down[fd]) : down[fd][i].id = issued
    BY <2>1 DEF MatchInv, OwnMessages, Responses
  <2>4. Len(rbuf) = 0 /\ Len(down[fd]) = 0
    <3>1. \A i \in 1 .. Len(rbuf) : FALSE
      BY <1>1, <1>3, <1>4, <2>2 DEF Sampled
    <3>2. \A i \in 1 .. Len(down[fd]) : FALSE
      BY <1>1, <1>3, <1>4, <2>3 DEF Sampled
    <3>3. Len(rbuf) \in Nat /\ Len(down[fd]) \in Nat
      BY <2>1, Lengths DEF MatchInv
    <3> QED
      BY <3>1, <3>2, <3>3
  <2>5. rbuf \in Seq(Response)
    BY DEF MatchInv, TypeInv, TypeOK
  <2> QED
    BY <2>1, <2>4, <2>5, Lengths DEF MatchInv
<1> QED
  BY <1>1, <1>2, <1>4 DEF Sampled

LEMMA AnswerSampled ==
  ASSUME TypeInv, Sampled, ServerSend
  PROVE  Sampled'
<1> DEFINE e == [id |-> resp.id, status |-> resp.status, irq |-> resp.irq, part |-> ssent + 1]
<1>1. /\ spc = "send" /\ client_fd \in Conns
      /\ down' = [down EXCEPT ![client_fd] = Append(@, e)]
      /\ UNCHANGED <<cpc, fd, rbuf, resp, served, sampled>>
  BY DEF ServerSend, TypeInv, Control, clientVars, histVars
<1>2. e.id = served /\ e.irq = sampled
  BY <1>1 DEF Sampled
<1>3. \A c \in Conns : down[c] \in Seq(Response)
  BY DEF TypeInv, TypeOK
<1>4. ASSUME cpc \in {"send", "recv"}, NEW i \in 1 .. Len(down'[fd])
      PROVE  down'[fd][i].id = served /\ down'[fd][i].irq = sampled
  <2>0. fd \in Conns
    BY <1>4 DEF TypeInv, Control
  <2>1. CASE fd # client_fd
    BY <1>1, <1>4, <2>0, <2>1 DEF Sampled, TypeInv, TypeOK
  <2>2. CASE fd = client_fd
    <3>1. down'[fd] = Append(down[fd], e)
      BY <1>1, <2>2 DEF TypeInv, TypeOK
    <3> HIDE DEF e
    <3>2. /\ Len(down[fd]) \in Nat /\ Len(down'[fd]) = Len(down[fd]) + 1
          /\ down'[fd][Len(down[fd]) + 1] = e
          /\ \A j \in 1 .. Len(down[fd]) : down'[fd][j] = down[fd][j]
      BY <1>3, <2>0, <3>1, AppendElements
    <3>3. i \in 1 .. Len(down[fd]) \/ down'[fd][i] = e
      BY <1>4, <3>2
    <3> QED
      BY <1>2, <1>4, <3>2, <3>3 DEF Sampled
  <2> QED
    BY <2>1, <2>2
<1> QED
  BY <1>1, <1>4 DEF Sampled

LEMMA SampledStep == MatchInv /\ WholeInv /\ Queue /\ Order /\ Sampled /\ [Next]_vars => Sampled'
<1> SUFFICES ASSUME MatchInv, WholeInv, Queue, Order, Sampled, [Next]_vars PROVE Sampled'
  OBVIOUS
<1>0. TypeInv
  BY DEF MatchInv
<1>1. CASE Access \/ Unrealize
  <2>1. CASE \E o \in Ops : BeginTransact(o)
    BY <1>1, <2>1, BeginSampled DEF Access, Unrealize, serverVars, netVars, histVars
  <2>2. CASE cpc' = "gone"
    BY <1>1, <2>2, SameSampled DEF Access, Unrealize, serverVars, netVars, histVars
  <2> QED
    BY <1>1, <2>1, <2>2 DEF Access, Unrealize, Ops
<1>2. CASE Connect
  BY <1>2, ConnectSampled
<1>3. CASE RecvFragment
  BY <1>0, <1>3, ReceiveSampled
<1>4. CASE SendFragment \/ UNCHANGED vars
  <2>1. /\ UNCHANGED <<fd, rbuf, down, spc, resp, served, sampled>>
        /\ cpc' \in {"send", "recv"} => cpc \in {"send", "recv"}
    BY <1>4 DEF SendFragment, vars, clientVars, serverVars, netVars, histVars
  <2> QED
    BY <2>1, SameSampled
<1>5. CASE ConnectFail \/ PeerClosed \/ ConnectInterrupted \/ Interrupted \/ Complete
           \/ QemuKilled \/ QemuStart
  <2>1. cpc' \in {"idle", "gone"} /\ UNCHANGED <<spc, resp, served, sampled>>
    BY <1>5 DEF ConnectFail, PeerClosed, ConnectInterrupted, Interrupted, Complete,
                QemuKilled, QemuStart, LinkFail, Abandon, serverVars, netVars, histVars
  <2> QED
    BY <2>1, SameSampled
<1>6. CASE Dispatch
  BY <1>6, DispatchSampled
<1>7. CASE ServerSend
  BY <1>0, <1>7, AnswerSampled
<1>8. CASE Accept \/ Readable \/ ServerRecv \/ ServerRecvFails \/ ServerSendFails \/ Shutdown
           \/ ServerKilled \/ ServerStart
  <2>1. spc' # "send" /\ UNCHANGED <<cpc, fd, rbuf, down, served, sampled>>
    BY <1>8 DEF Accept, Readable, ServerRecv, ServerRecvFails, ServerSendFails, Shutdown,
                ServerKilled, ServerStart, AfterSend, clientVars, netVars, histVars
  <2> QED
    BY <2>1, SameSampled
<1> QED
  BY <1>1, <1>2, <1>3, <1>4, <1>5, <1>6, <1>7, <1>8
     DEF Next, ClientStep, ServerStep, Environment

LEMMA RpcInductive == Spec => []RpcInv
<1> DEFINE Rest == Queue /\ Order /\ Sampled /\ Busy
<1>1. Init => Rest
  BY ConstAssumption DEF Init, Queue, Order, Held, Sampled, Busy, Dead, None
<1>2. MatchInv /\ WholeInv /\ Rest /\ [Next]_vars => Rest'
  BY QueueStep, OrderStep, SampledStep, BusyStep DEF MatchInv
<1>3. WholeInv /\ Rest => RpcInv
  BY DEF RpcInv
<1> HIDE DEF Rest
<1> QED
  BY MatchInductive, WholeInductive, <1>1, <1>2, <1>3, PTL DEF Spec

(***************************************************************************)
(* The simulation.                                                         *)
(***************************************************************************)

\* Every step of the link is a step of the call it implements, or none.
LEMMA RpcStep == MatchInv /\ RpcInv /\ [Next]_vars => [Rpc!Next]_(Rpc!rpcVars)
<1> SUFFICES ASSUME MatchInv, RpcInv, [Next]_vars PROVE Rpc!Next \/ UNCHANGED Rpc!rpcVars
  OBVIOUS
<1>1. CASE Access \/ Unrealize
  <2>1. CASE \E o \in Ops : BeginTransact(o)
    BY <1>1, <2>1 DEF Access, Unrealize, BeginTransact, histVars, RpcInv, Busy, Rpc!Next, Rpc!Issue
  <2>2. CASE UNCHANGED <<issued, outcome>>
    BY <1>1, <2>2 DEF Access, Unrealize, histVars, Rpc!rpcVars
  <2> QED
    BY <1>1, <2>1, <2>2 DEF Access, Unrealize, Ops
<1>2. CASE ConnectFail \/ PeerClosed \/ ConnectInterrupted \/ Interrupted
  <2>1. Rpc!Lose
    BY <1>2 DEF ConnectFail, PeerClosed, ConnectInterrupted, Interrupted, LinkFail,
                Abandon, histVars, RpcInv, Busy, Rpc!Lose
  <2> QED
    BY <2>1 DEF Rpc!Next
<1>3. CASE Complete
  <2>1. outcome = "busy" /\ UNCHANGED <<issued, served, sampled>> /\ cpc = "recv"
    BY <1>3 DEF Complete, histVars, RpcInv, Busy
  <2>2. 1 \in 1 .. Len(rbuf)
    BY <1>3, ConstAssumption DEF Complete
  <2>3. rbuf[1].id = served /\ rbuf[1].irq = sampled
    BY <2>1, <2>2 DEF RpcInv, Sampled
  <2>4. rbuf[1].id = issued
    BY <2>1, <2>2 DEF MatchInv, OneConnection, OwnMessages, Responses
  <2>5. Rpc!ReturnOk \/ Rpc!ReturnError
    BY <1>3, <2>1, <2>3, <2>4 DEF Complete, DriveIrqs, Rpc!ReturnOk, Rpc!ReturnError
  <2> QED
    BY <2>5 DEF Rpc!Next
<1>4. CASE QemuKilled \/ QemuStart
  <2>1. Rpc!Restart
    BY <1>4 DEF QemuKilled, QemuStart, histVars, Rpc!Restart
  <2> QED
    BY <2>1 DEF Rpc!Next
<1>5. CASE Dispatch
  <2>1. served < served' /\ served' <= issued /\ served \in Nat /\ issued \in Nat /\ served' \in Nat
    <3>1. served < served' /\ served' <= issued /\ served' \in Nat
      BY <1>5, DispatchOrder DEF RpcInv
    <3>2. served \in Nat /\ issued \in Nat
      BY ConstAssumption DEF MatchInv, TypeInv, TypeOK
    <3> QED
      BY <3>1, <3>2
  <2>2. served' \in (served + 1) .. issued /\ sampled' \in SUBSET Irqs
    BY <1>5, <2>1 DEF Dispatch
  <2>3. Rpc!Serve
    BY <1>5, <2>2 DEF Dispatch, clientVars, Rpc!Serve
  <2> QED
    BY <2>3 DEF Rpc!Next
<1>6. CASE Connect \/ SendFragment \/ RecvFragment
  BY <1>6 DEF Connect, SendFragment, RecvFragment, histVars, Rpc!rpcVars
<1>7. CASE Accept \/ Readable \/ ServerRecv \/ ServerRecvFails \/ ServerSend \/ ServerSendFails
           \/ Shutdown \/ ServerKilled \/ ServerStart
  BY <1>7 DEF Accept, Readable, ServerRecv, ServerRecvFails, ServerSend, ServerSendFails,
              Shutdown, ServerKilled, ServerStart, clientVars, histVars, Rpc!rpcVars
<1>8. CASE UNCHANGED vars
  BY <1>8 DEF vars, clientVars, histVars, Rpc!rpcVars
<1> QED
  BY <1>1, <1>2, <1>3, <1>4, <1>5, <1>6, <1>7, <1>8
     DEF Next, ClientStep, ServerStep, Environment

\* For any number of accesses, fragments, connections and faults the link is
\* a remote procedure call: performed at most once, in program order, and
\* answered with its own data and the levels sampled with it.
THEOREM LinkImplementsRpc == Spec => ImplementsRpc
<1>1. Init => Rpc!Init
  BY DEF Init, Rpc!Init
<1> QED
  BY MatchInductive, RpcInductive, <1>1, RpcStep, PTL DEF Spec, ImplementsRpc, Rpc!Spec

\* A completed access was performed, by that access and no other, and while
\* its normal return is the latest the lines show the levels sampled with it:
\* no request a lost access left behind is performed after a newer one.
THEOREM OwnCall == Spec => []Rpc!AnsweredByItself
<1> DEFINE Inv == Rpc!AnsweredByItself
<1>1. Init => Inv
  BY DEF Init, Rpc!AnsweredByItself
<1>2. MatchInv /\ Inv /\ [Rpc!Next]_(Rpc!rpcVars) => Inv'
  <2> SUFFICES ASSUME MatchInv, Inv, [Rpc!Next]_(Rpc!rpcVars) PROVE Inv'
    OBVIOUS
  <2>1. served \in Nat /\ issued \in Nat
    BY ConstAssumption DEF MatchInv, TypeInv, TypeOK
  <2>2. CASE Rpc!Serve
    BY <2>1, <2>2 DEF Rpc!Serve, Rpc!AnsweredByItself
  <2>3. CASE Rpc!Issue \/ Rpc!ReturnOk \/ Rpc!ReturnError \/ Rpc!Lose \/ Rpc!Restart
    BY <2>3 DEF Rpc!Issue, Rpc!ReturnOk, Rpc!ReturnError, Rpc!Lose, Rpc!Restart,
                Rpc!AnsweredByItself
  <2>4. CASE UNCHANGED Rpc!rpcVars
    BY <2>4 DEF Rpc!rpcVars, Rpc!AnsweredByItself
  <2> QED
    BY <2>2, <2>3, <2>4 DEF Rpc!Next
<1> HIDE DEF Inv
<1>3. Spec => []Inv
  BY MatchInductive, RpcInductive, RpcStep, <1>1, <1>2, PTL DEF Spec
<1> QED
  BY <1>3 DEF Inv

=============================================================================
