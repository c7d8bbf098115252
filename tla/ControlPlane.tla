---------------------------- MODULE ControlPlane ----------------------------
(***************************************************************************)
(* The control plane: a ControlClient in each monitored process, shared by *)
(* its threads (control_client.py), and the ControlServer's accept and     *)
(* reader threads in gcmon (control_server.py), which files each message   *)
(* under the process the registry names while the monitor's thread goes on *)
(* writing the registry.                                                   *)
(*                                                                         *)
(* A connection is a queue one way.  The client holds its lock while it    *)
(* connects, sends or closes, so each is one step; what it reads outside   *)
(* the lock is a step of its own.  close() joins both threads: that a join *)
(* runs out of time is left out (PerfettoExporter has it), that the drain  *)
(* does is not: it may find its half second over before any of its passes. *)
(***************************************************************************)
EXTENDS ProcessRegistry

CONSTANTS
  Threads,    (* threads of a process that share its client                 *)
  Script,     (* bound: messages the clients are asked to send, and the     *)
              (* kinds the first, the second... may be of                   *)
  MaxLinks,   (* bound: connections made                                    *)
  MaxEpoch    (* bound: processes that hold one pid in turn                 *)

Kinds == {"start", "stop", "mark"}

ASSUME ControlAssumption ==
  Script \in Seq(SUBSET Kinds) /\ {MaxLinks, MaxEpoch} \subseteq Nat /\ "gcmon" \notin Pids

Senders == Pids \X Threads
MaxCalls == Len(Script)

VARIABLES
  conn,         (* clients: _conn, the connection as a set                  *)
  step,         (* per sender, where its _send is                           *)
  got,          (* per sender, the connection _ensure_connected returned    *)
  to_send,      (* per sender, the message                                  *)
  calls,        (* messages the clients were asked to send                  *)
  links,        (* connections made, in order: both ends and what is queued *)
  accepting,    (* accept thread: where it is                               *)
  accepted,     (* accept thread: the connection to add, as a set           *)
  connections,  (* _connections                                             *)
  stopped,      (* _enabled: pids told to stop                              *)
  reader,       (* reader thread: where it is                               *)
  todo,         (* reader thread: connections of the pass not visited yet   *)
  to_remove,    (* reader thread: connections that are at their end         *)
  any_data,     (* reader thread: the drain's pass has read something       *)
  closing,      (* where close() is                                         *)
  sent,         (* history: messages put on a connection, in order          *)
  in_time,      (* history: those a held connection carried at the stop     *)
  handled       (* history: messages handled, in order                      *)

clients == <<conn, step, got, to_send, calls>>
acceptThread == <<accepting, accepted>>
readerThread == <<reader, todo, to_remove, any_data>>
controlVars == <<registryVars, clients, links, acceptThread, connections, stopped, readerThread,
                 closing, sent, in_time, handled>>

Stopping == closing # "open"

(* The reader's drain came to its end, or its deadline did. *)
ReaderJoined == reader \in {"ended", "overdue"}

ControlInit ==
  /\ Init
  /\ conn = [pid \in Pids |-> {}] /\ calls = 0
  /\ step = [s \in Senders |-> "idle"]
  /\ got = [s \in Senders |-> {}] /\ to_send = [s \in Senders |-> {}]
  /\ links = <<>>
  /\ accepting = "accept" /\ accepted = {} /\ connections = {} /\ stopped = {}
  /\ reader = "top" /\ todo = {} /\ to_remove = {} /\ any_data = FALSE
  /\ closing = "open"
  /\ sent = <<>> /\ in_time = {} /\ handled = <<>>

-----------------------------------------------------------------------------
(* The client, in the threads of a monitored process. *)

Goto(s, place) == step' = [step EXCEPT ![s] = place]

(***************************************************************************)
(* _send: start and stop are stamped now, a mark carries its own instant.  *)
(* _ensure_connected looks without the lock.                               *)
(***************************************************************************)
Call(s, kind, ts) ==
  /\ step[s] = "idle"
  /\ calls < MaxCalls /\ kind \in Script[calls + 1]
  /\ ts \in (IF kind = "mark" THEN 0..MaxTime ELSE now..MaxTime)
  /\ calls' = calls + 1
  /\ to_send' = [to_send EXCEPT ![s] = {[pid |-> s[1], kind |-> kind, ts |-> ts, n |-> calls + 1]}]
  /\ Goto(s, IF conn[s[1]] = {} THEN "connect" ELSE "reread")
  /\ UNCHANGED <<registryVars, conn, got, links, acceptThread, connections, stopped, readerThread,
                 closing, sent, in_time, handled>>

NewLink(pid, open) == [pid |-> pid, open |-> open, served |-> TRUE, queue |-> <<>>]

(* A mutant of Connect. *)
ConnectUnchecked(s) ==
  /\ step[s] = "connect"
  /\ \/ /\ closing # "closed" /\ Len(links) < MaxLinks
        /\ links' = Append(links, NewLink(s[1], TRUE))
        /\ conn' = [conn EXCEPT ![s[1]] = {Len(links) + 1}]
     \/ UNCHANGED <<links, conn>>
  /\ Goto(s, "reread")
  /\ UNCHANGED <<registryVars, got, to_send, calls, acceptThread, connections, stopped,
                 readerThread, closing, sent, in_time, handled>>

(* Under the lock: another thread may have connected, and an attempt may fail. *)
Connect(s) ==
  /\ step[s] = "connect"
  /\ \/ /\ conn[s[1]] = {}
        /\ closing # "closed" /\ Len(links) < MaxLinks
        /\ links' = Append(links, NewLink(s[1], TRUE))
        /\ conn' = [conn EXCEPT ![s[1]] = {Len(links) + 1}]
     \/ UNCHANGED <<links, conn>>
  /\ Goto(s, "reread")
  /\ UNCHANGED <<registryVars, got, to_send, calls, acceptThread, connections, stopped,
                 readerThread, closing, sent, in_time, handled>>

(* What _ensure_connected returns is read again, without the lock. *)
Reread(s) ==
  /\ step[s] = "reread"
  /\ got' = [got EXCEPT ![s] = conn[s[1]]]
  /\ to_send' = [to_send EXCEPT ![s] = IF conn[s[1]] = {} THEN {} ELSE @]
  /\ Goto(s, IF conn[s[1]] = {} THEN "idle" ELSE "send")
  /\ UNCHANGED <<registryVars, conn, calls, links, acceptThread, connections, stopped,
                 readerThread, closing, sent, in_time, handled>>

(* "if self._conn is not conn: return". *)
Takes(s) == conn[s[1]] = got[s]

(* The send itself fails on a connection that either end has closed. *)
Send(s) ==
  /\ step[s] = "send"
  /\ \E id \in got[s], msg \in to_send[s] :
       \/ /\ ~Takes(s)
          /\ UNCHANGED <<conn, links, sent>>
       \/ /\ Takes(s) /\ links[id].open /\ links[id].served
          /\ links' = [links EXCEPT ![id].queue = Append(@, msg)]
          /\ sent' = Append(sent, [msg |-> msg, link |-> id])
          /\ UNCHANGED conn
       \/ /\ Takes(s) /\ ~(links[id].open /\ links[id].served)
          /\ conn' = [conn EXCEPT ![s[1]] = {}]
          /\ links' = [links EXCEPT ![id].open = FALSE]
          /\ UNCHANGED sent
  /\ got' = [got EXCEPT ![s] = {}]
  /\ to_send' = [to_send EXCEPT ![s] = {}]
  /\ Goto(s, "idle")
  /\ UNCHANGED <<registryVars, calls, acceptThread, connections, stopped, readerThread, closing,
                 in_time, handled>>

(* close(), or the end of the process: what is queued stays for the server to read. *)
CloseClient(pid) ==
  /\ \E id \in conn[pid] : links' = [links EXCEPT ![id].open = FALSE]
  /\ conn' = [conn EXCEPT ![pid] = {}]
  /\ UNCHANGED <<registryVars, step, got, to_send, calls, acceptThread, connections, stopped,
                 readerThread, closing, sent, in_time, handled>>

-----------------------------------------------------------------------------
(* The accept thread. *)

Served == {id \in DOMAIN links : links[id].served}
Backlog == Served \ (connections \cup accepted)

(* accept() blocks until a connection waits, and returns the oldest. *)
Accept ==
  /\ accepting = "accept"
  /\ \E id \in Backlog :
       /\ \A other \in Backlog : id <= other
       /\ accepted' = {id}
  /\ accepting' = "add"
  /\ UNCHANGED <<registryVars, clients, links, connections, stopped, readerThread, closing, sent,
                 in_time, handled>>

AddConnection ==
  /\ accepting = "add"
  /\ connections' = connections \cup accepted
  /\ accepted' = {}
  /\ accepting' = IF Stopping THEN "ended" ELSE "accept"
  /\ UNCHANGED <<registryVars, clients, links, stopped, readerThread, closing, sent, in_time, handled>>

(* One failed accept ends the loop. *)
AcceptFails ==
  /\ accepting = "accept"
  /\ accepting' = "ended"
  /\ UNCHANGED <<registryVars, clients, links, accepted, connections, stopped, readerThread,
                 closing, sent, in_time, handled>>

-----------------------------------------------------------------------------
(* The reader thread. *)

(* There is something to receive, the end of the stream included. *)
Readable(id) == links[id].queue # <<>> \/ ~links[id].open
Ready == {id \in connections : Readable(id)}

(* A mutant of StoppedBy. *)
StoppedByKnown(msg) ==
  CASE msg.kind = "start" /\ Held(msg.pid) -> stopped \ {msg.pid}
    [] msg.kind = "stop" -> stopped \cup {msg.pid}
    [] OTHER -> stopped

(* _enabled once the message is handled. *)
StoppedBy(msg) ==
  CASE msg.kind = "start" -> stopped \ {msg.pid}
    [] msg.kind = "stop" -> stopped \cup {msg.pid}
    [] OTHER -> stopped

(* _handle_msg: an instant filed under NoProcess is dropped. *)
Handle(msg, id) ==
  /\ stopped' = StoppedBy(msg)
  /\ handled' = Append(handled, [msg |-> msg, link |-> id, process |-> At(msg.pid, msg.ts)])

(* A mutant of Recv. *)
RecvPeek(id) ==
  IF links[id].queue # <<>>
  THEN /\ Handle(Head(links[id].queue), id)
       /\ UNCHANGED <<links, to_remove>>
  ELSE /\ to_remove' = to_remove \cup {id}
       /\ UNCHANGED <<links, stopped, handled>>

(* The client's end comes after what it sent. *)
Recv(id) ==
  IF links[id].queue # <<>>
  THEN /\ links' = [links EXCEPT ![id].queue = Tail(@)]
       /\ Handle(Head(links[id].queue), id)
       /\ UNCHANGED to_remove
  ELSE /\ to_remove' = to_remove \cup {id}
       /\ UNCHANGED <<links, stopped, handled>>

readerElse == <<registryVars, clients, acceptThread, closing, sent, in_time>>

BeginPass ==
  /\ reader = "top" /\ ~Stopping /\ Ready # {}
  /\ todo' = Ready
  /\ reader' = "pass"
  /\ UNCHANGED <<readerElse, links, connections, stopped, to_remove, any_data, handled>>

Visit(id) ==
  /\ reader = "pass" /\ ~Stopping /\ id \in todo
  /\ Recv(id)
  /\ todo' = todo \ {id}
  /\ UNCHANGED <<readerElse, connections, reader, any_data>>

(* _remove_connections. *)
RemoveConnections ==
  /\ connections' = connections \ to_remove
  /\ links' = [id \in DOMAIN links |-> [links[id] EXCEPT !.served = @ /\ id \notin to_remove]]
  /\ to_remove' = {}

EndPass ==
  /\ reader = "pass" /\ (Stopping \/ todo = {})
  /\ RemoveConnections
  /\ todo' = {}
  /\ reader' = "top"
  /\ UNCHANGED <<readerElse, stopped, any_data, handled>>

(***************************************************************************)
(* The loop has seen the stop and taken the drain's deadline, or a pass of *)
(* the drain has read something.  Time is the environment's: the deadline  *)
(* may be over, and what is queued then is never read.                     *)
(***************************************************************************)
BeginDrain ==
  /\ \/ reader = "top" /\ Stopping
     \/ reader = "again"
  /\ \/ reader' = "overdue" /\ todo' = {}
     \/ /\ reader' = IF connections = {} THEN "ended" ELSE "drain"
        /\ todo' = connections
  /\ UNCHANGED <<readerElse, links, connections, stopped, to_remove, any_data, handled>>

(* poll() says whether there is something; one message is taken from each. *)
DrainVisit(id) ==
  /\ reader = "drain" /\ id \in todo
  /\ \/ Readable(id) /\ Recv(id)
     \/ ~Readable(id) /\ UNCHANGED <<links, stopped, to_remove, handled>>
  /\ any_data' = (any_data \/ links[id].queue # <<>>)
  /\ todo' = todo \ {id}
  /\ UNCHANGED <<readerElse, connections, reader>>

(* A mutant of DrainGoesOn. *)
DrainOnce == connections = {}

DrainGoesOn == any_data

EndDrainPass ==
  /\ reader = "drain" /\ todo = {}
  /\ RemoveConnections
  /\ reader' = IF DrainGoesOn THEN "again" ELSE "ended"
  /\ any_data' = FALSE
  /\ UNCHANGED <<readerElse, stopped, todo, handled>>

-----------------------------------------------------------------------------
(* close(), in gcmon's main thread. *)

Stop ==
  /\ closing = "open"
  /\ closing' = "stopping"
  /\ in_time' = UNION {{links[id].queue[i] : i \in DOMAIN links[id].queue} : id \in connections}
  /\ UNCHANGED <<registryVars, clients, links, acceptThread, connections, stopped, readerThread,
                 sent, handled>>

(* A mutant of Poke. *)
PokeNothing ==
  /\ closing = "stopping" /\ ReaderJoined
  /\ closing' = "poked"
  /\ UNCHANGED <<registryVars, clients, links, acceptThread, connections, stopped, readerThread,
                 sent, in_time, handled>>

(* The reader joined, a connection of its own wakes the accept thread. *)
Poke ==
  /\ closing = "stopping" /\ ReaderJoined
  /\ closing' = "poked"
  /\ links' = Append(links, NewLink("gcmon", FALSE))
  /\ UNCHANGED <<registryVars, clients, acceptThread, connections, stopped, readerThread, sent,
                 in_time, handled>>

AcceptJoined == accepting = "ended"

(* The listener's close ends what was never accepted. *)
FinishClose ==
  /\ closing = "poked" /\ AcceptJoined
  /\ closing' = "closed"
  /\ links' = [id \in DOMAIN links |->
                 [links[id] EXCEPT !.served = @ /\ id \notin connections \cup Backlog]]
  /\ connections' = {}
  /\ stopped' = {}
  /\ UNCHANGED <<registryVars, clients, acceptThread, readerThread, sent, in_time, handled>>

-----------------------------------------------------------------------------
Monitor ==
  /\ Next
  /\ \A p \in Live' : p.epoch <= MaxEpoch
  /\ UNCHANGED <<clients, links, acceptThread, connections, stopped, readerThread, closing, sent,
                 in_time, handled>>
Client(s) == Connect(s) \/ Reread(s) \/ Send(s)
AcceptThread == Accept \/ AddConnection
ReaderThread ==
  \/ BeginPass \/ EndPass \/ BeginDrain \/ EndDrainPass
  \/ \E id \in todo : Visit(id) \/ DrainVisit(id)
MainThread == Poke \/ FinishClose

ControlNext ==
  \/ Monitor
  \/ \E s \in Senders, kind \in Kinds, ts \in 0..MaxTime : Call(s, kind, ts)
  \/ \E s \in Senders : Client(s)
  \/ \E pid \in Pids : CloseClient(pid)
  \/ AcceptThread \/ AcceptFails
  \/ ReaderThread
  \/ Stop \/ MainThread

ControlSpec == ControlInit /\ [][ControlNext]_controlVars

-----------------------------------------------------------------------------
(* Properties. *)

SameMessage(entry, other) == entry.msg = other.msg /\ entry.link = other.link
HandledMessages == {handled[i].msg : i \in DOMAIN handled}

Msg == [pid : Pids, kind : Kinds, ts : 0..MaxTime, n : 1..MaxCalls]
Link == [pid : Pids \cup {"gcmon"}, open : BOOLEAN, served : BOOLEAN, queue : Seq(Msg)]
Entry == [msg : Msg, link : Nat, process : Process \cup {NoProcess}]

(* Types, and where each thread may be. *)
ControlTypeOK ==
  /\ TypeOK
  /\ links \in Seq(Link)
  /\ conn \in [Pids -> SUBSET DOMAIN links] /\ got \in [Senders -> SUBSET DOMAIN links]
  /\ step \in [Senders -> {"idle", "connect", "reread", "send"}]
  /\ to_send \in [Senders -> SUBSET Msg] /\ calls \in 0..MaxCalls
  /\ accepting \in {"accept", "add", "ended"}
  /\ reader \in {"top", "pass", "drain", "again", "ended", "overdue"}
  /\ closing \in {"open", "stopping", "poked", "closed"}
  /\ accepted \cup connections \cup todo \cup to_remove \subseteq DOMAIN links
  /\ stopped \subseteq Pids /\ any_data \in BOOLEAN
  /\ sent \in Seq([msg : Msg, link : Nat]) /\ in_time \subseteq Msg /\ handled \in Seq(Entry)

(***************************************************************************)
(* What a connection carries is handled in the order it was sent, each     *)
(* message once, nothing skipped: across the threads that share a client,  *)
(* passes over a connection at its end, the drain, and a close that leaves *)
(* a pass midway.                                                          *)
(***************************************************************************)
HandledInOrder ==
  /\ \A i, j \in DOMAIN handled : handled[i].msg = handled[j].msg => i = j
  /\ \A i \in DOMAIN handled : \E k \in DOMAIN sent : SameMessage(handled[i], sent[k])
  /\ \A k, l \in DOMAIN sent, j \in DOMAIN handled :
       (k < l /\ sent[k].link = sent[l].link /\ SameMessage(handled[j], sent[l]))
         => \E i \in 1..(j - 1) : SameMessage(handled[i], sent[k])

(***************************************************************************)
(* Two messages sent over one connection in the order of their instants    *)
(* are filed in that order: the later never under an earlier process of    *)
(* the pid, whatever the monitor does to the registry between them.        *)
(***************************************************************************)
MarksStayInOrder ==
  \A i, j \in DOMAIN handled :
    (/\ i < j
     /\ handled[i].link = handled[j].link
     /\ handled[i].msg.ts <= handled[j].msg.ts)
       => handled[i].process.epoch <= handled[j].process.epoch

(***************************************************************************)
(* Whatever a connection the server held was carrying when it was told to  *)
(* stop, a last message included, is handled before a drain that ends in   *)
(* time does; and whoever ends it, what is not handled still waits on a    *)
(* connection held until close() drops them all: nothing goes with the     *)
(* connections found at their end meanwhile.  Only the drain's deadline    *)
(* leaves any of it unread.                                                *)
(***************************************************************************)
DrainLeavesNothing ==
  /\ reader = "ended" => in_time \subseteq HandledMessages
  /\ closing # "closed" =>
       \A msg \in in_time \ HandledMessages :
         \E id \in connections : \E i \in DOMAIN links[id].queue : links[id].queue[i] = msg

(***************************************************************************)
(* A client never has two connections open: one that a thread still sends  *)
(* on is the one the others use, and none is left behind when a send fails *)
(* or the client is closed.                                                *)
(***************************************************************************)
OpenIsCurrent ==
  \A id \in DOMAIN links : links[id].open => conn[links[id].pid] = {id}

(***************************************************************************)
(* A pid whose messages all went over one connection is polled, or not, as *)
(* the last start or stop it sent asks, once that has been handled.        *)
(***************************************************************************)
SuppressionFollows ==
  \A pid \in Pids :
    LET orders == {i \in DOMAIN sent : sent[i].msg.pid = pid /\ sent[i].msg.kind # "mark"}
        last == CHOOSE i \in orders : \A j \in orders : j <= i
    IN  (/\ closing # "closed"
         /\ \A i, j \in orders : sent[i].link = sent[j].link
         /\ \A i \in orders : sent[i].msg \in HandledMessages)
          => (pid \in stopped <=> (orders # {} /\ sent[last].msg.kind = "stop"))

(***************************************************************************)
(* close() never hangs: until it has returned, one of the threads it waits *)
(* for, or its own, can go on.  Nobody else is needed to wake them, a      *)
(* client that connects in time least of all.  And once it has returned no *)
(* connection is held: not the one of its own, not one accepted late.      *)
(***************************************************************************)
CloseNeverHangs ==
  /\ Stopping /\ closing # "closed" => ENABLED (AcceptThread \/ ReaderThread \/ MainThread)
  /\ closing = "closed" => Served = {}
=============================================================================
