------------------------------ MODULE Lifecycle ------------------------------
(***************************************************************************)
(* The tasks of the server: the accept loop of SmbServer::serve and its    *)
(* shutdown (server.rs), and for every accepted socket the connection loop *)
(* with its reader and writer (conn/mod.rs, conn/reader.rs,                *)
(* conn/writer.rs).                                                        *)
(*                                                                         *)
(* shutdown() stores a flag and calls Notify::notify_waiters, which wakes  *)
(* the Notified futures that exist at that moment and leaves nothing for   *)
(* later ones.  The accept loop makes a new future in every round of its   *)
(* select!, so "next" (between two rounds, and before the first) is a      *)
(* state of its own: a notification that comes then is lost.  The runtime  *)
(* is multi-threaded, so it may come then.                                 *)
(*                                                                         *)
(* A frame is a token.  Its dispatch answers with one response or none     *)
(* (CANCEL, a frame that does not parse); one with a garbled length ends   *)
(* the reader instead.  Channel is WRITER_CHANNEL, 64 in the code.         *)
(* MaxFrames bounds what a client sends.  Sockets are external: a closed   *)
(* one ends a read and fails a write, an open one takes what is written    *)
(* when its peer reads.                                                    *)
(***************************************************************************)
EXTENDS Naturals, FiniteSets

CONSTANTS
    Conns,      \* clients, one socket each
    Channel,    \* capacity of the channel from reader to writer
    MaxFrames,  \* frames a client sends
    None        \* no socket

ASSUME ChannelAssumption == Channel \in Nat \ {0} /\ MaxFrames \in Nat
ASSUME NoneIsNoConn == None \notin Conns

VARIABLES
    flag,      \* ServerState.shutting_down
    caller,    \* the task that calls shutdown()
    loop,      \* the accept loop
    woken,     \* the Notified future of this round has been notified
    picked,    \* the stream accept() returned
    backlog,   \* sockets waiting in the listener
    sock,      \* the client's end: "none", "open", "closed"
    sent,      \* frames the client has sent
    inbox,     \* frames sent and not yet read
    rd,        \* the reader (and the connection loop around it)
    wr,        \* the writer task
    chan,      \* responses in the channel
    reg,       \* ActiveConnections
    overrun,   \* history: frames dispatched after the flag was set
    late       \* history: clients that were in the backlog with the flag set

loopVars == <<flag, caller, loop, woken, picked>>
sockVars == <<backlog, late, sock, sent, inbox>>
taskVars == <<rd, wr, chan, reg, overrun>>
vars == <<loopVars, sockVars, taskVars>>

TypeOK ==
    /\ flag \in BOOLEAN /\ woken \in BOOLEAN
    /\ caller \in {"idle", "stored", "done"}
    /\ loop \in {"next", "select", "accepted", "spawn", "failed", "stopped"}
    /\ picked \in Conns \cup {None}
    /\ backlog \in SUBSET Conns /\ reg \in SUBSET Conns /\ late \in SUBSET Conns
    /\ sock \in [Conns -> {"none", "open", "closed"}]
    /\ sent \in [Conns -> 0 .. MaxFrames]
    /\ inbox \in [Conns -> 0 .. MaxFrames]
    /\ rd \in [Conns -> {"none", "start", "read", "check", "dispatch", "send",
                         "exit", "done"}]
    /\ wr \in [Conns -> {"none", "recv", "write", "exit"}]
    /\ chan \in [Conns -> 0 .. Channel]
    /\ overrun \in [Conns -> Nat]

Init ==
    /\ flag = FALSE /\ woken = FALSE
    /\ caller = "idle" /\ loop = "next" /\ picked = None
    /\ backlog = {} /\ reg = {} /\ late = {}
    /\ sock = [c \in Conns |-> "none"]
    /\ sent = [c \in Conns |-> 0]
    /\ inbox = [c \in Conns |-> 0]
    /\ rd = [c \in Conns |-> "none"]
    /\ wr = [c \in Conns |-> "none"]
    /\ chan = [c \in Conns |-> 0]
    /\ overrun = [c \in Conns |-> 0]

-----------------------------------------------------------------------------
(* shutdown(): the store, then notify_waiters.                             *)

StoreFlag ==
    /\ caller = "idle"
    /\ caller' = "stored"
    /\ flag' = TRUE
    /\ late' = backlog
    /\ UNCHANGED <<loop, woken, picked, backlog, sock, sent, inbox, taskVars>>

NotifyWaiters ==
    /\ caller = "stored"
    /\ caller' = "done"
    /\ woken' = (loop = "select")
    /\ UNCHANGED <<flag, loop, picked, sockVars, taskVars>>

-----------------------------------------------------------------------------
(* serve(): the select! is biased, so a notification that has come is seen *)
(* before a connection.                                                    *)

NextRound ==
    /\ loop = "next"
    /\ loop' = "select"
    /\ woken' = FALSE
    /\ UNCHANGED <<flag, caller, picked, sockVars, taskVars>>

(* The listener goes with the loop; sockets still in it are reset.         *)
Stop ==
    /\ loop' = "stopped"
    /\ picked' = None
    /\ backlog' = {}
    /\ sock' = [c \in Conns |->
                  IF c \in backlog \cup {picked} THEN "closed" ELSE sock[c]]
    /\ UNCHANGED <<flag, caller, woken, late, sent, inbox, taskVars>>

Notified == loop = "select" /\ woken /\ Stop

Accept(c) ==
    /\ loop = "select" /\ ~woken
    /\ c \in backlog
    /\ loop' = "accepted"
    /\ picked' = c
    /\ backlog' = backlog \ {c}
    /\ UNCHANGED <<flag, caller, woken, late, sock, sent, inbox, taskVars>>

AcceptError ==
    /\ loop = "select" /\ ~woken
    /\ loop' = "failed"
    /\ UNCHANGED <<flag, caller, woken, picked, sockVars, taskVars>>

StopAfterAccept == loop \in {"accepted", "failed"} /\ flag /\ Stop

AcceptFailed ==
    /\ loop = "failed"
    /\ ~flag
    /\ loop' = "next"
    /\ UNCHANGED <<flag, caller, woken, picked, sockVars, taskVars>>

(* Mutant: the flag is not looked at after accept().                       *)
Admit_Unchecked ==
    /\ loop = "accepted"
    /\ loop' = "spawn"
    /\ UNCHANGED <<flag, caller, woken, picked, sockVars, taskVars>>

(* The flag was not set; it may be by the time the task is spawned.        *)
Admit ==
    /\ loop = "accepted"
    /\ ~flag
    /\ loop' = "spawn"
    /\ UNCHANGED <<flag, caller, woken, picked, sockVars, taskVars>>

Spawn ==
    /\ loop = "spawn"
    /\ loop' = "next"
    /\ rd' = [rd EXCEPT ![picked] = "start"]
    /\ picked' = None
    /\ UNCHANGED <<flag, caller, woken, sockVars, wr, chan, reg, overrun>>

-----------------------------------------------------------------------------
(* connection_loop.                                                        *)

(* Mutant: the connection is registered when its loop ends, not when it    *)
(* begins.                                                                 *)
Register_Never(c) ==
    /\ rd[c] = "start"
    /\ rd' = [rd EXCEPT ![c] = "read"]
    /\ wr' = [wr EXCEPT ![c] = "recv"]
    /\ UNCHANGED <<loopVars, sockVars, chan, reg, overrun>>

Register(c) ==
    /\ rd[c] = "start"
    /\ reg' = reg \cup {c}
    /\ rd' = [rd EXCEPT ![c] = "read"]
    /\ wr' = [wr EXCEPT ![c] = "recv"]
    /\ UNCHANGED <<loopVars, sockVars, chan, overrun>>

Unregister(c) ==
    /\ rd[c] = "exit" /\ wr[c] = "exit"
    /\ reg' = reg \ {c}
    /\ rd' = [rd EXCEPT ![c] = "done"]
    /\ UNCHANGED <<loopVars, sockVars, wr, chan, overrun>>

-----------------------------------------------------------------------------
(* reader_task: read a frame, look at the flag, dispatch, send.            *)

ReaderTo(c, where) ==
    /\ rd' = [rd EXCEPT ![c] = where]
    /\ UNCHANGED <<loopVars, backlog, late, sock, sent, wr, chan, reg>>

ReadFrame(c) ==
    /\ rd[c] = "read"
    /\ inbox[c] > 0
    /\ inbox' = [inbox EXCEPT ![c] = @ - 1]
    /\ ReaderTo(c, "check")
    /\ UNCHANGED overrun

(* End of file, or an error in the middle of a frame.                      *)
ReadEnd(c) ==
    /\ rd[c] = "read"
    /\ sock[c] = "closed"
    /\ inbox[c] = 0
    /\ ReaderTo(c, "exit")
    /\ UNCHANGED <<inbox, overrun>>

(* A frame header that does not decode, from a client that is still there. *)
ReadGarbled(c) ==
    /\ rd[c] = "read"
    /\ inbox[c] > 0
    /\ inbox' = [inbox EXCEPT ![c] = @ - 1]
    /\ ReaderTo(c, "exit")
    /\ UNCHANGED overrun

(* Mutant: the reader never looks at the flag.                             *)
CheckFlag_Never(c) ==
    /\ rd[c] = "check"
    /\ ReaderTo(c, "dispatch")
    /\ UNCHANGED <<inbox, overrun>>

CheckFlag(c) ==
    /\ rd[c] = "check"
    /\ ReaderTo(c, IF flag THEN "exit" ELSE "dispatch")
    /\ UNCHANGED <<inbox, overrun>>

Dispatch(c) ==
    /\ rd[c] = "dispatch"
    /\ \E where \in {"send", "read"} : ReaderTo(c, where)
    /\ overrun' = [overrun EXCEPT ![c] = IF flag THEN @ + 1 ELSE @]
    /\ UNCHANGED inbox

(* Mutant: the channel has no bound.                                       *)
Send_Unbounded(c) ==
    /\ rd[c] = "send"
    /\ \/ /\ wr[c] = "exit"
          /\ rd' = [rd EXCEPT ![c] = "exit"]
          /\ UNCHANGED chan
       \/ /\ wr[c] # "exit"
          /\ chan' = [chan EXCEPT ![c] = @ + 1]
          /\ rd' = [rd EXCEPT ![c] = "read"]
    /\ UNCHANGED <<loopVars, sockVars, wr, reg, overrun>>

(* Mutant: the reader does not see that the writer is gone.                *)
Send_Blind(c) ==
    /\ rd[c] = "send"
    /\ wr[c] # "exit" /\ chan[c] < Channel
    /\ chan' = [chan EXCEPT ![c] = @ + 1]
    /\ rd' = [rd EXCEPT ![c] = "read"]
    /\ UNCHANGED <<loopVars, sockVars, wr, reg, overrun>>

Send(c) ==
    /\ rd[c] = "send"
    /\ \/ /\ wr[c] = "exit"
          /\ rd' = [rd EXCEPT ![c] = "exit"]
          /\ UNCHANGED chan
       \/ /\ wr[c] # "exit" /\ chan[c] < Channel
          /\ chan' = [chan EXCEPT ![c] = @ + 1]
          /\ rd' = [rd EXCEPT ![c] = "read"]
    /\ UNCHANGED <<loopVars, sockVars, wr, reg, overrun>>

-----------------------------------------------------------------------------
(* writer_task: it owns the receiver, so the channel closes when it ends;  *)
(* it ends when a write fails, or when the reader is gone and the channel  *)
(* is drained.                                                             *)

WriterTo(c, where) ==
    /\ wr' = [wr EXCEPT ![c] = where]
    /\ UNCHANGED <<loopVars, sockVars, rd, reg, overrun>>

WriterRecv(c) ==
    /\ wr[c] = "recv"
    /\ chan[c] > 0
    /\ chan' = [chan EXCEPT ![c] = @ - 1]
    /\ WriterTo(c, "write")

WriterDrained(c) ==
    /\ wr[c] = "recv"
    /\ chan[c] = 0
    /\ rd[c] = "exit"
    /\ WriterTo(c, "exit")
    /\ UNCHANGED chan

WriteFailed(c) ==
    /\ wr[c] = "write"
    /\ sock[c] = "closed"
    /\ chan' = [chan EXCEPT ![c] = 0]
    /\ WriterTo(c, "exit")

(* The peer has read what was written.                                     *)
Written(c) ==
    /\ wr[c] = "write"
    /\ sock[c] = "open"
    /\ WriterTo(c, "recv")
    /\ UNCHANGED chan

-----------------------------------------------------------------------------
(* Clients.                                                                *)

ClientConnect(c) ==
    /\ sock[c] = "none"
    /\ loop # "stopped"
    /\ sock' = [sock EXCEPT ![c] = "open"]
    /\ backlog' = backlog \cup {c}
    /\ late' = IF flag THEN late \cup {c} ELSE late
    /\ UNCHANGED <<loopVars, sent, inbox, taskVars>>

ClientSend(c) ==
    /\ sock[c] = "open"
    /\ sent[c] < MaxFrames
    /\ sent' = [sent EXCEPT ![c] = @ + 1]
    /\ inbox' = [inbox EXCEPT ![c] = @ + 1]
    /\ UNCHANGED <<loopVars, backlog, late, sock, taskVars>>

ClientClose(c) ==
    /\ sock[c] = "open"
    /\ sock' = [sock EXCEPT ![c] = "closed"]
    /\ UNCHANGED <<loopVars, backlog, late, sent, inbox, taskVars>>

-----------------------------------------------------------------------------

LoopStep ==
    \/ NextRound \/ Notified \/ StopAfterAccept \/ Admit \/ Spawn \/ AcceptFailed
    \/ \E c \in Conns : Accept(c)

ReaderStep(c) ==
    \/ Register(c) \/ ReadFrame(c) \/ ReadEnd(c) \/ ReadGarbled(c)
    \/ CheckFlag(c) \/ Dispatch(c) \/ Send(c) \/ Unregister(c)

WriterStep(c) == WriterRecv(c) \/ WriterDrained(c) \/ WriteFailed(c)

ClientStep(c) ==
    ClientConnect(c) \/ ClientSend(c) \/ ClientClose(c) \/ Written(c)

Next ==
    \/ StoreFlag \/ NotifyWaiters
    \/ LoopStep \/ AcceptError
    \/ \E c \in Conns : ReaderStep(c) \/ WriterStep(c) \/ ClientStep(c)

Spec == Init /\ [][Next]_vars

(* The runtime runs the server's tasks, and shutdown() once it has begun.  *)
(* Nothing makes a client connect, send, read or close, and nothing makes  *)
(* accept() fail.                                                          *)
Fairness ==
    /\ WF_vars(NotifyWaiters)
    /\ SF_vars(LoopStep)
    /\ \A c \in Conns : WF_vars(ReaderStep(c)) /\ WF_vars(WriterStep(c))

FairSpec == Spec /\ Fairness

-----------------------------------------------------------------------------

(* Whatever may hold sessions is where the sweeps of ConfigHandle look: a  *)
(* connection is registered from before its first frame until both its     *)
(* tasks have ended (connection_loop).                                     *)
RegisteredWhileServed ==
    \A c \in Conns : rd[c] \notin {"none", "start", "done"} => c \in reg

(* A connection that is served is registered, and the channel between its  *)
(* reader and its writer never holds more than it has room for             *)
(* (connection_loop, reader_task).                                         *)
ServedWithinBounds == TypeOK /\ RegisteredWhileServed

(* After shutdown() a connection dispatches at most the frame that had     *)
(* passed the reader's check (reader_task).                                *)
AtMostOneOverrun == \A c \in Conns : overrun[c] <= 1

(* When a client goes away its connection ends and is unregistered, even   *)
(* with the channel full and the writer stuck in a write (reader_task,     *)
(* writer_task, connection_loop).                                          *)
ClosedIsUnregistered ==
    \A c \in Conns : sock[c] = "closed" /\ c \in reg ~> c \notin reg

(* A client that waits in the listener when shutdown() has stored the flag *)
(* is never served: the check comes after accept() (serve).                *)
LateUnserved == \A c \in late : rd[c] = "none"

(* After shutdown() the accept loop stops at the latest with the next      *)
(* client that connects, and neither that client nor another that has come *)
(* since is served; nobody is once the loop has stopped (serve).           *)
StopsWithNextClient ==
    flag /\ backlog # {} ~> loop = "stopped" /\ LateUnserved
=============================================================================
