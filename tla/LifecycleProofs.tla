--------------------------- MODULE LifecycleProofs ---------------------------
(***************************************************************************)
(* Proofs about Lifecycle for any number of clients, any capacity of the   *)
(* writer's channel and any number of frames.                              *)
(*                                                                         *)
(* AtMostOneOverrun is strengthened by where the reader is: once it has    *)
(* dispatched a frame with the flag set it is never again past its check   *)
(* of the flag (OverrunIsLast).  The bound on inbox in TypeOK is           *)
(* strengthened to the frames sent (InboxSent).  LateUnserved rests on     *)
(* where a client may be: in the listener, with the accept loop, or served *)
(* (OneByOne), and on the flag, which is set before anyone is late.        *)
(***************************************************************************)
EXTENDS Lifecycle, TLAPS

InboxSent == \A c \in Conns : inbox[c] <= sent[c]

OverrunIsLast ==
    \A c \in Conns :
        \/ overrun[c] = 0
        \/ overrun[c] = 1 /\ flag /\ rd[c] # "dispatch"

TypeInv == TypeOK /\ InboxSent
LifeInv == TypeInv /\ RegisteredWhileServed /\ OverrunIsLast

LEMMA InitLifeInv == Init => LifeInv
<1> SUFFICES ASSUME Init PROVE LifeInv
  OBVIOUS
<1>0. 0 \in 0 .. MaxFrames /\ 0 \in 0 .. Channel
  BY ChannelAssumption
<1>1. TypeOK
  BY <1>0 DEF Init, TypeOK
<1>2. InboxSent /\ RegisteredWhileServed /\ OverrunIsLast
  BY DEF Init, InboxSent, RegisteredWhileServed, OverrunIsLast
<1> QED BY <1>1, <1>2 DEF LifeInv, TypeInv

LEMMA StepTypeInv == TypeInv /\ [Next]_vars => TypeInv'
<1> SUFFICES ASSUME TypeInv, [Next]_vars
             PROVE  TypeInv'
  OBVIOUS
<1> USE ChannelAssumption
    DEF TypeInv, TypeOK, InboxSent, vars, loopVars, sockVars, taskVars
<1>1. CASE UNCHANGED vars
  BY <1>1
<1>2. CASE StoreFlag \/ NotifyWaiters \/ NextRound \/ AcceptError \/ AcceptFailed
  BY <1>2 DEF StoreFlag, NotifyWaiters, NextRound, AcceptError, AcceptFailed
<1>a. CASE Admit
  BY <1>a DEF Admit
<1>3. CASE Notified \/ StopAfterAccept
  BY <1>3 DEF Notified, StopAfterAccept, Stop
<1>4. CASE Spawn
  BY <1>4 DEF Spawn
<1>5. ASSUME NEW c \in Conns, Accept(c)
      PROVE  TypeInv'
  BY <1>5 DEF Accept
<1>6. ASSUME NEW c \in Conns, ReaderStep(c)
      PROVE  TypeInv'
  <2>1. CASE Register(c) \/ Unregister(c)
    BY <2>1 DEF Register, Unregister
  <2>2. CASE ReadFrame(c) \/ ReadGarbled(c)
    BY <2>2 DEF ReadFrame, ReadGarbled, ReaderTo
  <2>3. CASE ReadEnd(c) \/ CheckFlag(c)
    BY <2>3 DEF ReadEnd, CheckFlag, ReaderTo
  <2>4. CASE Dispatch(c)
    BY <2>4 DEF Dispatch, ReaderTo
  <2>5. CASE Send(c)
    BY <2>5 DEF Send
  <2> QED BY <1>6, <2>1, <2>2, <2>3, <2>4, <2>5 DEF ReaderStep
<1>7. ASSUME NEW c \in Conns, WriterStep(c)
      PROVE  TypeInv'
  BY <1>7 DEF WriterStep, WriterRecv, WriterDrained, WriteFailed, WriterTo
<1>8. ASSUME NEW c \in Conns, ClientStep(c)
      PROVE  TypeInv'
  <2>1. CASE ClientSend(c)
    BY <2>1 DEF ClientSend
  <2>2. CASE ClientConnect(c) \/ ClientClose(c) \/ Written(c)
    BY <2>2 DEF ClientConnect, ClientClose, Written, WriterTo
  <2> QED BY <1>8, <2>1, <2>2 DEF ClientStep
<1> QED BY <1>1, <1>2, <1>a, <1>3, <1>4, <1>5, <1>6, <1>7, <1>8 DEF Next, LoopStep

(* Only the reader's own steps, and the Spawn that starts it, change what  *)
(* the two other invariants speak of.                                      *)
LEMMA StepReaderInv ==
    LifeInv /\ [Next]_vars => RegisteredWhileServed' /\ OverrunIsLast'
<1> SUFFICES ASSUME LifeInv, [Next]_vars
             PROVE  RegisteredWhileServed' /\ OverrunIsLast'
  OBVIOUS
<1> USE DEF LifeInv, TypeInv, TypeOK, RegisteredWhileServed, OverrunIsLast
<1>1. CASE UNCHANGED <<flag, rd, reg, overrun>>
  BY <1>1
<1>2. CASE StoreFlag
  BY <1>2 DEF StoreFlag, taskVars
<1>3. CASE Spawn
  BY <1>3 DEF Spawn
<1>4. ASSUME NEW c \in Conns, ReaderStep(c)
      PROVE  RegisteredWhileServed' /\ OverrunIsLast'
  <2>1. CASE Register(c) \/ Unregister(c)
    BY <2>1 DEF Register, Unregister, loopVars
  <2>2. CASE ReadFrame(c) \/ ReadEnd(c) \/ ReadGarbled(c) \/ CheckFlag(c)
    BY <2>2 DEF ReadFrame, ReadEnd, ReadGarbled, CheckFlag, ReaderTo, loopVars
  <2>3. CASE Dispatch(c)
    BY <2>3 DEF Dispatch, ReaderTo, loopVars
  <2>4. CASE Send(c)
    BY <2>4 DEF Send, loopVars
  <2> QED BY <1>4, <2>1, <2>2, <2>3, <2>4 DEF ReaderStep
<1>5. ASSUME NEW c \in Conns, WriterStep(c) \/ ClientStep(c)
      PROVE  UNCHANGED <<flag, rd, reg, overrun>>
  BY <1>5 DEF WriterStep, WriterRecv, WriterDrained, WriteFailed, WriterTo,
              ClientStep, ClientConnect, ClientSend, ClientClose, Written,
              loopVars, taskVars
<1>6. CASE NotifyWaiters \/ NextRound \/ AcceptError \/ AcceptFailed \/ Notified
           \/ StopAfterAccept \/ Admit \/ \E c \in Conns : Accept(c)
  BY <1>1, <1>6 DEF NotifyWaiters, NextRound, AcceptError, AcceptFailed, Notified,
              StopAfterAccept, Stop, Admit, Accept, taskVars
<1> QED BY <1>1, <1>2, <1>3, <1>4, <1>5, <1>6
        DEF Next, LoopStep, vars, loopVars, taskVars

LEMMA LifeInvariant == Spec => []LifeInv
<1>1. LifeInv /\ [Next]_vars => LifeInv'
  BY StepTypeInv, StepReaderInv DEF LifeInv
<1> QED BY <1>1, InitLifeInv, PTL DEF Spec

-----------------------------------------------------------------------------
(* Who has come too late.                                                  *)

(* A client is in the listener, then with the accept loop, then served;    *)
(* one that is anywhere has connected.                                     *)
OneByOne ==
    /\ \A c \in backlog : sock[c] # "none" /\ rd[c] = "none"
    /\ \A c \in Conns : rd[c] # "none" => sock[c] # "none"
    /\ loop \in {"accepted", "spawn"} =>
          picked \in Conns \ backlog /\ sock[picked] # "none"

(* Nobody is late before the flag is set, and the client the loop is about *)
(* to spawn a task for has been accepted before.                           *)
LateInv ==
    /\ OneByOne
    /\ late # {} => flag
    /\ loop = "spawn" => picked \notin late
    /\ LateUnserved

LEMMA StepLateInv == TypeOK /\ LateInv /\ [Next]_vars => LateInv'
<1> SUFFICES ASSUME TypeOK, LateInv, [Next]_vars
             PROVE  LateInv'
  OBVIOUS
<1> USE DEF TypeOK, LateInv, OneByOne, LateUnserved
<1>1. CASE UNCHANGED <<flag, loop, picked, backlog, late, sock, rd>>
  BY <1>1
<1>2. CASE StoreFlag
  BY <1>2 DEF StoreFlag, taskVars
<1>3. CASE NotifyWaiters \/ NextRound \/ AcceptError \/ AcceptFailed
  BY <1>3 DEF NotifyWaiters, NextRound, AcceptError, AcceptFailed, sockVars, taskVars
<1>4. CASE Notified \/ StopAfterAccept
  BY <1>4 DEF Notified, StopAfterAccept, Stop, taskVars
<1>5. CASE Admit
  BY <1>5 DEF Admit, sockVars, taskVars
<1>6. CASE Spawn
  BY <1>6 DEF Spawn, sockVars
<1>7. ASSUME NEW c \in Conns, Accept(c)
      PROVE  LateInv'
  BY <1>7 DEF Accept, taskVars
<1>8. ASSUME NEW c \in Conns, ReaderStep(c)
      PROVE  LateInv'
  <2>1. /\ UNCHANGED <<flag, loop, picked, backlog, late, sock>>
        /\ rd[c] # "none" /\ \A d \in Conns \ {c} : rd'[d] = rd[d]
    BY <1>8 DEF ReaderStep, Register, Unregister, ReadFrame, ReadEnd, ReadGarbled,
                CheckFlag, Dispatch, Send, ReaderTo, loopVars, sockVars
  <2> QED BY <2>1
<1>9. ASSUME NEW c \in Conns, ClientConnect(c)
      PROVE  LateInv'
  BY <1>9 DEF ClientConnect, loopVars, taskVars
<1>10. ASSUME NEW c \in Conns, ClientClose(c)
       PROVE  LateInv'
  BY <1>10 DEF ClientClose, loopVars, taskVars
<1>11. ASSUME NEW c \in Conns, WriterStep(c) \/ ClientSend(c) \/ Written(c)
       PROVE  UNCHANGED <<flag, loop, picked, backlog, late, sock, rd>>
  BY <1>11 DEF WriterStep, WriterRecv, WriterDrained, WriteFailed, WriterTo,
               ClientSend, Written, loopVars, sockVars, taskVars
<1> QED BY <1>1, <1>2, <1>3, <1>4, <1>5, <1>6, <1>7, <1>8, <1>9, <1>10, <1>11
        DEF Next, LoopStep, ClientStep, vars, loopVars, sockVars, taskVars

-----------------------------------------------------------------------------
(* The theorems.                                                           *)

(* The tasks' program counters and queues keep their types; the channel    *)
(* between reader and writer never holds more than its capacity.           *)
THEOREM LifecycleTypeCorrect == Spec => []TypeOK
<1>1. LifeInv => TypeOK
  BY DEF LifeInv, TypeInv
<1> QED BY <1>1, LifeInvariant, PTL

(* A connection that may hold sessions is in ActiveConnections, where the  *)
(* sweeps of ConfigHandle look (connection_loop), for any number of        *)
(* clients, and keeps within its channel.                                  *)
THEOREM ServedIsRegistered == Spec => []ServedWithinBounds
<1>1. LifeInv => RegisteredWhileServed
  BY DEF LifeInv
<1> QED BY <1>1, LifecycleTypeCorrect, LifeInvariant, PTL DEF ServedWithinBounds

(* After shutdown() no connection dispatches more than one frame, however  *)
(* many are waiting and whenever the flag is set (reader_task).            *)
THEOREM OneOverrun == Spec => []AtMostOneOverrun
<1>1. LifeInv => AtMostOneOverrun
  BY DEF LifeInv, OverrunIsLast, AtMostOneOverrun
<1> QED BY <1>1, LifeInvariant, PTL

(* A client that waits in the listener when shutdown() stores the flag, or *)
(* connects later, is never served, however many there are and wherever    *)
(* the accept loop is at that moment (serve).                              *)
THEOREM LateClientsUnserved == Spec => []LateUnserved
<1>1. Init => LateInv
  BY DEF Init, LateInv, OneByOne, LateUnserved
<1>2. LateInv => LateUnserved
  BY DEF LateInv
<1> QED BY <1>1, <1>2, StepLateInv, LifecycleTypeCorrect, PTL DEF Spec
=============================================================================
