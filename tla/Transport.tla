------------------------------ MODULE Transport ------------------------------
(***************************************************************************)
(* One transfer between two Bridges (bridge/transport): Session.Send at    *)
(* the source, Session.Receive at the sink, a direct connection where one  *)
(* can be had and a relayed one where not, and a loop on either side that  *)
(* carries on after a connection breaks.                                   *)
(*                                                                         *)
(* A byte is its position in the payload.  A connection carries what was   *)
(* written and not yet read: "down" is on its way to the sink, and on a    *)
(* relayed one "up" is on its way to the relay.  Of the relay there is the *)
(* pairing and the count of the grant's bytes; Relay has the rest.         *)
(***************************************************************************)
EXTENDS Integers, Sequences

CONSTANTS
  Size,       \* bytes to move
  Buffer,     \* bytes one direction of a connection holds
  MaxFaults   \* bound: broken connections, failing reads, writes and accepts,
              \* restarts, refusals, cancellations

ASSUME SizesArePositive == Size \in Nat \ {0} /\ Buffer \in Nat \ {0}
ASSUME BoundIsNat == MaxFaults \in Nat

VARIABLES
  net,         \* who listens, whom a dial reaches, whether there is a relay
  src,         \* Send: where it is, its offset, its connection
  sink,        \* Receive: where it is, whether it has accepted, its connection
  dst,         \* what Receive has written
  conn,        \* every connection made, in order
  relayed,     \* grantState.bytesRelayed
  cancelled,   \* sides whose context is done
  \* Bounds and history, read by no guard of the program.
  faults,
  lost,        \* a byte that was sent can no longer get into dst
  restarted,   \* the source has forgotten its offset
  overlapped   \* the relay paired before it had counted the session before

ends == <<src, sink, dst>>
world == <<net, relayed, cancelled>>
history == <<lost, restarted, overlapped>>
vars == <<ends, world, conn, faults, history>>

Connection(route) ==
  [route |-> route, up |-> <<>>, down |-> <<>>, state |-> "open",
   copied |-> 0, settled |-> route = "direct"]

Init ==
  /\ net \in [listening: BOOLEAN, reachable: BOOLEAN, relay: BOOLEAN]
  /\ src = [at |-> "dialing", offset |-> 0, conn |-> 0]
  /\ sink = [at |-> "dialing", tried |-> FALSE, conn |-> 0]
  /\ dst = <<>> /\ conn = <<>> /\ relayed = 0 /\ cancelled = {}
  /\ faults = 0 /\ lost = FALSE /\ restarted = FALSE /\ overlapped = FALSE

Larger(a, b) == IF a > b THEN a ELSE b
Directs == {k \in DOMAIN conn : conn[k].route = "direct"}
Relays == {k \in DOMAIN conn : conn[k].route = "relay"}

-----------------------------------------------------------------------------
(* Send: dial, write from the offset, and dial again when a write fails.   *)
(* The offset passes Size where the relay has counted bytes sent twice.    *)

CanDialDirect ==
  net.listening /\ net.reachable /\ "source" \notin cancelled
CanDialRelay(side) == net.relay /\ side \notin cancelled

\* The sink's kernel completes the connection; nobody has to accept it.
DialDirect ==
  /\ src.at = "dialing" /\ CanDialDirect
  /\ conn' = Append(conn, Connection("direct"))
  /\ src' = [src EXCEPT !.at = "sending", !.conn = Len(conn')]
  /\ UNCHANGED <<sink, dst, world, faults, history>>

\* Mistake: a failed direct dial is the end.
DialRelayNever ==
  /\ src.at = "dialing" /\ ~CanDialDirect
  /\ src' = [src EXCEPT !.at = "failed"]
  /\ UNCHANGED <<sink, dst, world, conn, faults, history>>

DialRelay ==
  /\ src.at = "dialing" /\ ~CanDialDirect
  /\ src' = [src EXCEPT !.at = IF CanDialRelay("source") THEN "waiting"
                               ELSE "failed"]
  /\ UNCHANGED <<sink, dst, world, conn, faults, history>>

Write ==
  LET c == conn[src.conn] IN
  /\ src.at = "sending" /\ src.offset < Size /\ c.state # "cut"
  /\ src' = [src EXCEPT !.offset = @ + 1]
  /\ \/ /\ c.route = "direct" /\ Len(c.down) < Buffer
        /\ conn' = [conn EXCEPT ![src.conn].down = Append(@, src'.offset)]
     \/ /\ c.route = "relay" /\ Len(c.up) < Buffer
        /\ conn' = [conn EXCEPT ![src.conn].up = Append(@, src'.offset)]
  /\ UNCHANGED <<sink, dst, world, faults, history>>

\* The kernel takes bytes for a connection it does not know to be broken.
WriteIntoTheVoid ==
  /\ src.at = "sending" /\ src.offset < Size /\ conn[src.conn].state = "cut"
  /\ src' = [src EXCEPT !.offset = @ + 1] /\ lost' = TRUE
  /\ UNCHANGED <<sink, dst, world, conn, faults, restarted, overlapped>>

WriteFails ==
  /\ src.at = "sending" /\ src.offset < Size /\ conn[src.conn].state = "cut"
  /\ src' = [src EXCEPT !.at = IF "source" \in cancelled THEN "failed"
                               ELSE "dialing"]
  /\ UNCHANGED <<sink, dst, world, conn, faults, history>>

\* Mistake: the connection is left open.
SentLeftOpen ==
  /\ src.at = "sending" /\ src.offset >= Size
  /\ src' = [src EXCEPT !.at = "done"]
  /\ UNCHANGED <<sink, dst, world, conn, faults, history>>

Sent ==
  /\ src.at = "sending" /\ src.offset >= Size
  /\ src' = [src EXCEPT !.at = "done"]
  /\ conn' = [conn EXCEPT ![src.conn].state =
                IF @ = "open" THEN "closed" ELSE @]
  /\ UNCHANGED <<sink, dst, world, faults, history>>

-----------------------------------------------------------------------------
(* The relay.                                                              *)

\* Mistake: the relay's count is taken for the offset, whatever went direct.
PairTrusting ==
  /\ src.at = "waiting" /\ sink.at = "waiting"
  /\ conn' = Append(conn, Connection("relay"))
  /\ src' = [at |-> "sending", conn |-> Len(conn'), offset |-> relayed]
  /\ sink' = [sink EXCEPT !.at = "receiving", !.conn = Len(conn')]
  /\ overlapped' = (overlapped \/ \E k \in Relays : ~conn[k].settled)
  /\ UNCHANGED <<dst, world, faults, lost, restarted>>

\* Both are told the bytes relayed so far; the sink does nothing with it.
Pair ==
  /\ src.at = "waiting" /\ sink.at = "waiting"
  /\ conn' = Append(conn, Connection("relay"))
  /\ src' = [at |-> "sending", conn |-> Len(conn'),
             offset |-> Larger(src.offset, relayed)]
  /\ sink' = [sink EXCEPT !.at = "receiving", !.conn = Len(conn')]
  /\ overlapped' = (overlapped \/ \E k \in Relays : ~conn[k].settled)
  /\ UNCHANGED <<dst, world, faults, lost, restarted>>

Copy(k) ==
  /\ conn[k].up # <<>> /\ conn[k].state # "cut" /\ Len(conn[k].down) < Buffer
  /\ conn' = [conn EXCEPT ![k].up = Tail(@), ![k].copied = @ + 1,
                          ![k].down = Append(@, Head(conn[k].up))]
  /\ UNCHANGED <<ends, world, faults, history>>

\* The session is over, and its bytes are the grant's.
Settle(k) ==
  /\ ~conn[k].settled
  /\ conn[k].state = "cut" \/ (conn[k].state = "closed" /\ conn[k].up = <<>>)
  /\ relayed' = relayed + conn[k].copied
  /\ conn' = [conn EXCEPT ![k].settled = TRUE]
  /\ UNCHANGED <<ends, net, cancelled, faults, history>>

\* The counterpart is not on its way within the timeout.
SourceTimesOut ==
  /\ src.at = "waiting" /\ sink.at \notin {"dialing", "waiting"}
  /\ src' = [src EXCEPT !.at = "failed"]
  /\ UNCHANGED <<sink, dst, world, conn, faults, history>>

SinkTimesOut ==
  /\ sink.at = "waiting" /\ src.at \notin {"dialing", "waiting"}
  /\ sink' = [sink EXCEPT !.at = "failed"]
  /\ UNCHANGED <<src, dst, world, conn, faults, history>>

-----------------------------------------------------------------------------
(* Receive: one direct connection at most, then the relay.                 *)

Listen ==
  /\ sink.at = "dialing" /\ net.listening /\ ~sink.tried
  /\ sink' = [sink EXCEPT !.at = "accepting", !.tried = TRUE]
  /\ UNCHANGED <<src, dst, world, conn, faults, history>>

\* Nothing is relayed before the sink asks for it, so the first connection
\* is direct if any is.
Accept ==
  /\ sink.at = "accepting"
  /\ 1 \in Directs /\ sink' = [sink EXCEPT !.at = "receiving", !.conn = 1]
  /\ UNCHANGED <<src, dst, world, conn, faults, history>>

\* acceptOne closes the listener, with whatever nobody accepted; and no dial
\* succeeds after it.
AcceptCancelled ==
  /\ sink.at = "accepting" /\ "sink" \in cancelled
  /\ sink' = [sink EXCEPT !.at = "failed"]
  /\ net' = [net EXCEPT !.listening = FALSE]
  /\ conn' = [k \in DOMAIN conn |->
                [conn[k] EXCEPT !.state = "cut", !.down = <<>>]]
  /\ UNCHANGED <<src, dst, relayed, cancelled, faults, history>>

JoinRelay ==
  /\ sink.at = "dialing" /\ (~net.listening \/ sink.tried)
  /\ sink' = [sink EXCEPT !.at = IF CanDialRelay("sink") THEN "waiting"
                                 ELSE "failed"]
  /\ UNCHANGED <<src, dst, world, conn, faults, history>>

Read ==
  LET k == sink.conn IN
  /\ sink.at = "receiving" /\ Len(dst) < Size /\ conn[k].down # <<>>
  /\ dst' = Append(dst, Head(conn[k].down))
  /\ conn' = [conn EXCEPT ![k].down = Tail(@)]
  /\ UNCHANGED <<src, sink, world, faults, history>>

Ended(k) ==
  /\ conn[k].down = <<>>
  /\ \/ conn[k].state = "cut"
     \/ conn[k].state = "closed" /\ conn[k].up = <<>> /\ conn[k].settled

ReadEnds ==
  /\ sink.at = "receiving" /\ Len(dst) < Size /\ Ended(sink.conn)
  /\ sink' = [sink EXCEPT !.at = IF "sink" \in cancelled THEN "failed"
                                 ELSE "dialing"]
  /\ conn' = [conn EXCEPT ![sink.conn].state = "cut"]
  /\ UNCHANGED <<src, dst, world, faults, history>>

Received ==
  /\ sink.at = "receiving" /\ Len(dst) = Size
  /\ sink' = [sink EXCEPT !.at = "done"]
  /\ conn' = [conn EXCEPT ![sink.conn].state = "cut",
                          ![sink.conn].up = <<>>, ![sink.conn].down = <<>>]
  /\ UNCHANGED <<src, dst, world, faults, history>>

-----------------------------------------------------------------------------
(* What goes wrong.                                                        *)

Fault == faults < MaxFaults /\ faults' = faults + 1

\* The connection Receive has, or may accept.
Readable(k) ==
  \/ k = sink.conn
  \/ sink.at \in {"dialing", "accepting"} /\ sink.conn = 0 /\ k = 1

\* A connection breaks.  The sink may still read some of what reached it.
Break(k) ==
  /\ Fault /\ conn[k].state # "cut"
  /\ \E n \in IF Readable(k) THEN 0..Len(conn[k].down) ELSE {0} :
       /\ conn' = [conn EXCEPT ![k].state = "cut", ![k].up = <<>>,
                               ![k].down = SubSeq(@, 1, n)]
       /\ lost' = (lost \/ n < Len(conn[k].down) \/ conn[k].up # <<>>)
  /\ UNCHANGED <<ends, world, restarted, overlapped>>

\* src.ReadAt fails, or ends early: sendFrom gives up a connection that
\* nothing is wrong with, and Send dials again as it does after a break.
ReadAtFails ==
  LET c == conn[src.conn] IN
  /\ Fault /\ src.at = "sending" /\ src.offset < Size
  /\ src' = [src EXCEPT !.at = IF "source" \in cancelled THEN "failed"
                               ELSE "dialing"]
  /\ conn' = [conn EXCEPT ![src.conn].state =
                IF @ = "open" THEN "closed" ELSE @]
  /\ lost' = (lost \/ (~Readable(src.conn) /\ c.down # <<>>))
  /\ UNCHANGED <<sink, dst, world, restarted, overlapped>>

\* acceptOne returns an error, and Receive turns to the relay.  The listener
\* stays open: dials succeed, and nobody accepts them any more.
AcceptFails ==
  /\ Fault /\ sink.at = "accepting"
  /\ sink' = [sink EXCEPT !.at = IF CanDialRelay("sink") THEN "waiting"
                                 ELSE "failed"]
  /\ lost' = (lost \/ (1 \in Directs /\ conn[1].down # <<>>))
  /\ UNCHANGED <<src, dst, world, conn, restarted, overlapped>>

\* dst.Write fails: CopyN drops what it has read and not written, and Receive
\* goes to the relay for the rest.
DstWriteFails ==
  /\ Fault /\ sink.at = "receiving" /\ Len(dst) < Size
  /\ conn[sink.conn].down # <<>>
  /\ sink' = [sink EXCEPT !.at = IF "sink" \in cancelled THEN "failed"
                                 ELSE "dialing"]
  /\ conn' = [conn EXCEPT ![sink.conn].state = "cut",
                          ![sink.conn].up = <<>>, ![sink.conn].down = <<>>]
  /\ lost' = TRUE
  /\ UNCHANGED <<src, dst, world, restarted, overlapped>>

PathGone ==
  /\ Fault /\ net.reachable /\ net' = [net EXCEPT !.reachable = FALSE]
  /\ UNCHANGED <<ends, relayed, cancelled, conn, history>>

\* The source's process ends and Send starts over.
Restart ==
  /\ Fault /\ src.at = "sending" /\ ~restarted /\ restarted' = TRUE
  /\ src' = [src EXCEPT !.at = "dialing", !.offset = 0]
  /\ conn' = [conn EXCEPT ![src.conn].state =
                IF @ = "open" THEN "closed" ELSE @]
  /\ UNCHANGED <<sink, dst, world, lost, overlapped>>

\* The relay turns a connection away.
RelayRefuses ==
  /\ Fault
  /\ \/ /\ src.at = "waiting" /\ src' = [src EXCEPT !.at = "failed"]
        /\ UNCHANGED sink
     \/ /\ sink.at = "waiting" /\ sink' = [sink EXCEPT !.at = "failed"]
        /\ UNCHANGED src
  /\ UNCHANGED <<dst, world, conn, history>>

Cancel(side) ==
  /\ Fault /\ side \notin cancelled /\ cancelled' = cancelled \cup {side}
  /\ UNCHANGED <<ends, net, relayed, conn, history>>

Send ==
  \/ DialDirect \/ DialRelay \/ Write \/ WriteIntoTheVoid \/ WriteFails
  \/ Sent \/ SourceTimesOut
Receive ==
  \/ Listen \/ Accept \/ AcceptCancelled \/ JoinRelay \/ Read \/ ReadEnds
  \/ Received \/ SinkTimesOut
Relaying == Pair \/ \E k \in Relays : Copy(k) \/ Settle(k)

Next ==
  \/ Send \/ Receive \/ Relaying
  \/ \E k \in DOMAIN conn : Break(k)
  \/ ReadAtFails \/ AcceptFails \/ DstWriteFails
  \/ PathGone \/ Restart \/ RelayRefuses
  \/ \E side \in {"source", "sink"} : Cancel(side)

Spec == Init /\ [][Next]_vars

\* Either side's goroutine, and the relay, do what they can; a break that
\* the kernel knows of is noticed.
FairSpec ==
  /\ Spec
  /\ WF_vars(Send) /\ WF_vars(Receive) /\ WF_vars(Relaying)

-----------------------------------------------------------------------------
(* Properties.                                                             *)

Whole == \A i \in DOMAIN dst : dst[i] = i

\* Where no byte is lost, on its way or by a write to dst that failed, the sink
\* has the source's bytes in their order, over every switch of routes, whether
\* a break caused it or a failing read; and after a restart of the source too,
\* if all of them went through a relay that had counted them.
InOrder ==
  (~lost /\ (restarted => Directs = {} /\ ~overlapped)) => Whole

\* A connection the sink will never take from the listener.
Stranded ==
  /\ src.at = "sending" /\ conn[src.conn].route = "direct"
  /\ src.conn # sink.conn /\ sink.at # "accepting"

\* If breaks and failing reads and writes come to an end, Send returns, unless
\* it writes into a connection that is never accepted; and Receive does,
\* unless it waits for its first one.  A payload that can never be read is
\* outside this: Send then dials for as long as a dial succeeds, which is
\* what RedialsOnlyWhatBroke is about.
BothReturn ==
  /\ <>[](src.at \in {"done", "failed"} \/ Stranded)
  /\ <>[](sink.at \in {"done", "failed", "accepting"})

\* Where nothing breaks and a sink that listens can be reached, a relay or
\* the direct path gets all bytes across, and both sides know it.
DeliveredInPeace ==
  ( /\ IF net.listening THEN net.reachable ELSE net.relay
    /\ [](faults = 0) )
  => <>(src.at = "done" /\ sink.at = "done" /\ Whole)

\* What a comment says, and the code does not do.

\* transport.go: "a mid-transfer route switch that neither loses nor duplicates
\* bytes".
SwitchLosesNothing == ~restarted => Whole

\* transport.go, where Send dials again: "Otherwise the connection failed
\* mid-stream".
\* It does not hold: TransportRedial.cfg.
RedialsOnlyWhatBroke ==
  [][src.at = "sending" /\ src'.at = "dialing" /\ restarted' = restarted
       => conn[src.conn].state = "cut"]_vars

=============================================================================
