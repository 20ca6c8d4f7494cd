-------------------------- MODULE Transport_proofs --------------------------
(***************************************************************************)
(* InOrder, for any number of bytes, buffer and number of faults.          *)
(*                                                                         *)
(* What the sink has, followed by what is still on its way in the          *)
(* connection it reads, is the payload from its first byte on (Stream),    *)
(* and the source's offset is where that ends (OffsetFits).  A switch of   *)
(* routes keeps this because a connection left by either side is empty, or *)
(* its bytes are counted as lost, and because the relay's count cannot put *)
(* the offset too high: it never exceeds what the source has sent          *)
(* (Ledger), and once a restart has made it the only memory, it is exact   *)
(* (Tally).                                                                *)
(***************************************************************************)
EXTENDS Transport, TLAPS

Connections ==
  [route : {"direct", "relay"}, up : Seq(Nat), down : Seq(Nat),
   state : {"open", "closed", "cut"}, copied : Nat, settled : BOOLEAN]

TypeOK ==
  /\ net \in [listening : BOOLEAN, reachable : BOOLEAN, relay : BOOLEAN]
  /\ src \in [at : {"dialing", "waiting", "sending", "done", "failed"},
              offset : Nat, conn : Nat]
  /\ sink \in [at : {"dialing", "accepting", "waiting", "receiving", "done",
                     "failed"},
               tried : BOOLEAN, conn : Nat]
  /\ dst \in Seq(Nat) /\ conn \in Seq(Connections) /\ relayed \in Nat
  /\ cancelled \in SUBSET {"source", "sink"} /\ faults \in Nat
  /\ lost \in BOOLEAN /\ restarted \in BOOLEAN /\ overlapped \in BOOLEAN

\* Receive has not returned.
Live == sink.at \notin {"done", "failed"}

\* The connection Receive has; before it has one, the one it would accept,
\* and none once it has turned to the relay instead.
Current ==
  IF sink.conn # 0 \/ (sink.at = "waiting" /\ sink.tried) THEN sink.conn ELSE 1
InUse == Current \in DOMAIN conn

\* Where the two ends stand, against the connections they hold.
SourceFits ==
  /\ src.conn <= Len(conn)
  /\ src.at = "sending" => src.conn # 0 /\ conn[src.conn].state # "closed"
  /\ src.conn # 0 /\ conn[src.conn].route = "relay" => sink.conn = src.conn

SinkFits ==
  /\ sink.conn <= Len(conn)
  /\ sink.at = "receiving" => sink.conn # 0
  /\ sink.at = "accepting" => sink.conn = 0 /\ sink.tried
  /\ Live /\ sink.conn # 0 /\ ~ sink.tried => ~ net.listening
  /\ sink.at = "dialing" /\ sink.tried => sink.conn # 0
  /\ sink.at = "waiting" /\ sink.conn = 0 => sink.tried \/ ~ net.listening
  /\ Live /\ ~ net.listening => Directs = {}
  /\ sink.conn = 0 => Relays = {}
  /\ sink.at \in {"dialing", "waiting"} /\ sink.conn # 0
       => conn[sink.conn].state = "cut" /\ conn[sink.conn].down = <<>>

Fitting(c, live) ==
  /\ c.route = "direct" => c.up = <<>> /\ c.settled /\ c.copied = 0
  /\ c.settled /\ c.route = "relay" =>
       c.state = "cut" \/ (c.state = "closed" /\ c.up = <<>>)
  /\ live /\ c.state = "cut" => c.up = <<>>

ConnectionFits(c) == Fitting(c, Live)

\* What a session has taken from the source and the grant does not count yet.
Held(c) == (IF c.settled THEN 0 ELSE c.copied) + Len(c.up)

\* Running totals g of what the connections s hold, within the offset.
Account(g, s, total, offset) ==
  /\ g \in [0..Len(s) -> Int] /\ g[0] = 0
  /\ \A j \in 1..Len(s) : g[j] >= g[j - 1] + Held(s[j])
  /\ \A i, j \in 0..Len(s) : i <= j => g[i] <= g[j]
  /\ total + g[Len(s)] <= offset

Accounted(s, total, offset) ==
  \E g \in [0..Len(s) -> Int] : Account(g, s, total, offset)

\* The relay has counted, and will count, no more than the source has sent.
Ledger == ~ restarted => Accounted(conn, relayed, src.offset)

\* Nothing on its way has been lost, and nothing the source forgot was
\* anywhere but with the relay.
Accountable == ~ lost /\ (restarted => Directs = {} /\ ~ overlapped)

\* Where everything was relayed, one session after the other, the count is
\* what has left the relay for the sink.
Tally ==
  Live /\ ~ lost /\ Directs = {} /\ ~ overlapped =>
    IF conn = <<>> THEN relayed = 0 /\ dst = <<>>
    ELSE /\ src.conn = Len(conn) /\ sink.conn = Len(conn)
         /\ \A k \in DOMAIN conn : k # Len(conn) => conn[k].settled
         /\ relayed + (IF conn[Len(conn)].settled THEN 0
                       ELSE conn[Len(conn)].copied)
              = Len(dst) + Len(conn[Len(conn)].down)

\* The bytes of s are those after the first n, in their order.
Follows(s, n) == \A i \in DOMAIN s : s[i] = n + i

\* What the connection c still holds follows the first n bytes.
Continues(c, n) == Follows(c.down, n) /\ Follows(c.up, n + Len(c.down))

\* What the sink has and will read.
Stream ==
  Live /\ Accountable =>
    /\ Whole
    /\ InUse => Continues(conn[Current], Len(dst))
    /\ \A k \in DOMAIN conn :
         k # Current /\ conn[k].state = "cut" => conn[k].down = <<>>

\* How much that is.
OnItsWay(c) == Len(c.down) + Len(c.up)
Total == Len(dst) + (IF InUse THEN OnItsWay(conn[Current]) ELSE 0)

\* What the source has written where the sink does not read.
Stray ==
  IF src.conn # 0 /\ src.conn # Current THEN Len(conn[src.conn].down) ELSE 0

OffsetFits ==
  Live /\ Accountable =>
    /\ src.at \in {"dialing", "waiting"} =>
         IF restarted THEN src.offset <= Total ELSE src.offset = Total
    /\ src.at = "sending" => src.offset = Total + Stray

IInv ==
  /\ TypeOK /\ SourceFits /\ SinkFits
  /\ \A k \in DOMAIN conn : ConnectionFits(conn[k])
  /\ Ledger /\ Tally /\ Stream /\ OffsetFits
  /\ InOrder

-----------------------------------------------------------------------------
(* Sequences.                                                              *)

\* The SMT encoding does not know the members of BOOLEAN by itself.
LEMMA Booleans == TRUE \in BOOLEAN /\ FALSE \in BOOLEAN
  OBVIOUS

LEMMA Lengths ==
  ASSUME NEW S, NEW s \in Seq(S)
  PROVE  /\ Len(s) \in Nat /\ DOMAIN s = 1..Len(s)
         /\ (s = <<>>) <=> (Len(s) = 0)
         /\ \A i \in DOMAIN s : s[i] \in S
  OBVIOUS

LEMMA AppendTo ==
  ASSUME NEW S, NEW s \in Seq(S), NEW e \in S
  PROVE  /\ Append(s, e) \in Seq(S) /\ Len(Append(s, e)) = Len(s) + 1
         /\ Append(s, e) # <<>>
         /\ DOMAIN Append(s, e) = 1..(Len(s) + 1)
         /\ \A i \in 1..Len(s) : Append(s, e)[i] = s[i]
         /\ Append(s, e)[Len(s) + 1] = e
  OBVIOUS

LEMMA TailOf ==
  ASSUME NEW S, NEW s \in Seq(S), s # <<>>
  PROVE  /\ Len(s) > 0 /\ Head(s) = s[1] /\ Head(s) \in S
         /\ Tail(s) \in Seq(S) /\ Len(Tail(s)) = Len(s) - 1
         /\ DOMAIN Tail(s) = 1..(Len(s) - 1)
         /\ \A i \in 1..(Len(s) - 1) : Tail(s)[i] = s[i + 1]
  OBVIOUS

LEMMA PrefixOf ==
  ASSUME NEW S, NEW s \in Seq(S), NEW n \in 0..Len(s)
  PROVE  /\ SubSeq(s, 1, n) \in Seq(S) /\ Len(SubSeq(s, 1, n)) = n
         /\ n = Len(s) => SubSeq(s, 1, n) = s
         /\ n = 0 => SubSeq(s, 1, n) = <<>>
  <1>1. SubSeq(s, 1, n) \in Seq(S) /\ Len(SubSeq(s, 1, n)) = n
        /\ \A i \in 1..n : SubSeq(s, 1, n)[i] = s[i]
    OBVIOUS
  <1>2. ASSUME n = Len(s) PROVE SubSeq(s, 1, n) = s
    BY <1>1, <1>2
  <1>3. QED
    BY <1>1, <1>2

\* A connection replaced by another, the others as they were.
LEMMA Replaced ==
  ASSUME NEW s \in Seq(Connections), NEW k \in DOMAIN s, NEW c \in Connections
  PROVE  /\ [s EXCEPT ![k] = c] \in Seq(Connections)
         /\ Len([s EXCEPT ![k] = c]) = Len(s)
         /\ DOMAIN [s EXCEPT ![k] = c] = DOMAIN s
         /\ [s EXCEPT ![k] = c][k] = c
         /\ \A j \in DOMAIN s : j # k => [s EXCEPT ![k] = c][j] = s[j]
  OBVIOUS

-----------------------------------------------------------------------------
(* What the actions do to the connections.                                 *)

\* Connection k has become this, the others are as they were.
Changed(k, up, down, state, copied, settled) ==
  /\ conn' \in Seq(Connections)
  /\ Len(conn') = Len(conn) /\ DOMAIN conn' = DOMAIN conn
  /\ conn'[k].route = conn[k].route /\ conn'[k].up = up
  /\ conn'[k].down = down /\ conn'[k].state = state
  /\ conn'[k].copied = copied /\ conn'[k].settled = settled
  /\ \A j \in DOMAIN conn : j # k => conn'[j] = conn[j]

\* A new connection is the last.
Added(route) ==
  /\ conn' \in Seq(Connections) /\ Len(conn') = Len(conn) + 1
  /\ DOMAIN conn' = 1..(Len(conn) + 1)
  /\ conn'[Len(conn) + 1] = Connection(route)
  /\ \A j \in DOMAIN conn : conn'[j] = conn[j]

LEMMA ConnectionTyped ==
  ASSUME conn \in Seq(Connections), NEW k \in DOMAIN conn
  PROVE  /\ conn[k].route \in {"direct", "relay"}
         /\ conn[k].up \in Seq(Nat) /\ conn[k].down \in Seq(Nat)
         /\ conn[k].state \in {"open", "closed", "cut"}
         /\ conn[k].copied \in Nat /\ conn[k].settled \in BOOLEAN
  <1>1. conn[k] \in Connections
    OBVIOUS
  <1>2. QED
    BY <1>1 DEF Connections

LEMMA Changes ==
  ASSUME conn \in Seq(Connections), NEW k \in DOMAIN conn,
         NEW r \in Connections, r.route = conn[k].route,
         conn' = [conn EXCEPT ![k] = r]
  PROVE  Changed(k, r.up, r.down, r.state, r.copied, r.settled)
  <1>1. conn'[k] = r /\ conn' \in Seq(Connections)
        /\ Len(conn') = Len(conn) /\ DOMAIN conn' = DOMAIN conn
        /\ \A j \in DOMAIN conn : j # k => conn'[j] = conn[j]
    BY Replaced
  <1>2. QED
    BY <1>1 DEF Changed

LEMMA Adds ==
  ASSUME conn \in Seq(Connections), NEW route \in {"direct", "relay"},
         conn' = Append(conn, Connection(route))
  PROVE  Added(route)
  <1>1. Connection(route) \in Connections
    BY DEF Connection, Connections
  <1>2. QED
    BY <1>1, AppendTo DEF Added

LEMMA CopyDoes ==
  ASSUME conn \in Seq(Connections), NEW k \in DOMAIN conn, Copy(k)
  PROVE  Changed(k, Tail(conn[k].up), Append(conn[k].down, conn[k].up[1]),
                 conn[k].state, conn[k].copied + 1, conn[k].settled)
  <1>1. conn[k].up # <<>> /\ conn[k].up \in Seq(Nat) /\ conn[k].down \in Seq(Nat)
        /\ conn[k].copied + 1 \in Nat /\ conn[k] \in Connections
    BY ConnectionTyped DEF Copy
  <1>2. Head(conn[k].up) = conn[k].up[1] /\ conn[k].up[1] \in Nat
        /\ Tail(conn[k].up) \in Seq(Nat)
    BY <1>1, TailOf
  <1>3. Append(conn[k].down, conn[k].up[1]) \in Seq(Nat)
    BY <1>1, <1>2, AppendTo
  <1> DEFINE r == [conn[k] EXCEPT !.up = Tail(conn[k].up),
                                  !.copied = conn[k].copied + 1,
                                  !.down = Append(conn[k].down, conn[k].up[1])]
  <1>4. conn' = [conn EXCEPT ![k] = r]
    <2>1. conn' = [conn EXCEPT ![k].up = Tail(@), ![k].copied = @ + 1,
                          ![k].down = Append(@, Head(conn[k].up))]
      BY DEF Copy
    <2>2. QED
      BY <2>1, <1>2
  <1>5. r \in Connections /\ r.route = conn[k].route /\ r.up = Tail(conn[k].up)
        /\ r.down = Append(conn[k].down, conn[k].up[1])
        /\ r.state = conn[k].state /\ r.copied = conn[k].copied + 1
        /\ r.settled = conn[k].settled
    BY <1>1, <1>2, <1>3 DEF Connections
  <1> HIDE DEF r
  <1>6. Changed(k, r.up, r.down, r.state, r.copied, r.settled)
    BY <1>4, <1>5, Changes
  <1>7. QED
    BY <1>5, <1>6

LEMMA WriteDirectDoes ==
  ASSUME conn \in Seq(Connections), src.conn \in DOMAIN conn, src.offset \in Nat,
         Write, conn[src.conn].route = "direct"
  PROVE  Changed(src.conn, conn[src.conn].up,
                 Append(conn[src.conn].down, src.offset + 1),
                 conn[src.conn].state,
                 conn[src.conn].copied, conn[src.conn].settled)
  <1>1. conn[src.conn] \in Connections
        /\ Append(conn[src.conn].down, src.offset + 1) \in Seq(Nat)
        /\ src'.offset = src.offset + 1
    BY ConnectionTyped, AppendTo DEF Write
  <1> DEFINE r ==
         [conn[src.conn] EXCEPT
            !.down = Append(conn[src.conn].down, src.offset + 1)]
  <1>2. conn' = [conn EXCEPT ![src.conn] = r]
    BY <1>1 DEF Write
  <1>3. r \in Connections /\ r.route = conn[src.conn].route
        /\ r.up = conn[src.conn].up
        /\ r.down = Append(conn[src.conn].down, src.offset + 1)
        /\ r.state = conn[src.conn].state
        /\ r.copied = conn[src.conn].copied
        /\ r.settled = conn[src.conn].settled
    BY <1>1, Booleans DEF Connections
  <1> HIDE DEF r
  <1>4. Changed(src.conn, r.up, r.down, r.state, r.copied, r.settled)
    BY <1>1, <1>2, <1>3, Changes
  <1>5. QED
    BY <1>3, <1>4

LEMMA WriteRelayDoes ==
  ASSUME conn \in Seq(Connections), src.conn \in DOMAIN conn, src.offset \in Nat,
         Write, conn[src.conn].route = "relay"
  PROVE  Changed(src.conn, Append(conn[src.conn].up, src.offset + 1),
                 conn[src.conn].down,
                 conn[src.conn].state,
                 conn[src.conn].copied, conn[src.conn].settled)
  <1>1. conn[src.conn] \in Connections
        /\ Append(conn[src.conn].up, src.offset + 1) \in Seq(Nat)
        /\ src'.offset = src.offset + 1
    BY ConnectionTyped, AppendTo DEF Write
  <1> DEFINE r ==
         [conn[src.conn] EXCEPT !.up = Append(conn[src.conn].up, src.offset + 1)]
  <1>2. conn' = [conn EXCEPT ![src.conn] = r]
    BY <1>1 DEF Write
  <1>3. r \in Connections /\ r.route = conn[src.conn].route
        /\ r.up = Append(conn[src.conn].up, src.offset + 1) /\ r.down = conn[src.conn].down
        /\ r.state = conn[src.conn].state
        /\ r.copied = conn[src.conn].copied
        /\ r.settled = conn[src.conn].settled
    BY <1>1, Booleans DEF Connections
  <1> HIDE DEF r
  <1>4. Changed(src.conn, r.up, r.down, r.state, r.copied, r.settled)
    BY <1>1, <1>2, <1>3, Changes
  <1>5. QED
    BY <1>3, <1>4

\* The source closes its connection; what is in it stays in it.
HangsUp ==
  Changed(src.conn, conn[src.conn].up, conn[src.conn].down,
          (IF conn[src.conn].state = "open" THEN "closed"
           ELSE conn[src.conn].state),
          conn[src.conn].copied, conn[src.conn].settled)

LEMMA HangsUpDoes ==
  ASSUME conn \in Seq(Connections), src.conn \in DOMAIN conn,
         conn' = [conn EXCEPT ![src.conn].state =
                    IF @ = "open" THEN "closed" ELSE @]
  PROVE  HangsUp
  <1>1. conn[src.conn] \in Connections
        /\ conn[src.conn].state \in {"open", "closed", "cut"}
    BY ConnectionTyped
  <1> DEFINE r ==
         [conn[src.conn] EXCEPT
            !.state = (IF conn[src.conn].state = "open" THEN "closed" ELSE conn[src.conn].state)]
  <1>2. conn' = [conn EXCEPT ![src.conn] = r]
    BY <1>1
  <1>3. r \in Connections /\ r.route = conn[src.conn].route
        /\ r.up = conn[src.conn].up /\ r.down = conn[src.conn].down
        /\ r.state = (IF conn[src.conn].state = "open" THEN "closed" ELSE conn[src.conn].state)
        /\ r.copied = conn[src.conn].copied
        /\ r.settled = conn[src.conn].settled
    BY <1>1, Booleans DEF Connections
  <1> HIDE DEF r
  <1>4. Changed(src.conn, r.up, r.down, r.state, r.copied, r.settled)
    BY <1>1, <1>2, <1>3, Changes
  <1>5. QED
    BY <1>3, <1>4 DEF HangsUp

LEMMA SentDoes ==
  ASSUME conn \in Seq(Connections), src.conn \in DOMAIN conn, Sent
  PROVE  HangsUp
  BY HangsUpDoes DEF Sent

LEMMA RestartDoes ==
  ASSUME conn \in Seq(Connections), src.conn \in DOMAIN conn, Restart
  PROVE  HangsUp
  BY HangsUpDoes DEF Restart

LEMMA ReadAtFailsDoes ==
  ASSUME conn \in Seq(Connections), src.conn \in DOMAIN conn, ReadAtFails
  PROVE  HangsUp
  BY HangsUpDoes DEF ReadAtFails

LEMMA SettleDoes ==
  ASSUME conn \in Seq(Connections), NEW k \in DOMAIN conn, Settle(k)
  PROVE  Changed(k, conn[k].up, conn[k].down,
                 conn[k].state, conn[k].copied, TRUE)
  <1>1. conn[k] \in Connections
    BY ConnectionTyped
  <1> DEFINE r == [conn[k] EXCEPT !.settled = TRUE]
  <1>2. conn' = [conn EXCEPT ![k] = r]
    BY <1>1 DEF Settle
  <1>3. r \in Connections /\ r.route = conn[k].route
        /\ r.up = conn[k].up /\ r.down = conn[k].down
        /\ r.state = conn[k].state
        /\ r.copied = conn[k].copied /\ r.settled = TRUE
    BY <1>1, Booleans DEF Connections
  <1> HIDE DEF r
  <1>4. Changed(k, r.up, r.down, r.state, r.copied, r.settled)
    BY <1>1, <1>2, <1>3, Changes
  <1>5. QED
    BY <1>3, <1>4

LEMMA ReadDoes ==
  ASSUME conn \in Seq(Connections), sink.conn \in DOMAIN conn, Read
  PROVE  Changed(sink.conn, conn[sink.conn].up, Tail(conn[sink.conn].down),
                 conn[sink.conn].state,
                 conn[sink.conn].copied, conn[sink.conn].settled)
  <1>1. conn[sink.conn] \in Connections
        /\ Tail(conn[sink.conn].down) \in Seq(Nat)
    BY ConnectionTyped, TailOf DEF Read
  <1> DEFINE r == [conn[sink.conn] EXCEPT !.down = Tail(conn[sink.conn].down)]
  <1>2. conn' = [conn EXCEPT ![sink.conn] = r]
    BY <1>1 DEF Read
  <1>3. r \in Connections /\ r.route = conn[sink.conn].route
        /\ r.up = conn[sink.conn].up /\ r.down = Tail(conn[sink.conn].down)
        /\ r.state = conn[sink.conn].state
        /\ r.copied = conn[sink.conn].copied
        /\ r.settled = conn[sink.conn].settled
    BY <1>1, Booleans DEF Connections
  <1> HIDE DEF r
  <1>4. Changed(sink.conn, r.up, r.down, r.state, r.copied, r.settled)
    BY <1>1, <1>2, <1>3, Changes
  <1>5. QED
    BY <1>3, <1>4

LEMMA ReadEndsDoes ==
  ASSUME conn \in Seq(Connections), sink.conn \in DOMAIN conn, ReadEnds
  PROVE  Changed(sink.conn, conn[sink.conn].up, conn[sink.conn].down,
                 "cut", conn[sink.conn].copied, conn[sink.conn].settled)
  <1>1. conn[sink.conn] \in Connections
    BY ConnectionTyped
  <1> DEFINE r == [conn[sink.conn] EXCEPT !.state = "cut"]
  <1>2. conn' = [conn EXCEPT ![sink.conn] = r]
    BY <1>1 DEF ReadEnds
  <1>3. r \in Connections /\ r.route = conn[sink.conn].route
        /\ r.up = conn[sink.conn].up /\ r.down = conn[sink.conn].down
        /\ r.state = "cut"
        /\ r.copied = conn[sink.conn].copied
        /\ r.settled = conn[sink.conn].settled
    BY <1>1, Booleans DEF Connections
  <1> HIDE DEF r
  <1>4. Changed(sink.conn, r.up, r.down, r.state, r.copied, r.settled)
    BY <1>1, <1>2, <1>3, Changes
  <1>5. QED
    BY <1>3, <1>4

\* Receive closes its connection; what is in it is gone.
Drops ==
  Changed(sink.conn, <<>>, <<>>, "cut", conn[sink.conn].copied,
          conn[sink.conn].settled)

LEMMA DropsDoes ==
  ASSUME conn \in Seq(Connections), sink.conn \in DOMAIN conn,
         conn' = [conn EXCEPT ![sink.conn].state = "cut",
                              ![sink.conn].up = <<>>, ![sink.conn].down = <<>>]
  PROVE  Drops
  <1>1. conn[sink.conn] \in Connections /\ <<>> \in Seq(Nat)
    BY ConnectionTyped
  <1> DEFINE r == [conn[sink.conn] EXCEPT !.state = "cut",
                                  !.up = <<>>,
                                  !.down = <<>>]
  <1>2. conn' = [conn EXCEPT ![sink.conn] = r]
    BY <1>1
  <1>3. r \in Connections /\ r.route = conn[sink.conn].route
        /\ r.up = <<>> /\ r.down = <<>>
        /\ r.state = "cut"
        /\ r.copied = conn[sink.conn].copied
        /\ r.settled = conn[sink.conn].settled
    BY <1>1, Booleans DEF Connections
  <1> HIDE DEF r
  <1>4. Changed(sink.conn, r.up, r.down, r.state, r.copied, r.settled)
    BY <1>1, <1>2, <1>3, Changes
  <1>5. QED
    BY <1>3, <1>4 DEF Drops

LEMMA ReceivedDoes ==
  ASSUME conn \in Seq(Connections), sink.conn \in DOMAIN conn, Received
  PROVE  Drops
  BY DropsDoes DEF Received

LEMMA DstWriteFailsDoes ==
  ASSUME conn \in Seq(Connections), sink.conn \in DOMAIN conn, DstWriteFails
  PROVE  Drops
  BY DropsDoes DEF DstWriteFails

\* A break takes the end of what was on its way, and says so.
LEMMA BreakDoes ==
  ASSUME conn \in Seq(Connections), NEW k \in DOMAIN conn, Break(k),
         lost \in BOOLEAN
  PROVE  \E d \in Seq(Nat) :
           /\ Changed(k, <<>>, d, "cut", conn[k].copied, conn[k].settled)
           /\ lost' \in BOOLEAN
           /\ ~ lost' => /\ ~ lost /\ d = conn[k].down
                         /\ conn[k].up = <<>>
                         /\ d = <<>> \/ Readable(k)
  <1>1. conn[k] \in Connections /\ conn[k].down \in Seq(Nat)
        /\ Len(conn[k].down) \in Nat /\ <<>> \in Seq(Nat)
    BY ConnectionTyped, Lengths
  <1>2. PICK n \in IF Readable(k) THEN 0..Len(conn[k].down) ELSE {0} :
          /\ conn' = [conn EXCEPT ![k].state = "cut", ![k].up = <<>>,
                               ![k].down = SubSeq(@, 1, n)]
          /\ lost' = (lost \/ n < Len(conn[k].down) \/ conn[k].up # <<>>)
    BY DEF Break
  <1> DEFINE d == SubSeq(conn[k].down, 1, n)
  <1>3. n \in 0..Len(conn[k].down) /\ (n = 0 \/ Readable(k))
    BY <1>1, <1>2
  <1>4. d \in Seq(Nat) /\ (n = Len(conn[k].down) => d = conn[k].down)
        /\ (n = 0 => d = <<>>)
    BY <1>1, <1>3, PrefixOf
  <1>5. lost' \in BOOLEAN
    BY <1>2, Booleans
  <1>6. ASSUME ~ lost'
        PROVE  /\ ~ lost /\ d = conn[k].down /\ conn[k].up = <<>>
               /\ d = <<>> \/ Readable(k)
    <2>1. ~ lost /\ ~ (n < Len(conn[k].down)) /\ conn[k].up = <<>>
      BY <1>2, <1>6
    <2>2. n = Len(conn[k].down)
      BY <1>1, <1>3, <2>1
    <2>3. QED
      BY <1>3, <1>4, <2>1, <2>2
  <1> DEFINE r == [conn[k] EXCEPT !.state = "cut", !.up = <<>>, !.down = d]
  <1>7. conn' = [conn EXCEPT ![k] = r]
    BY <1>2
  <1> HIDE DEF d
  <1>8. r \in Connections /\ r.route = conn[k].route /\ r.up = <<>>
        /\ r.down = d /\ r.state = "cut"
        /\ r.copied = conn[k].copied /\ r.settled = conn[k].settled
    BY <1>1, <1>4 DEF Connections
  <1> HIDE DEF r
  <1>9. Changed(k, r.up, r.down, r.state, r.copied, r.settled)
    BY <1>7, <1>8, Changes
  <1>10. Changed(k, <<>>, d, "cut", conn[k].copied, conn[k].settled)
    BY <1>8, <1>9
  <1>11. QED
    BY <1>4, <1>5, <1>6, <1>10

LEMMA AcceptCancelledDoes ==
  ASSUME conn \in Seq(Connections), AcceptCancelled
  PROVE  /\ conn' \in Seq(Connections) /\ Len(conn') = Len(conn)
         /\ DOMAIN conn' = DOMAIN conn
         /\ \A k \in DOMAIN conn :
              /\ conn'[k].route = conn[k].route /\ conn'[k].up = conn[k].up
              /\ conn'[k].down = <<>> /\ conn'[k].state = "cut"
              /\ conn'[k].copied = conn[k].copied
              /\ conn'[k].settled = conn[k].settled
  <1>1. ASSUME NEW k \in DOMAIN conn
        PROVE  /\ conn'[k] \in Connections
               /\ conn'[k].route = conn[k].route /\ conn'[k].up = conn[k].up
               /\ conn'[k].down = <<>> /\ conn'[k].state = "cut"
               /\ conn'[k].copied = conn[k].copied
               /\ conn'[k].settled = conn[k].settled
    <2>1. conn[k] \in Connections /\ <<>> \in Seq(Nat)
      OBVIOUS
    <2>2. conn'[k] = [conn[k] EXCEPT !.state = "cut", !.down = <<>>]
      BY DEF AcceptCancelled
    <2>3. QED
      BY <2>1, <2>2 DEF Connections
  <1> DEFINE r(k) == [conn[k] EXCEPT !.state = "cut", !.down = <<>>]
  <1>2. conn' = [k \in DOMAIN conn |-> r(k)]
    BY DEF AcceptCancelled
  <1> HIDE DEF r
  <1>3. conn' \in Seq(Connections) /\ Len(conn') = Len(conn)
        /\ DOMAIN conn' = DOMAIN conn
    <2>1. DOMAIN conn = 1..Len(conn) /\ Len(conn) \in Nat
      OBVIOUS
    <2>2. conn' = [k \in 1..Len(conn) |-> r(k)]
      BY <1>2, <2>1
    <2>3. \A k \in 1..Len(conn) : r(k) \in Connections
      BY <1>1, <2>1, <2>2
    <2>4. QED
      BY <2>1, <2>2, <2>3
  <1>4. QED
    BY <1>1, <1>3

LEMMA DialDirectDoes ==
  ASSUME conn \in Seq(Connections), DialDirect
  PROVE  Added("direct")
  BY Adds DEF DialDirect

LEMMA PairDoes ==
  ASSUME conn \in Seq(Connections), Pair
  PROVE  Added("relay")
  BY Adds DEF Pair

-----------------------------------------------------------------------------
(* Types.                                                                  *)

\* What an action may do to the types, the connections apart.
LEMMA Retyped ==
  ASSUME TypeOK, conn' \in Seq(Connections), [Next]_vars,
         sink.at = "receiving" => sink.conn \in DOMAIN conn
  PROVE  TypeOK'
  <1> USE Booleans DEF TypeOK
  <1>0. Len(conn') \in Nat /\ dst \in Seq(Nat)
    OBVIOUS
  <1>1. CASE DialDirect
    BY <1>0, <1>1 DEF DialDirect, world, history
  <1>2. CASE DialRelay
    BY <1>2 DEF DialRelay, world, history
  <1>3. CASE Write
    BY SMTT(30), <1>3 DEF Write, world, history
  <1>4. CASE WriteIntoTheVoid
    BY <1>4 DEF WriteIntoTheVoid, world, history
  <1>5. CASE WriteFails
    BY <1>5 DEF WriteFails, world, history
  <1>6. CASE Sent
    BY <1>6 DEF Sent, world, history
  <1>7. CASE SourceTimesOut
    BY <1>7 DEF SourceTimesOut, world, history
  <1>8. CASE Listen
    BY <1>8 DEF Listen, world, history
  <1>9. CASE Accept
    BY <1>9 DEF Accept, world, history
  <1>10. CASE AcceptCancelled
    BY <1>10 DEF AcceptCancelled, world, history
  <1>11. CASE JoinRelay
    BY <1>11 DEF JoinRelay, world, history
  <1>12. CASE Read
    <2>1. Head(conn[sink.conn].down) \in Nat
      BY <1>12, ConnectionTyped, TailOf DEF Read
    <2>2. dst' \in Seq(Nat)
      BY <1>12, <2>1 DEF Read
    <2>3. QED
      BY <1>12, <2>2 DEF Read, world, history
  <1>13. CASE ReadEnds
    BY <1>13 DEF ReadEnds, world, history
  <1>14. CASE Received
    BY <1>14 DEF Received, world, history
  <1>15. CASE SinkTimesOut
    BY <1>15 DEF SinkTimesOut, world, history
  <1>16. CASE Pair
    BY <1>0, <1>16 DEF Pair, Larger, world, history
  <1>17. ASSUME NEW k \in Relays, Copy(k) PROVE TypeOK'
    BY <1>17 DEF Copy, ends, world, history
  <1>18. ASSUME NEW k \in Relays, Settle(k) PROVE TypeOK'
    <2>1. conn[k].copied \in Nat
      BY ConnectionTyped DEF Relays
    <2>2. relayed' \in Nat
      BY <1>18, <2>1 DEF Settle
    <2>3. QED
      BY <1>18, <2>2 DEF Settle, ends, history
  <1>19. ASSUME NEW k \in DOMAIN conn, Break(k) PROVE TypeOK'
    BY <1>19 DEF Break, Fault, ends, world
  <1>20. CASE PathGone
    <2>1. net' \in [listening : BOOLEAN, reachable : BOOLEAN, relay : BOOLEAN]
      BY <1>20 DEF PathGone
    <2>2. faults' \in Nat
      BY <1>20 DEF PathGone, Fault
    <2>3. QED
      BY <1>20, <2>1, <2>2 DEF PathGone, ends, history
  <1>21. CASE Restart
    <2>1. src' \in [at : {"dialing", "waiting", "sending", "done", "failed"},
                    offset : Nat, conn : Nat]
      BY <1>21 DEF Restart
    <2>2. faults' \in Nat /\ restarted' \in BOOLEAN
      BY <1>21 DEF Restart, Fault
    <2>3. QED
      BY <1>21, <2>1, <2>2 DEF Restart, world
  <1>22. CASE RelayRefuses
    <2>1. src' \in [at : {"dialing", "waiting", "sending", "done", "failed"},
                    offset : Nat, conn : Nat]
      BY <1>22 DEF RelayRefuses
    <2>2. sink' \in [at : {"dialing", "accepting", "waiting", "receiving",
                           "done", "failed"}, tried : BOOLEAN, conn : Nat]
      BY <1>22 DEF RelayRefuses
    <2>3. faults' \in Nat
      BY <1>22 DEF RelayRefuses, Fault
    <2>4. QED
      BY <1>22, <2>1, <2>2, <2>3 DEF RelayRefuses, world, history
  <1>23. ASSUME NEW side \in {"source", "sink"}, Cancel(side) PROVE TypeOK'
    BY <1>23 DEF Cancel, Fault, ends, history
  <1>24. CASE UNCHANGED vars
    BY <1>24 DEF vars, ends, world, history
  <1>26. CASE ReadAtFails
    <2>1. src' \in [at : {"dialing", "waiting", "sending", "done", "failed"},
                    offset : Nat, conn : Nat]
      BY <1>26 DEF ReadAtFails
    <2>2. faults' \in Nat /\ lost' \in BOOLEAN
      BY <1>26 DEF ReadAtFails, Fault
    <2>3. QED
      BY <1>26, <2>1, <2>2 DEF ReadAtFails, world
  <1>27. CASE AcceptFails
    <2>1. sink' \in [at : {"dialing", "accepting", "waiting", "receiving",
                           "done", "failed"}, tried : BOOLEAN, conn : Nat]
      BY <1>27 DEF AcceptFails
    <2>2. faults' \in Nat /\ lost' \in BOOLEAN
      BY <1>27 DEF AcceptFails, Fault
    <2>3. QED
      BY <1>27, <2>1, <2>2 DEF AcceptFails, world
  <1>28. CASE DstWriteFails
    <2>1. sink' \in [at : {"dialing", "accepting", "waiting", "receiving",
                           "done", "failed"}, tried : BOOLEAN, conn : Nat]
      BY <1>28 DEF DstWriteFails
    <2>2. faults' \in Nat
      BY <1>28 DEF DstWriteFails, Fault
    <2>3. QED
      BY <1>28, <2>1, <2>2 DEF DstWriteFails, world
  <1>25. QED
    BY <1>1, <1>2, <1>3, <1>4, <1>5, <1>6, <1>7, <1>8, <1>9, <1>10, <1>11,
       <1>12, <1>13, <1>14, <1>15, <1>16, <1>17, <1>18, <1>19, <1>20, <1>21,
       <1>22, <1>23, <1>24, <1>26, <1>27, <1>28 DEF Next, Send, Receive, Relaying

-----------------------------------------------------------------------------
(* Where the ends stand.                                                   *)

Structure ==
  /\ TypeOK /\ SourceFits /\ SinkFits
  /\ \A k \in DOMAIN conn : ConnectionFits(conn[k])

\* What Structure says in the terms of the sequence of connections.
LEMMA Bounds ==
  ASSUME Structure
  PROVE  /\ conn \in Seq(Connections) /\ Len(conn) \in Nat
         /\ DOMAIN conn = 1..Len(conn)
         /\ src.conn \in Nat /\ src.conn <= Len(conn) /\ src.offset \in Nat
         /\ sink.conn \in Nat /\ sink.conn <= Len(conn)
         /\ src.at \in {"dialing", "waiting", "sending", "done", "failed"}
         /\ sink.at \in {"dialing", "accepting", "waiting", "receiving", "done",
                         "failed"}
         /\ src.at = "sending" => src.conn \in DOMAIN conn
         /\ src.conn # 0 => src.conn \in DOMAIN conn
         /\ sink.conn # 0 => sink.conn \in DOMAIN conn
         /\ sink.at = "receiving" => sink.conn \in DOMAIN conn
  BY DEF Structure, TypeOK, SourceFits, SinkFits

\* An action that changes one connection leaves the routes alone.
LEMMA RoutesKept ==
  ASSUME DOMAIN conn' = DOMAIN conn,
         \A k \in DOMAIN conn : conn'[k].route = conn[k].route
  PROVE  Directs' = Directs /\ Relays' = Relays
  BY DEF Directs, Relays

LEMMA ChangedRoutes ==
  ASSUME NEW k, NEW u, NEW d, NEW st, NEW c, NEW se, Changed(k, u, d, st, c, se)
  PROVE  Directs' = Directs /\ Relays' = Relays
  BY RoutesKept DEF Changed

LEMMA AddedRoutes ==
  ASSUME Structure, NEW route \in {"direct", "relay"}, Added(route)
  PROVE  /\ route = "direct" => Relays' = Relays /\ Len(conn) + 1 \in Directs'
         /\ route = "relay" => Directs' = Directs /\ Len(conn) + 1 \in Relays'
  <1>1. conn'[Len(conn) + 1].route = route
        /\ \A j \in DOMAIN conn : conn'[j].route = conn[j].route
    BY DEF Added, Connection
  <1>2. DOMAIN conn' = DOMAIN conn \cup {Len(conn) + 1}
    BY Bounds DEF Added
  <1>3. QED
    BY <1>1, <1>2 DEF Directs, Relays

LEMMA SourceStep ==
  ASSUME Structure, [Next]_vars
  PROVE  SourceFits'
  <1> USE Bounds
  <1>1. CASE DialDirect
    <2>1. Added("direct")
      BY <1>1, DialDirectDoes
    <2>2. src'.conn = Len(conn) + 1 /\ Len(conn') = Len(conn) + 1
          /\ conn'[Len(conn) + 1].route = "direct"
          /\ conn'[Len(conn) + 1].state = "open"
      BY <1>1, <2>1 DEF DialDirect, Structure, TypeOK, Added, Connection
    <2>3. QED
      BY <2>2 DEF SourceFits
  <1>2. CASE Pair
    <2>1. Added("relay")
      BY <1>2, PairDoes
    <2>2. src'.conn = Len(conn) + 1 /\ Len(conn') = Len(conn) + 1
          /\ conn'[Len(conn) + 1].state = "open" /\ sink'.conn = Len(conn) + 1
      BY <1>2, <2>1 DEF Pair, Structure, TypeOK, Added, Connection
    <2>3. QED
      BY <2>2 DEF SourceFits
  <1>3. CASE Write
    <2>1. src.conn \in DOMAIN conn /\ src'.conn = src.conn /\ sink' = sink
          /\ conn[src.conn].route \in {"direct", "relay"}
      BY <1>3, ConnectionTyped DEF Write, Structure, TypeOK
    <2>2. Len(conn') = Len(conn) /\ conn'[src.conn].route = conn[src.conn].route
          /\ conn'[src.conn].state = conn[src.conn].state
      BY <1>3, <2>1, WriteDirectDoes, WriteRelayDoes DEF Changed
    <2>3. QED
      BY <1>3, <2>1, <2>2 DEF SourceFits, Structure, Write
  <1>4. ASSUME conn' = conn, src'.conn = src.conn,
               sink'.conn = sink.conn \/ sink.conn = 0,
               src'.at = "sending" => src.at = "sending"
        PROVE  SourceFits'
    <2>1. sink.conn = 0 /\ src.conn # 0 => conn[src.conn].route # "relay"
      BY DEF Structure, SinkFits, Relays
    <2>2. QED
      BY <1>4, <2>1 DEF SourceFits, Structure
  <1>5. CASE DialRelay \/ WriteIntoTheVoid \/ WriteFails \/ SourceTimesOut
    <2>1. conn' = conn /\ src'.conn = src.conn /\ sink' = sink
          /\ (src'.at = "sending" => src.at = "sending")
      BY <1>5 DEF DialRelay, WriteIntoTheVoid, WriteFails, SourceTimesOut,
                  Structure, TypeOK
    <2>2. QED
      BY <1>4, <2>1
  <1>6. CASE Listen \/ JoinRelay \/ SinkTimesOut \/ PathGone
             \/ AcceptFails \/ \E side \in {"source", "sink"} : Cancel(side)
    <2>1. conn' = conn /\ src' = src /\ sink'.conn = sink.conn
      BY <1>6 DEF Listen, JoinRelay, SinkTimesOut, PathGone, Cancel, AcceptFails,
                  Structure, TypeOK, ends
    <2>2. QED
      BY <1>4, <2>1
  <1>7. CASE Accept
    <2>1. conn' = conn /\ src' = src /\ sink.conn = 0
      BY <1>7 DEF Accept, Structure, SinkFits
    <2>2. QED
      BY <1>4, <2>1
  <1>8. CASE RelayRefuses
    <2>1. conn' = conn /\ src'.conn = src.conn /\ sink'.conn = sink.conn
          /\ (src'.at = "sending" => src.at = "sending")
      BY <1>8 DEF RelayRefuses, Structure, TypeOK
    <2>2. QED
      BY <1>4, <2>1
  <1>9. ASSUME Len(conn') = Len(conn), src'.conn = src.conn, sink'.conn = sink.conn,
               \A k \in DOMAIN conn :
                 /\ conn'[k].route = conn[k].route
                 /\ conn'[k].state \in {conn[k].state, "cut"}
                    \/ k # src.conn \/ src'.at # "sending",
               src'.at = "sending" => src.at = "sending"
        PROVE  SourceFits'
    BY <1>9 DEF SourceFits, Structure
  <1>10. CASE Sent
    <2>1. src.conn \in DOMAIN conn /\ Changed(src.conn, conn[src.conn].up, conn[src.conn].down,
                  (IF conn[src.conn].state = "open" THEN "closed"
                   ELSE conn[src.conn].state),
                  conn[src.conn].copied, conn[src.conn].settled)
      BY <1>10, SentDoes DEF HangsUp, Sent
    <2>2. src'.conn = src.conn /\ sink'.conn = sink.conn
          /\ (src'.at = "sending" => src.at = "sending" /\ FALSE)
      BY <1>10 DEF Sent, Structure, TypeOK
    <2>3. QED
      BY <1>9, <2>1, <2>2 DEF Changed
  <1>11. CASE Restart \/ ReadAtFails
    <2>1. src.conn \in DOMAIN conn /\ Changed(src.conn, conn[src.conn].up, conn[src.conn].down,
                  (IF conn[src.conn].state = "open" THEN "closed"
                   ELSE conn[src.conn].state),
                  conn[src.conn].copied, conn[src.conn].settled)
      BY <1>11, RestartDoes, ReadAtFailsDoes
      DEF HangsUp, Restart, ReadAtFails
    <2>2. src'.conn = src.conn /\ sink'.conn = sink.conn
          /\ (src'.at = "sending" => src.at = "sending" /\ FALSE)
      BY <1>11 DEF Restart, ReadAtFails, Structure, TypeOK
    <2>3. QED
      BY <1>9, <2>1, <2>2 DEF Changed
  <1>12. CASE Read
    <2>1. Changed(sink.conn, conn[sink.conn].up, Tail(conn[sink.conn].down),
                  conn[sink.conn].state,
                  conn[sink.conn].copied, conn[sink.conn].settled)
      BY <1>12, ReadDoes DEF Read
    <2>2. src'.conn = src.conn /\ sink'.conn = sink.conn
          /\ (src'.at = "sending" => src.at = "sending")
      BY <1>12 DEF Read, Structure, TypeOK
    <2>3. QED
      BY <1>9, <2>1, <2>2 DEF Changed
  <1>13. CASE ReadEnds
    <2>1. Changed(sink.conn, conn[sink.conn].up, conn[sink.conn].down,
                  "cut", conn[sink.conn].copied, conn[sink.conn].settled)
      BY <1>13, ReadEndsDoes DEF ReadEnds
    <2>2. src'.conn = src.conn /\ sink'.conn = sink.conn
          /\ (src'.at = "sending" => src.at = "sending")
      BY <1>13 DEF ReadEnds, Structure, TypeOK
    <2>3. QED
      BY <1>9, <2>1, <2>2 DEF Changed
  <1>14. CASE Received \/ DstWriteFails
    <2>1. Changed(sink.conn, <<>>, <<>>,
                  "cut", conn[sink.conn].copied, conn[sink.conn].settled)
      BY <1>14, ReceivedDoes, DstWriteFailsDoes
      DEF Drops, Received, DstWriteFails
    <2>2. src'.conn = src.conn /\ sink'.conn = sink.conn
          /\ (src'.at = "sending" => src.at = "sending")
      BY <1>14 DEF Received, DstWriteFails, Structure, TypeOK
    <2>3. QED
      BY <1>9, <2>1, <2>2 DEF Changed
  <1>15. ASSUME NEW k \in Relays, Copy(k) PROVE SourceFits'
    <2>1. Changed(k, Tail(conn[k].up), Append(conn[k].down, conn[k].up[1]),
                  conn[k].state, conn[k].copied + 1, conn[k].settled)
      BY <1>15, CopyDoes DEF Relays
    <2>2. src'.conn = src.conn /\ sink'.conn = sink.conn
          /\ (src'.at = "sending" => src.at = "sending")
      BY <1>15 DEF Copy, Structure, TypeOK, ends
    <2>3. QED
      BY <1>9, <2>1, <2>2 DEF Changed
  <1>16. ASSUME NEW k \in Relays, Settle(k) PROVE SourceFits'
    <2>1. Changed(k, conn[k].up, conn[k].down,
                  conn[k].state, conn[k].copied, TRUE)
      BY <1>16, SettleDoes DEF Relays
    <2>2. src'.conn = src.conn /\ sink'.conn = sink.conn
          /\ (src'.at = "sending" => src.at = "sending")
      BY <1>16 DEF Settle, Structure, TypeOK, ends
    <2>3. QED
      BY <1>9, <2>1, <2>2 DEF Changed
  <1>17. ASSUME NEW k \in DOMAIN conn, Break(k) PROVE SourceFits'
    <2>1. PICK d : Changed(k, <<>>, d, "cut", conn[k].copied, conn[k].settled)
      BY <1>17, BreakDoes DEF Structure, TypeOK
    <2>2. src' = src /\ sink' = sink
      BY <1>17 DEF Break, ends
    <2>3. QED
      BY <1>9, <2>1, <2>2 DEF Changed
  <1>18. CASE AcceptCancelled
    <2>1. src' = src /\ sink'.conn = sink.conn
      BY <1>18 DEF AcceptCancelled, Structure, TypeOK
    <2>2. QED
      BY <1>9, <1>18, <2>1, AcceptCancelledDoes
  <1>19. CASE UNCHANGED vars
    BY <1>4, <1>19 DEF vars, ends
  <1>20. QED
    BY <1>1, <1>2, <1>3, <1>5, <1>6, <1>7, <1>8, <1>10, <1>11, <1>12, <1>13,
       <1>14, <1>15, <1>16, <1>17, <1>18, <1>19
    DEF Next, Send, Receive, Relaying

LEMMA SinkStep ==
  ASSUME Structure, [Next]_vars
  PROVE  SinkFits'
  <1> USE Bounds
  <1>1. ASSUME sink' = sink, net'.listening = net.listening,
               Len(conn') = Len(conn), Directs' = Directs, Relays' = Relays,
               sink.conn # 0 /\ conn[sink.conn].state = "cut"
                 /\ conn[sink.conn].down = <<>>
               => conn'[sink.conn].state = "cut" /\ conn'[sink.conn].down = <<>>
        PROVE  SinkFits'
    BY <1>1 DEF Structure, SinkFits, Live
  <1>2. CASE DialDirect
    <2>1. Added("direct") /\ sink' = sink /\ net' = net /\ net.listening
      BY <1>2, DialDirectDoes DEF DialDirect, world, CanDialDirect
    <2>2. Relays' = Relays
      BY <2>1, AddedRoutes
    <2>3. QED
      BY <2>1, <2>2 DEF Added, Structure, SinkFits, Live
  <1>3. CASE Pair
    <2>1. Added("relay") /\ net' = net /\ Len(conn') = Len(conn) + 1
      BY <1>3, PairDoes DEF Pair, world, Added
    <2>2. sink'.at = "receiving" /\ sink'.tried = sink.tried
          /\ sink'.conn = Len(conn) + 1 /\ sink.at = "waiting"
      BY <1>3, <2>1 DEF Pair, Structure, TypeOK
    <2>3. Directs' = Directs
      BY <2>1, AddedRoutes
    <2>4. QED
      BY <2>1, <2>2, <2>3 DEF Structure, SinkFits, Live
  <1>4. CASE Write
    <2>1. src.conn \in DOMAIN conn /\ sink' = sink /\ net' = net
          /\ conn[src.conn].route \in {"direct", "relay"}
          /\ conn[src.conn].state # "cut"
      BY <1>4, ConnectionTyped DEF Write, world
    <2>2. Len(conn') = Len(conn) /\ Directs' = Directs /\ Relays' = Relays
          /\ \A k \in DOMAIN conn : k # src.conn => conn'[k] = conn[k]
      BY <1>4, <2>1, WriteDirectDoes, WriteRelayDoes, RoutesKept DEF Changed
    <2>3. QED
      BY <1>1, <2>1, <2>2
  <1>5. CASE Sent
    <2>1. Changed(src.conn, conn[src.conn].up, conn[src.conn].down,
                  (IF conn[src.conn].state = "open" THEN "closed"
                   ELSE conn[src.conn].state),
                  conn[src.conn].copied, conn[src.conn].settled)
          /\ src.conn \in DOMAIN conn
      BY <1>5, SentDoes DEF HangsUp, Sent
    <2>2. sink' = sink /\ net' = net
      BY <1>5 DEF Sent, world
    <2>3. Directs' = Directs /\ Relays' = Relays
      BY <2>1, ChangedRoutes
    <2>4. QED
      BY <1>1, <2>1, <2>2, <2>3 DEF Changed
  <1>6. CASE Restart \/ ReadAtFails
    <2>1. Changed(src.conn, conn[src.conn].up, conn[src.conn].down,
                  (IF conn[src.conn].state = "open" THEN "closed"
                   ELSE conn[src.conn].state),
                  conn[src.conn].copied, conn[src.conn].settled)
          /\ src.conn \in DOMAIN conn
      BY <1>6, RestartDoes, ReadAtFailsDoes
      DEF HangsUp, Restart, ReadAtFails
    <2>2. sink' = sink /\ net' = net
      BY <1>6 DEF Restart, ReadAtFails, world
    <2>3. Directs' = Directs /\ Relays' = Relays
      BY <2>1, ChangedRoutes
    <2>4. QED
      BY <1>1, <2>1, <2>2, <2>3 DEF Changed
  <1>7. ASSUME NEW k \in Relays, Copy(k) PROVE SinkFits'
    <2>1. Changed(k, Tail(conn[k].up), Append(conn[k].down, conn[k].up[1]),
                  conn[k].state, conn[k].copied + 1, conn[k].settled)
      BY <1>7, CopyDoes DEF Relays
    <2>2. sink' = sink /\ net' = net /\ conn[k].state # "cut"
      BY <1>7 DEF Copy, ends, world
    <2>3. Directs' = Directs /\ Relays' = Relays
      BY <2>1, ChangedRoutes
    <2>4. QED
      BY <1>1, <2>1, <2>2, <2>3 DEF Changed
  <1>8. ASSUME NEW k \in Relays, Settle(k) PROVE SinkFits'
    <2>1. Changed(k, conn[k].up, conn[k].down,
                  conn[k].state, conn[k].copied, TRUE)
      BY <1>8, SettleDoes DEF Relays
    <2>2. sink' = sink /\ net' = net 
      BY <1>8 DEF Settle, ends
    <2>3. Directs' = Directs /\ Relays' = Relays
      BY <2>1, ChangedRoutes
    <2>4. QED
      BY <1>1, <2>1, <2>2, <2>3 DEF Changed
  <1>9. ASSUME NEW k \in DOMAIN conn, Break(k) PROVE SinkFits'
    <2>1. PICK d : Changed(k, <<>>, d, "cut", conn[k].copied, conn[k].settled)
      BY <1>9, BreakDoes DEF Structure, TypeOK
    <2>2. sink' = sink /\ net' = net /\ conn[k].state # "cut"
      BY <1>9 DEF Break, ends, world
    <2>3. Directs' = Directs /\ Relays' = Relays
      BY <2>1, ChangedRoutes
    <2>4. QED
      BY <1>1, <2>1, <2>2, <2>3 DEF Changed
  <1>10. CASE DialRelay \/ WriteIntoTheVoid \/ WriteFails \/ SourceTimesOut
             \/ PathGone \/ (\E side \in {"source", "sink"} : Cancel(side))
    <2>1. conn' = conn /\ sink' = sink /\ net'.listening = net.listening
      BY <1>10 DEF DialRelay, WriteIntoTheVoid, WriteFails, SourceTimesOut,
                  PathGone, Cancel, Structure, TypeOK, world, ends
    <2>2. QED
      BY <1>1, <2>1 DEF Directs, Relays
  <1>11. ASSUME conn' = conn, net' = net, sink'.tried = sink.tried,
                sink'.conn = sink.conn, sink'.at = sink.at \/ sink'.at = "failed"
         PROVE  SinkFits'
    BY <1>11 DEF Structure, SinkFits, Live, Directs, Relays
  <1>12. CASE SinkTimesOut \/ RelayRefuses
    <2>1. conn' = conn /\ net' = net /\ sink'.tried = sink.tried
          /\ sink'.conn = sink.conn
          /\ (sink'.at = sink.at \/ sink'.at = "failed")
      BY <1>12 DEF SinkTimesOut, RelayRefuses, Structure, TypeOK, world
    <2>2. QED
      BY <1>11, <2>1
  <1>13. CASE Listen
    <2>1. conn' = conn /\ net' = net /\ sink'.tried /\ sink'.conn = sink.conn
          /\ sink'.at = "accepting" /\ sink.at = "dialing" /\ ~ sink.tried
          /\ net.listening
      BY <1>13 DEF Listen, Structure, TypeOK, world
    <2>2. QED
      BY <2>1 DEF Structure, SinkFits, Live, Directs, Relays
  <1>14. CASE JoinRelay
    <2>1. conn' = conn /\ net' = net /\ sink'.tried = sink.tried
          /\ sink'.conn = sink.conn /\ sink'.at \in {"waiting", "failed"}
          /\ sink.at = "dialing" /\ (~ net.listening \/ sink.tried)
      BY <1>14 DEF JoinRelay, Structure, TypeOK, world
    <2>2. QED
      BY <2>1 DEF Structure, SinkFits, Live, Directs, Relays
  <1>15. CASE Accept
    <2>1. conn' = conn /\ net' = net /\ sink'.tried = sink.tried
          /\ sink'.conn = 1 /\ sink'.at = "receiving"
          /\ sink.at = "accepting" /\ 1 \in Directs
      BY <1>15 DEF Accept, Structure, TypeOK, world
    <2>2. sink.conn = 0 /\ sink.tried /\ Len(conn) >= 1
      BY <2>1 DEF Structure, SinkFits, Directs
    <2>3. QED
      BY <2>1, <2>2 DEF Structure, SinkFits, Live, Directs, Relays
  <1>16. CASE AcceptCancelled
    <2>1. sink'.tried = sink.tried /\ sink'.conn = sink.conn
          /\ sink'.at = "failed"
      BY <1>16 DEF AcceptCancelled, Structure, TypeOK
    <2>2. Len(conn') = Len(conn) /\ Directs' = Directs /\ Relays' = Relays
      BY <1>16, AcceptCancelledDoes, RoutesKept
    <2>3. QED
      BY <2>1, <2>2 DEF Structure, SinkFits, Live
  <1>17. CASE Read
    <2>1. Changed(sink.conn, conn[sink.conn].up, Tail(conn[sink.conn].down),
                  conn[sink.conn].state,
                  conn[sink.conn].copied, conn[sink.conn].settled)
      BY <1>17, ReadDoes DEF Read
    <2>2. net' = net /\ sink'.tried = sink.tried /\ sink'.conn = sink.conn
          /\ sink'.at = "receiving" /\ sink.at = "receiving" 
      BY <1>17 DEF Read, Ended, Structure, TypeOK, world
    <2>3. Directs' = Directs /\ Relays' = Relays
      BY <2>1, ChangedRoutes
    <2>4. QED
      BY <2>1, <2>2, <2>3 DEF Changed, Structure, SinkFits, Live
  <1>18. CASE ReadEnds
    <2>1. Changed(sink.conn, conn[sink.conn].up, conn[sink.conn].down,
                  "cut", conn[sink.conn].copied, conn[sink.conn].settled)
      BY <1>18, ReadEndsDoes DEF ReadEnds
    <2>2. net' = net /\ sink'.tried = sink.tried /\ sink'.conn = sink.conn
          /\ sink'.at \in {"dialing", "failed"} /\ sink.at = "receiving"
          /\ conn[sink.conn].down = <<>>
      BY <1>18 DEF ReadEnds, Ended, Structure, TypeOK, world
    <2>3. Directs' = Directs /\ Relays' = Relays
      BY <2>1, ChangedRoutes
    <2>4. QED
      BY <2>1, <2>2, <2>3 DEF Changed, Structure, SinkFits, Live
  <1>19. CASE Received \/ DstWriteFails
    <2>1. Changed(sink.conn, <<>>, <<>>,
                  "cut", conn[sink.conn].copied, conn[sink.conn].settled)
      BY <1>19, ReceivedDoes, DstWriteFailsDoes
      DEF Drops, Received, DstWriteFails
    <2>2. net' = net /\ sink'.tried = sink.tried /\ sink'.conn = sink.conn
          /\ sink'.at \in {"done", "dialing", "failed"} /\ sink.at = "receiving"
      BY <1>19 DEF Received, DstWriteFails, Ended, Structure, TypeOK, world
    <2>3. Directs' = Directs /\ Relays' = Relays
      BY <2>1, ChangedRoutes
    <2>4. QED
      BY <2>1, <2>2, <2>3 DEF Changed, Structure, SinkFits, Live
  <1>20. CASE UNCHANGED vars
    BY <1>11, <1>20 DEF vars, ends, world
  <1>22. CASE AcceptFails
    <2>1. conn' = conn /\ net' = net /\ sink'.tried = sink.tried
          /\ sink'.conn = sink.conn /\ sink'.at \in {"waiting", "failed"}
          /\ sink.at = "accepting"
      BY <1>22 DEF AcceptFails, Structure, TypeOK, world
    <2>2. QED
      BY <2>1 DEF Structure, SinkFits, Live, Directs, Relays
  <1>21. QED
    BY <1>2, <1>3, <1>4, <1>5, <1>6, <1>7, <1>8, <1>9, <1>10, <1>12, <1>13,
       <1>14, <1>15, <1>16, <1>17, <1>18, <1>19, <1>20, <1>22
    DEF Next, Send, Receive, Relaying

\* Receive does not start over.
LEMMA LiveBefore ==
  ASSUME Structure, [Next]_vars, Live'
  PROVE  Live
  BY DEF Next, Send, Receive, Relaying, DialDirect, DialRelay, Write,
         WriteIntoTheVoid, WriteFails, Sent, SourceTimesOut, Listen, Accept,
         AcceptCancelled, JoinRelay, Read, ReadEnds, Received, SinkTimesOut,
         Pair, Copy, Settle, Break, PathGone, Restart, RelayRefuses, Cancel,
         ReadAtFails, AcceptFails, DstWriteFails,
         Live, vars, ends

LEMMA ConnectionsStep ==
  ASSUME Structure, [Next]_vars
  PROVE  \A j \in DOMAIN conn' : ConnectionFits(conn[j])'
  <1> USE Bounds
  <1>a. ASSUME NEW j \in DOMAIN conn, conn'[j] = conn[j]
        PROVE  ConnectionFits(conn[j])'
    BY <1>a, LiveBefore DEF Structure, ConnectionFits, Fitting
  <1>b. ASSUME NEW j \in DOMAIN conn
        PROVE  /\ conn[j].route \in {"direct", "relay"}
               /\ conn[j].settled \in BOOLEAN
               /\ conn[j].state \in {"open", "closed", "cut"}
               /\ conn[j].route = "direct" =>
                    conn[j].up = <<>> /\ conn[j].settled /\ conn[j].copied = 0
               /\ conn[j].settled /\ conn[j].route = "relay" =>
                    conn[j].state = "cut"
                    \/ (conn[j].state = "closed" /\ conn[j].up = <<>>)
               /\ Live /\ conn[j].state = "cut" => conn[j].up = <<>>
    BY <1>b, ConnectionTyped DEF Structure, ConnectionFits, Fitting
  <1>c. ASSUME NEW k \in DOMAIN conn, NEW u, NEW d, NEW st, NEW c, NEW se,
               Changed(k, u, d, st, c, se), Fitting(conn'[k], Live')
        PROVE  \A j \in DOMAIN conn' : ConnectionFits(conn[j])'
    BY <1>a, <1>c DEF Changed, ConnectionFits
  <1>d. ASSUME NEW route \in {"direct", "relay"}, Added(route)
        PROVE  \A j \in DOMAIN conn' : ConnectionFits(conn[j])'
    <2>1. ASSUME NEW j \in DOMAIN conn', j \notin DOMAIN conn
          PROVE  ConnectionFits(conn[j])'
      <3>1. conn'[j] = Connection(route)
        BY <1>d, <2>1 DEF Added
      <3>2. conn'[j].route = route /\ conn'[j].up = <<>> /\ conn'[j].copied = 0
            /\ conn'[j].settled = (route = "direct") /\ conn'[j].state = "open"
        BY <3>1 DEF Connection
      <3>3. Fitting(conn'[j], Live')
        BY <3>2 DEF Fitting
      <3>4. QED
        BY <3>3 DEF ConnectionFits
    <2>2. ASSUME NEW j \in DOMAIN conn PROVE ConnectionFits(conn[j])'
      BY <1>a, <1>d, <2>2 DEF Added
    <2>3. QED
      BY <2>1, <2>2
  <1>1. CASE DialDirect
    BY <1>1, <1>d, DialDirectDoes
  <1>2. CASE Pair
    BY <1>2, <1>d, PairDoes
  <1>3. CASE Write
    <2>0. src.conn \in DOMAIN conn /\ conn[src.conn].state = "open"
          /\ conn[src.conn].route \in {"direct", "relay"}
      BY <1>3, <1>b DEF Write, Structure, SourceFits
    <2>1. CASE conn[src.conn].route = "direct"
      <3>1. Changed(src.conn, conn[src.conn].up,
                    Append(conn[src.conn].down, src.offset + 1),
                  conn[src.conn].state,
                  conn[src.conn].copied, conn[src.conn].settled)
        BY <1>3, <2>0, <2>1, WriteDirectDoes
      <3>2. Fitting(conn'[src.conn], Live')
        BY <1>b, <2>0, <2>1, <3>1 DEF Changed, Fitting
      <3>3. QED
        BY <1>c, <2>0, <3>1, <3>2
    <2>2. CASE conn[src.conn].route = "relay"
      <3>1. Changed(src.conn, Append(conn[src.conn].up, src.offset + 1),
                    conn[src.conn].down,
                  conn[src.conn].state,
                  conn[src.conn].copied, conn[src.conn].settled)
        BY <1>3, <2>0, <2>2, WriteRelayDoes
      <3>2. Fitting(conn'[src.conn], Live')
        BY <1>b, <2>0, <2>2, <3>1 DEF Changed, Fitting
      <3>3. QED
        BY <1>c, <2>0, <3>1, <3>2
    <2>3. QED
      BY <2>0, <2>1, <2>2
  <1>4. CASE Sent
    <2>1. Changed(src.conn, conn[src.conn].up, conn[src.conn].down,
                  (IF conn[src.conn].state = "open" THEN "closed"
                   ELSE conn[src.conn].state),
                  conn[src.conn].copied, conn[src.conn].settled)
          /\ src.conn \in DOMAIN conn
      BY <1>4, SentDoes DEF HangsUp, Sent
    <2>2. Fitting(conn'[src.conn], Live')
      BY <1>b, <2>1, LiveBefore DEF Changed, Fitting
    <2>3. QED
      BY <1>c, <2>1, <2>2
  <1>5. CASE Restart \/ ReadAtFails
    <2>1. Changed(src.conn, conn[src.conn].up, conn[src.conn].down,
                  (IF conn[src.conn].state = "open" THEN "closed"
                   ELSE conn[src.conn].state),
                  conn[src.conn].copied, conn[src.conn].settled)
          /\ src.conn \in DOMAIN conn
      BY <1>5, RestartDoes, ReadAtFailsDoes
      DEF HangsUp, Restart, ReadAtFails
    <2>2. Fitting(conn'[src.conn], Live')
      BY <1>b, <2>1, LiveBefore DEF Changed, Fitting
    <2>3. QED
      BY <1>c, <2>1, <2>2
  <1>6. CASE Read
    <2>1. Changed(sink.conn, conn[sink.conn].up, Tail(conn[sink.conn].down),
                  conn[sink.conn].state,
                  conn[sink.conn].copied, conn[sink.conn].settled)
          /\ sink.conn \in DOMAIN conn
      BY <1>6, ReadDoes DEF Read
    <2>2. Fitting(conn'[sink.conn], Live')
      BY <1>b, <2>1, LiveBefore DEF Changed, Fitting
    <2>3. QED
      BY <1>c, <2>1, <2>2
  <1>7. CASE Received \/ DstWriteFails
    <2>1. Changed(sink.conn, <<>>, <<>>,
                  "cut", conn[sink.conn].copied, conn[sink.conn].settled)
          /\ sink.conn \in DOMAIN conn
      BY <1>7, ReceivedDoes, DstWriteFailsDoes
      DEF Drops, Received, DstWriteFails
    <2>2. Fitting(conn'[sink.conn], Live')
      BY <1>b, <2>1, LiveBefore DEF Changed, Fitting
    <2>3. QED
      BY <1>c, <2>1, <2>2
  <1>8. CASE ReadEnds
    <2>1. Changed(sink.conn, conn[sink.conn].up, conn[sink.conn].down,
                  "cut", conn[sink.conn].copied, conn[sink.conn].settled)
          /\ sink.conn \in DOMAIN conn
      BY <1>8, ReadEndsDoes DEF ReadEnds
    <2>2. conn[sink.conn].up = <<>>
      BY <1>8, <1>b, <2>1 DEF ReadEnds, Ended, Live
    <2>3. Fitting(conn'[sink.conn], Live')
      BY <1>b, <2>1, <2>2 DEF Changed, Fitting
    <2>4. QED
      BY <1>c, <2>1, <2>3
  <1>9. ASSUME NEW k \in Relays, Copy(k)
        PROVE  \A j \in DOMAIN conn' : ConnectionFits(conn[j])'
    <2>1. Changed(k, Tail(conn[k].up), Append(conn[k].down, conn[k].up[1]),
                  conn[k].state, conn[k].copied + 1, conn[k].settled)
          /\ k \in DOMAIN conn /\ conn[k].route = "relay"
      BY <1>9, CopyDoes DEF Relays
    <2>2. conn[k].up # <<>> /\ conn[k].state # "cut"
      BY <1>9 DEF Copy
    <2>3. Fitting(conn'[k], Live')
      BY <1>b, <2>1, <2>2, LiveBefore DEF Changed, Fitting
    <2>4. QED
      BY <1>c, <2>1, <2>3
  <1>10. ASSUME NEW k \in Relays, Settle(k)
        PROVE  \A j \in DOMAIN conn' : ConnectionFits(conn[j])'
    <2>1. Changed(k, conn[k].up, conn[k].down,
                  conn[k].state, conn[k].copied, TRUE)
          /\ k \in DOMAIN conn /\ conn[k].route = "relay"
      BY <1>10, SettleDoes DEF Relays
    <2>2. conn[k].state = "cut" \/ (conn[k].state = "closed" /\ conn[k].up = <<>>)
      BY <1>10 DEF Settle
    <2>3. Fitting(conn'[k], Live')
      BY <1>b, <2>1, <2>2, LiveBefore DEF Changed, Fitting
    <2>4. QED
      BY <1>c, <2>1, <2>3
  <1>11. ASSUME NEW k \in DOMAIN conn, Break(k)
        PROVE  \A j \in DOMAIN conn' : ConnectionFits(conn[j])'
    <2>1. PICK d : Changed(k, <<>>, d, "cut", conn[k].copied, conn[k].settled)
      BY <1>11, BreakDoes DEF Structure, TypeOK
    <2>2. Fitting(conn'[k], Live')
      BY <1>b, <2>1 DEF Changed, Fitting
    <2>3. QED
      BY <1>c, <2>1, <2>2
  <1>12. CASE AcceptCancelled
    <2>1. ~ Live'
      BY <1>12 DEF AcceptCancelled, Structure, TypeOK, Live
    <2>2. ASSUME NEW j \in DOMAIN conn PROVE ConnectionFits(conn[j])'
      BY <1>12, <1>b, <2>1, <2>2, AcceptCancelledDoes DEF ConnectionFits,
         Fitting
    <2>3. QED
      BY <1>12, <2>2, AcceptCancelledDoes
  <1>13. CASE UNCHANGED conn
    BY <1>13, <1>a
  <1>14. QED
    BY <1>1, <1>2, <1>3, <1>4, <1>5, <1>6, <1>7, <1>8, <1>9, <1>10, <1>11,
       <1>12, <1>13
    DEF Next, Send, Receive, Relaying, DialRelay, WriteIntoTheVoid, WriteFails,
        SourceTimesOut, Listen, Accept, JoinRelay, SinkTimesOut, PathGone,
        RelayRefuses, Cancel, AcceptFails, vars

\* The connections are typed after any step.
LEMMA TypesStep ==
  ASSUME Structure, [Next]_vars
  PROVE  TypeOK'
  <1> USE Bounds
  <1>1. CASE DialDirect \/ Pair
    BY <1>1, DialDirectDoes, PairDoes, Retyped DEF Added, Structure
  <1>2. CASE Write
    <2>1. src.conn \in DOMAIN conn
          /\ conn[src.conn].route \in {"direct", "relay"}
      BY <1>2, ConnectionTyped DEF Write
    <2>2. conn' \in Seq(Connections)
      BY <1>2, <2>1, WriteDirectDoes, WriteRelayDoes DEF Changed
    <2>3. QED
      BY <2>2, Retyped DEF Structure
  <1>3. CASE Sent
    BY <1>3, SentDoes, Retyped DEF Sent, HangsUp, Changed, Structure
  <1>4. CASE Restart \/ ReadAtFails
    BY <1>4, RestartDoes, ReadAtFailsDoes, Retyped
    DEF Restart, ReadAtFails, HangsUp, Changed, Structure
  <1>5. CASE Read
    BY <1>5, ReadDoes, Retyped DEF Read, Changed, Structure
  <1>6. CASE ReadEnds
    BY <1>6, ReadEndsDoes, Retyped DEF ReadEnds, Changed, Structure
  <1>7. CASE Received \/ DstWriteFails
    BY <1>7, ReceivedDoes, DstWriteFailsDoes, Retyped
    DEF Received, DstWriteFails, Drops, Changed, Structure
  <1>8. ASSUME NEW k \in Relays, Copy(k) \/ Settle(k) PROVE TypeOK'
    BY <1>8, CopyDoes, SettleDoes, Retyped DEF Relays, Changed, Structure
  <1>9. ASSUME NEW k \in DOMAIN conn, Break(k) PROVE TypeOK'
    <2>1. PICK d : Changed(k, <<>>, d, "cut", conn[k].copied, conn[k].settled)
      BY <1>9, BreakDoes DEF Structure, TypeOK
    <2>2. QED
      BY <2>1, Retyped DEF Changed, Structure
  <1>10. CASE AcceptCancelled
    BY <1>10, AcceptCancelledDoes, Retyped DEF Structure
  <1>11. CASE UNCHANGED conn
    BY <1>11, Retyped DEF Structure
  <1>12. QED
    BY <1>1, <1>2, <1>3, <1>4, <1>5, <1>6, <1>7, <1>8, <1>9, <1>10, <1>11
    DEF Next, Send, Receive, Relaying, DialRelay, WriteIntoTheVoid, WriteFails,
        SourceTimesOut, Listen, Accept, JoinRelay, SinkTimesOut, PathGone,
        RelayRefuses, Cancel, AcceptFails, vars

LEMMA StructureStep ==
  ASSUME Structure, [Next]_vars
  PROVE  Structure'
  BY TypesStep, SourceStep, SinkStep, ConnectionsStep DEF Structure

-----------------------------------------------------------------------------
(* The ledger: the relay's count never passes what the source has sent.    *)

LEMMA HeldTyped ==
  ASSUME NEW c \in Connections
  PROVE  Held(c) \in Nat
  <1>1. c.copied \in Nat /\ c.up \in Seq(Nat)
    BY DEF Connections
  <1>2. Len(c.up) \in Nat
    BY <1>1, Lengths
  <1>3. QED
    BY <1>1, <1>2 DEF Held

\* Where one connection holds d more, the totals move by d from there on.
LEMMA AccountShifts ==
  ASSUME NEW s \in Seq(Connections), NEW t \in Seq(Connections),
         NEW r \in Nat, NEW r2 \in Nat, NEW o \in Nat, NEW o2 \in Nat,
         Accounted(s, r, o), Len(t) = Len(s),
         NEW k \in DOMAIN s, NEW d \in Int,
         Held(t[k]) <= Held(s[k]) + d,
         \A j \in DOMAIN s : j # k => Held(t[j]) <= Held(s[j]),
         r2 + d - r <= o2 - o
  PROVE  Accounted(t, r2, o2)
  <1> DEFINE n == Len(s)
  <1>0. PICK g \in [0..n -> Int] : Account(g, s, r, o)
    BY DEF Accounted
  <1> DEFINE h == [j \in 0..n |-> IF j >= k THEN g[j] + d ELSE g[j]]
  <1>1. n \in Nat /\ DOMAIN s = 1..n /\ k \in 1..n /\ Len(t) = n
    OBVIOUS
  <1>2. \A j \in 1..n : Held(s[j]) \in Nat /\ Held(t[j]) \in Nat
    <2>1. \A j \in 1..n : s[j] \in Connections /\ t[j] \in Connections
      BY <1>1
    <2>2. QED
      BY <2>1, HeldTyped
  <1>3. /\ g \in [0..n -> Int] /\ g[0] = 0
        /\ \A j \in 1..n : g[j] >= g[j - 1] + Held(s[j])
        /\ \A i, j \in 0..n : i <= j => g[i] <= g[j]
        /\ r + g[n] <= o
    BY <1>0 DEF Account
  <1>at. /\ h \in [0..n -> Int]
         /\ \A j \in 0..n : (j >= k => h[j] = g[j] + d) /\ (j < k => h[j] = g[j])
    BY <1>1, <1>3
  <1> HIDE DEF h
  <1>4. h \in [0..n -> Int] /\ h[0] = 0 /\ h[n] = g[n] + d
    BY <1>1, <1>3, <1>at
  <1>5. ASSUME NEW j \in 1..n PROVE h[j] >= h[j - 1] + Held(t[j])
    <2>1. g[j] >= g[j - 1] + Held(s[j]) /\ g[j] \in Int /\ g[j - 1] \in Int
          /\ j - 1 \in 0..n /\ Held(s[j]) \in Nat /\ Held(t[j]) \in Nat
      <3>1. j - 1 \in 0..n /\ j \in 0..n
        BY <1>1
      <3>2. g[j] \in Int /\ g[j - 1] \in Int
        BY <1>3, <3>1
      <3>3. QED
        BY <1>2, <1>3, <3>1, <3>2
    <2>2. CASE j = k
      <3>1. h[j] = g[j] + d /\ h[j - 1] = g[j - 1]
        <4>1. j \in 0..n /\ j >= k /\ j - 1 < k
          BY <1>1, <2>2
        <4>2. QED
          BY <1>at, <2>1, <4>1
      <3>2. Held(t[j]) <= Held(s[j]) + d
        BY <2>2
      <3>3. QED
        BY <2>1, <3>1, <3>2
    <2>3. CASE j # k
      <3>1. Held(t[j]) <= Held(s[j])
        BY <1>1, <2>3
      <3>2. CASE j >= k
        <4>1. h[j] = g[j] + d /\ h[j - 1] = g[j - 1] + d
          <5>1. j - 1 >= k /\ j \in 0..n
            BY <1>1, <2>3, <3>2
          <5>2. QED
            BY <1>at, <2>1, <3>2, <5>1
        <4>2. QED
          BY <2>1, <3>1, <4>1
      <3>3. CASE ~ (j >= k)
        <4>1. h[j] = g[j] /\ h[j - 1] = g[j - 1]
          <5>1. j < k /\ j - 1 < k /\ j \in 0..n
            BY <1>1, <3>3
          <5>2. QED
            BY <1>at, <2>1, <5>1
        <4>2. QED
          BY SMTT(30), <2>1, <3>1, <4>1
      <3>4. QED
        BY <3>2, <3>3
    <2>4. QED
      BY <2>2, <2>3
  <1>6. ASSUME NEW i \in 0..n, NEW j \in 0..n, i <= j PROVE h[i] <= h[j]
    <2>1. g[i] <= g[j] /\ g[i] \in Int /\ g[j] \in Int
      BY <1>3, <1>6
    <2>2. CASE i < k /\ j >= k
      <3>0. k - 1 \in 0..n /\ k \in 0..n /\ i <= k - 1 /\ k <= j
        BY <1>1, <2>2
      <3>1. g[i] <= g[k - 1] /\ g[k] <= g[j] /\ g[k - 1] \in Int /\ g[k] \in Int
        BY <1>3, <3>0
      <3>2. h[i] = g[i] /\ h[j] = g[j] + d
        BY <1>1, <1>at, <2>2
      <3>3. h[k] = g[k] + d /\ h[k - 1] = g[k - 1]
        BY <1>1, <1>at, <3>0
      <3>4. h[k] >= h[k - 1] + Held(t[k]) /\ Held(t[k]) \in Nat
        BY <1>1, <1>2, <1>5
      <3>5. QED
        BY SMTT(30), <2>1, <3>1, <3>2, <3>3, <3>4
    <2>3. CASE ~ (i < k /\ j >= k)
      <3>1. CASE i >= k
        <4>1. j >= k
          BY <1>1, <1>6, <3>1
        <4>2. h[i] = g[i] + d /\ h[j] = g[j] + d
          BY <1>at, <3>1, <4>1
        <4>3. QED
          BY <2>1, <4>2
      <3>2. CASE ~ (i >= k)
        <4>1. i < k /\ j < k
          BY <1>1, <2>3, <3>2
        <4>2. h[i] = g[i] /\ h[j] = g[j]
          BY <1>at, <4>1
        <4>3. QED
          BY <2>1, <4>2
      <3>3. QED
        BY <3>1, <3>2
    <2>4. QED
      BY <2>2, <2>3
  <1>7. r2 + h[n] <= o2
    <2>1. g[n] \in Int
      BY <1>1, <1>3
    <2>2. QED
      BY <1>1, <1>3, <1>4, <2>1
  <1>8. Account(h, t, r2, o2)
    BY <1>1, <1>4, <1>5, <1>6, <1>7 DEF Account
  <1>9. QED
    BY <1>1, <1>4, <1>8 DEF Accounted

LEMMA AccountKept ==
  ASSUME NEW s \in Seq(Connections), NEW t \in Seq(Connections),
         NEW r \in Nat, NEW o \in Nat, NEW o2 \in Nat,
         Accounted(s, r, o), Len(t) = Len(s), o2 >= o,
         \A j \in DOMAIN s : Held(t[j]) <= Held(s[j])
  PROVE  Accounted(t, r, o2)
  <1> DEFINE n == Len(s)
  <1>0. PICK g \in [0..n -> Int] : Account(g, s, r, o)
    BY DEF Accounted
  <1>1. n \in Nat /\ DOMAIN s = 1..n /\ Len(t) = n
    OBVIOUS
  <1>2. \A j \in 1..n : Held(s[j]) \in Nat /\ Held(t[j]) \in Nat
    <2>1. \A j \in 1..n : s[j] \in Connections /\ t[j] \in Connections
      BY <1>1
    <2>2. QED
      BY <2>1, HeldTyped
  <1>3. ASSUME NEW j \in 1..n PROVE g[j] >= g[j - 1] + Held(t[j])
    <2>1. g[j] >= g[j - 1] + Held(s[j]) /\ g[j] \in Int /\ g[j - 1] \in Int
      BY <1>0, <1>1 DEF Account
    <2>2. Held(t[j]) <= Held(s[j]) /\ Held(s[j]) \in Nat /\ Held(t[j]) \in Nat
      BY <1>1, <1>2
    <2>3. QED
      BY <2>1, <2>2
  <1>4. r + g[n] <= o2
    <2>1. g[n] \in Int /\ r + g[n] <= o
      BY <1>0, <1>1 DEF Account
    <2>2. QED
      BY <2>1
  <1>5. Account(g, t, r, o2)
    BY <1>0, <1>1, <1>3, <1>4 DEF Account
  <1>6. QED
    BY <1>1, <1>5 DEF Accounted

LEMMA AccountGrows ==
  ASSUME NEW s \in Seq(Connections),
         NEW t \in Seq(Connections), Len(t) = Len(s) + 1,
         \A j \in DOMAIN s : t[j] = s[j], Held(t[Len(s) + 1]) = 0,
         NEW r \in Nat, NEW o \in Nat, NEW o2 \in Nat,
         Accounted(s, r, o), o2 >= o
  PROVE  Accounted(t, r, o2)
  <1> DEFINE n == Len(s)
  <1>0. PICK g \in [0..n -> Int] : Account(g, s, r, o)
    BY DEF Accounted
  <1> DEFINE h == [j \in 0..(n + 1) |-> IF j = n + 1 THEN g[n] ELSE g[j]]
  <1>1. n \in Nat /\ DOMAIN s = 1..n /\ Len(t) = n + 1
    OBVIOUS
  <1>2. /\ g \in [0..n -> Int] /\ g[0] = 0
        /\ \A j \in 1..n : g[j] >= g[j - 1] + Held(s[j])
        /\ \A i, j \in 0..n : i <= j => g[i] <= g[j]
        /\ r + g[n] <= o
    BY <1>0 DEF Account
  <1>3. h \in [0..(n + 1) -> Int] /\ h[0] = 0 /\ h[n + 1] = g[n]
        /\ \A j \in 0..n : h[j] = g[j]
    BY <1>1, <1>2
  <1>c. g[n] \in Int
    BY <1>1, <1>2
  <1> HIDE DEF h
  <1>6. ASSUME NEW j \in 1..(n + 1) PROVE h[j] >= h[j - 1] + Held(t[j])
    <2>1. CASE j = n + 1
      <3>1. h[j] = g[n] /\ h[j - 1] = g[n] /\ Held(t[j]) = 0
        <4>1. j - 1 = n /\ n \in 0..n
          BY <1>1, <2>1
        <4>2. QED
          BY <1>3, <2>1, <4>1
      <3>2. QED
        BY <1>c, <3>1
    <2>2. CASE j \in 1..n
      <3>1. j - 1 \in 0..n /\ t[j] = s[j] /\ j \in 0..n
        BY <1>1, <2>2
      <3>2. QED
        BY <1>2, <1>3, <2>2, <3>1
    <2>3. QED
      BY <1>1, <2>1, <2>2
  <1>7. ASSUME NEW i \in 0..(n + 1), NEW j \in 0..(n + 1), i <= j
        PROVE  h[i] <= h[j]
    <2>1. CASE j \in 0..n
      <3>1. i \in 0..n
        BY <1>1, <1>7, <2>1
      <3>2. QED
        BY <1>2, <1>3, <1>7, <2>1, <3>1
    <2>2. CASE j = n + 1 /\ i \in 0..n
      <3>1. g[i] <= g[n]
        BY <1>1, <1>2, <2>2
      <3>2. QED
        BY <1>3, <2>2, <3>1
    <2>3. CASE j = n + 1 /\ i = n + 1
      BY <1>3, <1>c, <2>3
    <2>4. QED
      BY <1>1, <2>1, <2>2, <2>3
  <1>8. r + h[n + 1] <= o2
    BY <1>2, <1>3, <1>c
  <1>9. Account(h, t, r, o2)
    BY <1>1, <1>3, <1>6, <1>7, <1>8 DEF Account
  <1>10. QED
    BY <1>1, <1>3, <1>9 DEF Accounted

\* So the count itself is within the offset.
LEMMA AccountedBounds ==
  ASSUME NEW s \in Seq(Connections), NEW r \in Nat, NEW o \in Nat,
         Accounted(s, r, o)
  PROVE  r <= o
  <1>1. PICK g \in [0..Len(s) -> Int] : Account(g, s, r, o)
    BY DEF Accounted
  <1>2. Len(s) \in Nat /\ 0 \in 0..Len(s) /\ Len(s) \in 0..Len(s)
    OBVIOUS
  <1>3. g[0] <= g[Len(s)] /\ g[Len(s)] \in Int /\ g[0] = 0
        /\ r + g[Len(s)] <= o
    BY <1>1, <1>2 DEF Account
  <1>4. QED
    BY <1>3

\* What does not change of a connection is held as before.
LEMMA HeldSame ==
  ASSUME NEW c, NEW e \in Connections,
         e.settled = c.settled, e.copied = c.copied, e.up = c.up
  PROVE  Held(e) = Held(c) /\ Held(c) \in Nat
  <1>1. Held(e) = Held(c)
    BY DEF Held
  <1>2. QED
    BY <1>1, HeldTyped

\* A byte written is held once more; copying moves it within what is held.
LEMMA HeldMoves ==
  ASSUME NEW c \in Connections, NEW e \in Connections, e.settled = c.settled
  PROVE  /\ e.copied = c.copied /\ Len(e.up) = Len(c.up) + 1
              => Held(e) = Held(c) + 1
         /\ ~ c.settled /\ e.copied = c.copied + 1 /\ Len(e.up) = Len(c.up) - 1
              => Held(e) = Held(c)
  <1>1. c.copied \in Nat /\ c.up \in Seq(Nat) /\ c.settled \in BOOLEAN
    BY DEF Connections
  <1>2. Len(c.up) \in Nat
    BY <1>1, Lengths
  <1>3. CASE c.settled
    BY <1>2, <1>3 DEF Held
  <1>4. CASE ~ c.settled
    <2>1. Held(c) = c.copied + Len(c.up) /\ Held(e) = e.copied + Len(e.up)
      BY <1>4 DEF Held
    <2> DEFINE cu == Len(c.up)
               eu == Len(e.up)
    <2>2. cu \in Nat
      BY <1>2
    <2>3. Held(c) = c.copied + cu /\ Held(e) = e.copied + eu
      BY <2>1
    <2> HIDE DEF cu, eu
    <2>a. \A a, b \in Nat : a + (b + 1) = (a + b) + 1 /\ (a + 1) + (b - 1) = a + b
      OBVIOUS
    <2>4. ASSUME e.copied = c.copied, eu = cu + 1 PROVE Held(e) = Held(c) + 1
      <3>1. Held(e) = c.copied + (cu + 1)
        BY <2>3, <2>4
      <3>2. c.copied + (cu + 1) = (c.copied + cu) + 1
        BY <1>1, <2>2, <2>a
      <3>3. QED
        BY <2>3, <3>1, <3>2, Zenon
    <2>5. ASSUME e.copied = c.copied + 1, eu = cu - 1 PROVE Held(e) = Held(c)
      <3>1. Held(e) = (c.copied + 1) + (cu - 1)
        BY <2>3, <2>5
      <3>2. (c.copied + 1) + (cu - 1) = c.copied + cu
        BY <1>1, <2>2, <2>a
      <3>3. QED
        BY <2>3, <3>1, <3>2, Zenon
    <2>6. QED
      BY <2>4, <2>5, <1>4 DEF cu, eu
  <1>5. QED
    BY <1>3, <1>4

LEMMA LedgerStep ==
  ASSUME Structure, Ledger, [Next]_vars
  PROVE  Ledger'
  <1> SUFFICES ASSUME ~ restarted'
               PROVE  Accounted(conn', relayed', src'.offset)
    BY DEF Ledger
  <1> USE Bounds
  <1>1. conn' \in Seq(Connections) /\ relayed \in Nat /\ relayed' \in Nat
        /\ src'.offset \in Nat /\ restarted \in BOOLEAN
    BY StructureStep DEF Structure, TypeOK
  <1>2. ~ restarted
    BY <1>1 DEF Next, Send, Receive, Relaying, DialDirect, DialRelay, Write,
         WriteIntoTheVoid, WriteFails, Sent, SourceTimesOut, Listen, Accept,
         AcceptCancelled, JoinRelay, Read, ReadEnds, Received, SinkTimesOut,
         Pair, Copy, Settle, Break, PathGone, Restart, RelayRefuses, Cancel,
         ReadAtFails, AcceptFails, DstWriteFails, vars, ends, history
  <1>3. Accounted(conn, relayed, src.offset)
    BY <1>2 DEF Ledger
  <1>4. ASSUME conn' = conn, relayed' = relayed, src'.offset >= src.offset
        PROVE  Accounted(conn', relayed', src'.offset)
    <2>1. \A j \in DOMAIN conn : Held(conn[j]) <= Held(conn[j])
      BY HeldTyped
    <2>2. QED
      BY <1>1, <1>3, <1>4, <2>1, AccountKept
  <1>5. ASSUME NEW k \in DOMAIN conn, Len(conn') = Len(conn),
               \A j \in DOMAIN conn : j # k => conn'[j] = conn[j],
               NEW d \in Int, Held(conn'[k]) <= Held(conn[k]) + d,
               relayed' + d - relayed <= src'.offset - src.offset
        PROVE  Accounted(conn', relayed', src'.offset)
    <2>1. \A j \in DOMAIN conn : j # k => Held(conn'[j]) <= Held(conn[j])
      <3>1. \A j \in DOMAIN conn : Held(conn[j]) \in Nat
        BY HeldTyped
      <3>2. QED
        BY <1>5, <3>1
    <2>2. QED
      BY <1>1, <1>3, <1>5, <2>1, AccountShifts
  <1>6. ASSUME NEW route \in {"direct", "relay"}, Added(route),
               relayed' = relayed, src'.offset >= src.offset
        PROVE  Accounted(conn', relayed', src'.offset)
    <2>1. Held(conn'[Len(conn) + 1]) = 0
      <3>1. conn'[Len(conn) + 1].up = <<>> /\ conn'[Len(conn) + 1].copied = 0
        BY <1>6 DEF Added, Connection
      <3>2. QED
        BY <3>1 DEF Held
    <2>2. Len(conn') = Len(conn) + 1 /\ \A j \in DOMAIN conn : conn'[j] = conn[j]
      BY <1>6 DEF Added
    <2>3. QED
      BY <1>1, <1>3, <1>6, <2>1, <2>2, AccountGrows
  <1>7. CASE DialDirect
    <2>1. relayed' = relayed /\ src'.offset = src.offset
      BY <1>7 DEF DialDirect, world, Structure, TypeOK
    <2>2. QED
      BY <1>1, <1>6, <1>7, <2>1, DialDirectDoes
  <1>8. CASE Pair
    <2>1. relayed' = relayed /\ src'.offset = Larger(src.offset, relayed)
      BY <1>8 DEF Pair, world, Structure, TypeOK
    <2>2. src'.offset >= src.offset
      BY <1>1, <2>1 DEF Larger
    <2>3. QED
      BY <1>6, <1>8, <2>1, <2>2, PairDoes
  <1>9. CASE Write
    <2>0. src.conn \in DOMAIN conn /\ relayed' = relayed
          /\ src'.offset = src.offset + 1
          /\ conn[src.conn].route \in {"direct", "relay"}
      BY <1>9, ConnectionTyped DEF Write, Structure, TypeOK, world
    <2>1. CASE conn[src.conn].route = "direct"
      <3>1. Changed(src.conn, conn[src.conn].up,
                    Append(conn[src.conn].down, src.offset + 1),
                  conn[src.conn].state,
                  conn[src.conn].copied, conn[src.conn].settled)
        BY <1>9, <2>0, <2>1, WriteDirectDoes
      <3>2. Held(conn'[src.conn]) = Held(conn[src.conn])
            /\ Held(conn[src.conn]) \in Nat
        <4>1. conn'[src.conn] \in Connections
          BY <2>0, <3>1 DEF Changed
        <4>2. QED
          BY <3>1, <4>1, HeldSame DEF Changed
      <3>3. Held(conn'[src.conn]) <= Held(conn[src.conn]) + 0 /\ 0 \in Int
            /\ relayed' + 0 - relayed <= src'.offset - src.offset
        BY <1>1, <2>0, <3>2
      <3>4. QED
        BY <1>5, <2>0, <3>1, <3>3 DEF Changed
    <2>2. CASE conn[src.conn].route = "relay"
      <3>1. Changed(src.conn, Append(conn[src.conn].up, src.offset + 1),
                    conn[src.conn].down,
                  conn[src.conn].state,
                  conn[src.conn].copied, conn[src.conn].settled)
        BY <1>9, <2>0, <2>2, WriteRelayDoes
      <3>2. Len(conn'[src.conn].up) = Len(conn[src.conn].up) + 1
            /\ Len(conn[src.conn].up) \in Nat
        BY <2>0, <3>1, ConnectionTyped, AppendTo, Lengths DEF Changed
      <3>3. Held(conn'[src.conn]) = Held(conn[src.conn]) + 1
            /\ Held(conn[src.conn]) \in Nat
        <4>1. conn[src.conn] \in Connections /\ conn'[src.conn] \in Connections
          BY <1>1, <2>0, <3>1 DEF Changed
        <4>2. conn'[src.conn].copied = conn[src.conn].copied
              /\ conn'[src.conn].settled = conn[src.conn].settled
          BY <3>1 DEF Changed
        <4>3. QED
          BY <3>2, <4>1, <4>2, HeldTyped, HeldMoves
      <3>4. Held(conn'[src.conn]) <= Held(conn[src.conn]) + 1 /\ 1 \in Int
            /\ relayed' + 1 - relayed <= src'.offset - src.offset
        BY <1>1, <2>0, <3>3
      <3>5. QED
        BY <1>5, <2>0, <3>1, <3>4 DEF Changed
    <2>3. QED
      BY <2>0, <2>1, <2>2
  <1>10. CASE Sent \/ ReadAtFails
    <2>1. Changed(src.conn, conn[src.conn].up, conn[src.conn].down,
                  (IF conn[src.conn].state = "open" THEN "closed"
                   ELSE conn[src.conn].state),
                  conn[src.conn].copied, conn[src.conn].settled)
          /\ src.conn \in DOMAIN conn
      BY <1>10, SentDoes, ReadAtFailsDoes DEF HangsUp, Sent, ReadAtFails
    <2>2. relayed' = relayed /\ src'.offset = src.offset
      BY <1>10 DEF Sent, ReadAtFails, world, Structure, TypeOK
    <2>3. Held(conn'[src.conn]) <= Held(conn[src.conn]) + 0 /\ 0 \in Int
      <3>1. Held(conn'[src.conn]) = Held(conn[src.conn]) /\ Held(conn[src.conn]) \in Nat
        <4>1. conn'[src.conn] \in Connections
          BY <2>1 DEF Changed
        <4>2. QED
          BY <2>1, <4>1, HeldSame DEF Changed
      <3>2. QED
        BY <3>1
    <2>4. QED
      BY <1>1, <1>5, <2>1, <2>2, <2>3 DEF Changed
  <1>11. CASE Read
    <2>1. Changed(sink.conn, conn[sink.conn].up, Tail(conn[sink.conn].down),
                  conn[sink.conn].state,
                  conn[sink.conn].copied, conn[sink.conn].settled)
          /\ sink.conn \in DOMAIN conn
      BY <1>11, ReadDoes DEF Read
    <2>2. relayed' = relayed /\ src'.offset = src.offset
      BY <1>11 DEF Read, world
    <2>3. Held(conn'[sink.conn]) <= Held(conn[sink.conn]) + 0 /\ 0 \in Int
      <3>1. Held(conn'[sink.conn]) = Held(conn[sink.conn]) /\ Held(conn[sink.conn]) \in Nat
        <4>1. conn'[sink.conn] \in Connections
          BY <2>1 DEF Changed
        <4>2. QED
          BY <2>1, <4>1, HeldSame DEF Changed
      <3>2. QED
        BY <3>1
    <2>4. QED
      BY <1>1, <1>5, <2>1, <2>2, <2>3 DEF Changed
  <1>12. CASE ReadEnds
    <2>1. Changed(sink.conn, conn[sink.conn].up, conn[sink.conn].down,
                  "cut", conn[sink.conn].copied, conn[sink.conn].settled)
          /\ sink.conn \in DOMAIN conn
      BY <1>12, ReadEndsDoes DEF ReadEnds
    <2>2. relayed' = relayed /\ src'.offset = src.offset
      BY <1>12 DEF ReadEnds, world
    <2>3. Held(conn'[sink.conn]) <= Held(conn[sink.conn]) + 0 /\ 0 \in Int
      <3>1. Held(conn'[sink.conn]) = Held(conn[sink.conn]) /\ Held(conn[sink.conn]) \in Nat
        <4>1. conn'[sink.conn] \in Connections
          BY <2>1 DEF Changed
        <4>2. QED
          BY <2>1, <4>1, HeldSame DEF Changed
      <3>2. QED
        BY <3>1
    <2>4. QED
      BY <1>1, <1>5, <2>1, <2>2, <2>3 DEF Changed
  <1>13. CASE Received \/ DstWriteFails
    <2>1. Changed(sink.conn, <<>>, <<>>,
                  "cut", conn[sink.conn].copied, conn[sink.conn].settled)
          /\ sink.conn \in DOMAIN conn
      BY <1>13, ReceivedDoes, DstWriteFailsDoes
      DEF Drops, Received, DstWriteFails
    <2>2. relayed' = relayed /\ src'.offset = src.offset
      BY <1>13 DEF Received, DstWriteFails, world
    <2>3. Held(conn'[sink.conn]) <= Held(conn[sink.conn]) + 0 /\ 0 \in Int
      <3>1. Len(conn'[sink.conn].up) = 0 /\ Len(conn[sink.conn].up) \in Nat
            /\ conn[sink.conn].copied \in Nat
        BY <2>1, ConnectionTyped, Lengths DEF Changed
      <3>2. QED
        BY <2>1, <3>1 DEF Changed, Held
    <2>4. QED
      BY <1>1, <1>5, <2>1, <2>2, <2>3 DEF Changed
  <1>14. ASSUME NEW k \in Relays, Copy(k)
        PROVE  Accounted(conn', relayed', src'.offset)
    <2>1. Changed(k, Tail(conn[k].up), Append(conn[k].down, conn[k].up[1]),
                  conn[k].state, conn[k].copied + 1, conn[k].settled)
          /\ k \in DOMAIN conn
      BY <1>14, CopyDoes DEF Relays
    <2>2. relayed' = relayed /\ src'.offset = src.offset
      BY <1>14 DEF Copy, ends, world
    <2>3. Held(conn'[k]) <= Held(conn[k]) + 0 /\ 0 \in Int
      <3>1. Len(conn'[k].up) = Len(conn[k].up) - 1 /\ Len(conn[k].up) \in Nat
            /\ conn[k].copied \in Nat
        <4>1. conn[k].up \in Seq(Nat) /\ conn[k].up # <<>>
              /\ conn[k].copied \in Nat /\ conn'[k].up = Tail(conn[k].up)
          BY <1>14, <2>1, ConnectionTyped DEF Changed, Copy
        <4>2. QED
          BY <4>1, TailOf, Lengths
      <3>2. ~ conn[k].settled
        BY <1>14, <2>1 DEF Copy, Relays, Structure, ConnectionFits, Fitting
      <3>3. Held(conn'[k]) = Held(conn[k]) /\ Held(conn[k]) \in Nat
        <4>1. conn[k] \in Connections /\ conn'[k] \in Connections
          BY <1>1, <2>1 DEF Changed
        <4>2. conn'[k].copied = conn[k].copied + 1
              /\ conn'[k].settled = conn[k].settled
          BY <2>1 DEF Changed
        <4>3. QED
          BY <3>1, <3>2, <4>1, <4>2, HeldTyped, HeldMoves
      <3>4. QED
        BY <3>3
    <2>4. QED
      BY <1>1, <1>5, <2>1, <2>2, <2>3 DEF Changed
  <1>15. ASSUME NEW k \in Relays, Settle(k)
        PROVE  Accounted(conn', relayed', src'.offset)
    <2>1. Changed(k, conn[k].up, conn[k].down,
                  conn[k].state, conn[k].copied, TRUE)
          /\ k \in DOMAIN conn
      BY <1>15, SettleDoes DEF Relays
    <2>2. relayed' = relayed + conn[k].copied /\ src' = src
          /\ ~ conn[k].settled /\ conn[k].copied \in Nat
      BY <1>15, <2>1, ConnectionTyped DEF Settle, ends
    <2>3. Held(conn'[k]) <= Held(conn[k]) + (- conn[k].copied)
          /\ (- conn[k].copied) \in Int
      <3>1. Len(conn[k].up) \in Nat
        BY <2>1, ConnectionTyped, Lengths
      <3>2. QED
        BY <2>1, <2>2, <3>1 DEF Changed, Held
    <2>4. relayed' + (- conn[k].copied) - relayed <= src'.offset - src.offset
      <3>1. conn[k].copied \in Nat /\ relayed \in Nat /\ src.offset \in Nat
        BY <1>1, <2>2
      <3>2. src'.offset = src.offset
        BY <2>2
      <3>3. (relayed + conn[k].copied) + (- conn[k].copied) - relayed = 0
        BY <3>1
      <3>4. src'.offset - src.offset = 0
        BY <3>1, <3>2
      <3>5. QED
        BY <2>2, <3>3, <3>4
    <2>5. QED
      BY <1>5, <2>1, <2>3, <2>4 DEF Changed
  <1>16. ASSUME NEW k \in DOMAIN conn, Break(k)
        PROVE  Accounted(conn', relayed', src'.offset)
    <2>1. PICK d : Changed(k, <<>>, d, "cut", conn[k].copied, conn[k].settled)
      BY <1>16, BreakDoes DEF Structure, TypeOK
    <2>2. relayed' = relayed /\ src' = src
      BY <1>16 DEF Break, ends, world
    <2>3. Held(conn'[k]) <= Held(conn[k]) + 0 /\ 0 \in Int
      <3>1. Len(conn'[k].up) = 0 /\ Len(conn[k].up) \in Nat
            /\ conn[k].copied \in Nat
        BY <2>1, ConnectionTyped, Lengths DEF Changed
      <3>2. QED
        BY <2>1, <3>1 DEF Changed, Held
    <2>4. QED
      BY <1>1, <1>5, <2>1, <2>2, <2>3 DEF Changed
  <1>17. CASE AcceptCancelled
    <2>1. relayed' = relayed /\ src' = src /\ Len(conn') = Len(conn)
      BY <1>17, AcceptCancelledDoes DEF AcceptCancelled
    <2>2. ASSUME NEW j \in DOMAIN conn PROVE Held(conn'[j]) <= Held(conn[j])
      <3>1. Held(conn'[j]) = Held(conn[j]) /\ Held(conn[j]) \in Nat
        BY <1>17, AcceptCancelledDoes, HeldTyped DEF Held
      <3>2. QED
        BY <3>1
    <2>3. QED
      BY SMTT(30), <1>1, <1>3, <2>1, <2>2, AccountKept
  <1>18. CASE Restart
    BY <1>18, <1>2 DEF Restart
  <1>19. CASE DialRelay \/ WriteIntoTheVoid \/ WriteFails \/ SourceTimesOut
             \/ Listen \/ Accept \/ JoinRelay \/ SinkTimesOut \/ PathGone
             \/ RelayRefuses \/ (\E side \in {"source", "sink"} : Cancel(side))
             \/ AcceptFails \/ UNCHANGED vars
    <2>1. conn' = conn /\ relayed' = relayed
          /\ src'.offset \in {src.offset, src.offset + 1}
      BY <1>19 DEF DialRelay, WriteIntoTheVoid, WriteFails, SourceTimesOut,
         Listen, Accept, JoinRelay, SinkTimesOut, PathGone, RelayRefuses,
         Cancel, AcceptFails, Structure, TypeOK, world, ends, vars
    <2>2. QED
      BY <1>4, <2>1
  <1>20. QED
    BY <1>7, <1>8, <1>9, <1>10, <1>11, <1>12, <1>13, <1>14, <1>15, <1>16, <1>17,
       <1>18, <1>19
    DEF Next, Send, Receive, Relaying

-----------------------------------------------------------------------------
(* The tally: relayed one session after the other, the count is exact.     *)

\* What has gone wrong stays wrong, and a direct connection stays made.
LEMMA HistoryStep ==
  ASSUME Structure, [Next]_vars
  PROVE  /\ ~ lost' => ~ lost
         /\ ~ restarted' => ~ restarted
         /\ ~ overlapped' => ~ overlapped
         /\ Directs' = {} => Directs = {}
  <1>1. (~ lost' => ~ lost) /\ (~ restarted' => ~ restarted)
        /\ (~ overlapped' => ~ overlapped)
    <2>1. CASE Pair
      BY <2>1 DEF Pair
    <2>2. ASSUME NEW k \in DOMAIN conn, Break(k)
          PROVE  (~ lost' => ~ lost) /\ restarted' = restarted
                 /\ overlapped' = overlapped
      BY <2>2, Bounds, BreakDoes DEF Structure, TypeOK, Break
    <2>3. CASE WriteIntoTheVoid
      BY <2>3 DEF WriteIntoTheVoid
    <2>4. CASE Restart
      BY <2>4 DEF Restart
    <2>5. CASE UNCHANGED history
      BY <2>5 DEF history
    <2>7. CASE ReadAtFails \/ AcceptFails \/ DstWriteFails
      <3>1. restarted' = restarted /\ overlapped' = overlapped
        BY <2>7 DEF ReadAtFails, AcceptFails, DstWriteFails
      <3>2. ~ lost' => ~ lost
        <4>1. CASE ReadAtFails
          BY Zenon, <4>1 DEF ReadAtFails
        <4>2. CASE AcceptFails
          BY Zenon, <4>2 DEF AcceptFails
        <4>3. CASE DstWriteFails
          BY Zenon, <4>3 DEF DstWriteFails
        <4>4. QED
          BY <2>7, <4>1, <4>2, <4>3
      <3>3. QED
        BY <3>1, <3>2
    <2>6. QED
      BY <2>1, <2>2, <2>3, <2>4, <2>5, <2>7
      DEF Next, Send, Receive, Relaying, DialDirect, DialRelay, Write,
          WriteFails, Sent, SourceTimesOut, Listen, Accept, AcceptCancelled,
          JoinRelay, Read, ReadEnds, Received, SinkTimesOut, Copy, Settle,
          PathGone, RelayRefuses, Cancel, vars
  <1>2. CASE Directs' = Directs
    BY <1>1, <1>2
  <1>3. CASE DialDirect
    <2>1. Len(conn) + 1 \in Directs'
      BY <1>3, DialDirectDoes, AddedRoutes, Bounds
    <2>2. QED
      BY <1>1, <2>1
  <1>4. Directs' = Directs \/ DialDirect
    <2>1. CASE Pair
      BY <2>1, PairDoes, AddedRoutes, Bounds
    <2>2. CASE Write
      <3>1. src.conn \in DOMAIN conn
            /\ conn[src.conn].route \in {"direct", "relay"}
        BY <2>2, Bounds, ConnectionTyped DEF Write
      <3>2. DOMAIN conn' = DOMAIN conn
            /\ \A k \in DOMAIN conn : conn'[k].route = conn[k].route
        BY <2>2, <3>1, Bounds, WriteDirectDoes, WriteRelayDoes DEF Changed
      <3>3. QED
        BY <3>2, RoutesKept
    <2>3. CASE Sent
      <3>1. Changed(src.conn, conn[src.conn].up, conn[src.conn].down,
                    (IF conn[src.conn].state = "open" THEN "closed"
                     ELSE conn[src.conn].state),
                    conn[src.conn].copied, conn[src.conn].settled)
        BY <2>3, Bounds, SentDoes DEF HangsUp, Sent
      <3>2. QED
        BY <3>1, ChangedRoutes
    <2>4. CASE Restart \/ ReadAtFails
      <3>1. Changed(src.conn, conn[src.conn].up, conn[src.conn].down,
                    (IF conn[src.conn].state = "open" THEN "closed"
                     ELSE conn[src.conn].state),
                    conn[src.conn].copied, conn[src.conn].settled)
        BY <2>4, Bounds, RestartDoes, ReadAtFailsDoes
        DEF HangsUp, Restart, ReadAtFails
      <3>2. QED
        BY <3>1, ChangedRoutes
    <2>5. CASE Read
      <3>1. Changed(sink.conn, conn[sink.conn].up, Tail(conn[sink.conn].down),
                  conn[sink.conn].state,
                  conn[sink.conn].copied, conn[sink.conn].settled)
        BY <2>5, Bounds, ReadDoes DEF Read
      <3>2. QED
        BY <3>1, ChangedRoutes
    <2>6. CASE ReadEnds
      <3>1. Changed(sink.conn, conn[sink.conn].up, conn[sink.conn].down,
                  "cut", conn[sink.conn].copied, conn[sink.conn].settled)
        BY <2>6, Bounds, ReadEndsDoes DEF ReadEnds
      <3>2. QED
        BY <3>1, ChangedRoutes
    <2>7. CASE Received \/ DstWriteFails
      <3>1. Changed(sink.conn, <<>>, <<>>,
                  "cut", conn[sink.conn].copied, conn[sink.conn].settled)
        BY <2>7, Bounds, ReceivedDoes, DstWriteFailsDoes
        DEF Drops, Received, DstWriteFails
      <3>2. QED
        BY <3>1, ChangedRoutes
    <2>8. ASSUME NEW k \in Relays, Copy(k) PROVE Directs' = Directs
      <3>1. Changed(k, Tail(conn[k].up), Append(conn[k].down, conn[k].up[1]),
                  conn[k].state, conn[k].copied + 1, conn[k].settled)
        BY <2>8, Bounds, CopyDoes DEF Relays
      <3>2. QED
        BY <3>1, ChangedRoutes
    <2>9. ASSUME NEW k \in Relays, Settle(k) PROVE Directs' = Directs
      <3>1. Changed(k, conn[k].up, conn[k].down,
                  conn[k].state, conn[k].copied, TRUE)
        BY <2>9, Bounds, SettleDoes DEF Relays
      <3>2. QED
        BY <3>1, ChangedRoutes
    <2>10. ASSUME NEW k \in DOMAIN conn, Break(k) PROVE Directs' = Directs
      <3>1. PICK d : Changed(k, <<>>, d, "cut", conn[k].copied, conn[k].settled)
        BY <2>10, Bounds, BreakDoes DEF Structure, TypeOK
      <3>2. QED
        BY <3>1, ChangedRoutes
    <2>11. CASE AcceptCancelled
      BY <2>11, Bounds, AcceptCancelledDoes, RoutesKept
    <2>12. CASE UNCHANGED conn
      BY <2>12 DEF Directs
    <2>13. QED
      BY <2>1, <2>2, <2>3, <2>4, <2>5, <2>6, <2>7, <2>8, <2>9, <2>10, <2>11,
         <2>12
      DEF Next, Send, Receive, Relaying, DialRelay, WriteIntoTheVoid, WriteFails,
          SourceTimesOut, Listen, Accept, JoinRelay, SinkTimesOut, PathGone,
          RelayRefuses, Cancel, AcceptFails, vars
  <1>5. QED
    BY <1>2, <1>3, <1>4

\* When they pair, the sink has read all it was sent before.
LEMMA NothingOnItsWay ==
  ASSUME Structure, Pair
  PROVE  /\ sink.conn = 0 => Current \notin DOMAIN conn
         /\ sink.conn # 0 => /\ conn[sink.conn].state = "cut"
                             /\ conn[sink.conn].down = <<>>
                             /\ conn[sink.conn].up = <<>>
  <1> USE Bounds
  <1>1. sink.at = "waiting" /\ Live
    BY DEF Pair, Live
  <1>2. ASSUME sink.conn = 0 PROVE Current \notin DOMAIN conn
    <2> SUFFICES ASSUME ~ sink.tried PROVE conn = <<>>
      BY <1>1, <1>2 DEF Current
    <2>1. Directs = {} /\ Relays = {}
      BY <1>1, <1>2 DEF Structure, SinkFits
    <2>2. \A k \in DOMAIN conn : conn[k].route \in {"direct", "relay"}
      BY ConnectionTyped
    <2>3. DOMAIN conn = {}
      BY <2>1, <2>2 DEF Directs, Relays
    <2>4. Len(conn) = 0
      BY <2>3
    <2>5. QED
      BY <2>4, Lengths
  <1>3. ASSUME sink.conn # 0
        PROVE  conn[sink.conn].state = "cut" /\ conn[sink.conn].down = <<>>
               /\ conn[sink.conn].up = <<>>
    BY <1>1, <1>3 DEF Structure, SinkFits, ConnectionFits, Fitting
  <1>4. QED
    BY <1>2, <1>3

\* So what the relay says then is what the sink has.
LEMMA ToldWhenPairing ==
  ASSUME Structure, Tally, Pair, Directs = {}, ~ lost, ~ overlapped'
  PROVE  relayed = Len(dst)
  <1> USE Bounds
  <1>1. sink.at = "waiting" /\ Live /\ ~ overlapped
        /\ \A k \in Relays : conn[k].settled
    BY DEF Pair, Live
  <1>2. CASE conn = <<>>
    BY <1>1, <1>2 DEF Tally
  <1>3. CASE conn # <<>>
    <2>1. Len(conn) \in DOMAIN conn
      BY <1>3, Lengths
    <2>2. conn[Len(conn)].settled
      BY <1>1, <2>1, ConnectionTyped DEF Directs, Relays
    <2>3. sink.conn = Len(conn)
          /\ relayed + 0 = Len(dst) + Len(conn[Len(conn)].down)
      BY <1>1, <1>3, <2>2 DEF Tally
    <2>4. Len(conn[Len(conn)].down) = 0
      BY <1>3, <2>1, <2>3, NothingOnItsWay
    <2>5. relayed \in Nat /\ Len(dst) \in Nat
      BY Lengths DEF Structure, TypeOK
    <2>6. QED
      BY <2>3, <2>4, <2>5
  <1>4. QED
    BY <1>2, <1>3

\* One more on either side.
LEMMA Sums ==
  ASSUME NEW a \in Nat, NEW b \in Nat, NEW c \in Nat, NEW d \in Nat
  PROVE  /\ a + b = c + d => a + (b + 1) = c + (d + 1)
         /\ (c + 1) + (d - 1) = c + d
  OBVIOUS

LEMMA TallyStep ==
  ASSUME Structure, Tally, [Next]_vars
  PROVE  Tally'
  <1> DEFINE L == Len(conn)
             Unsettled(c) == IF c.settled THEN 0 ELSE c.copied
             Goal == IF conn' = <<>> THEN relayed' = 0 /\ dst' = <<>>
                     ELSE /\ src'.conn = Len(conn') /\ sink'.conn = Len(conn')
                          /\ \A k \in DOMAIN conn' :
                               k # Len(conn') => conn'[k].settled
                          /\ relayed' + Unsettled(conn'[Len(conn')])
                               = Len(dst') + Len(conn'[Len(conn')].down)
  <1> SUFFICES ASSUME Live', ~ lost', Directs' = {}, ~ overlapped' PROVE Goal
    BY DEF Tally
  <1>1. Live /\ ~ lost /\ Directs = {} /\ ~ overlapped
    BY LiveBefore, HistoryStep
  <1>2. /\ conn \in Seq(Connections) /\ L \in Nat /\ DOMAIN conn = 1..L
        /\ conn' \in Seq(Connections)
        /\ relayed \in Nat /\ dst \in Seq(Nat) /\ Len(dst) \in Nat
        /\ (conn = <<>> <=> L = 0) /\ (conn' = <<>> <=> Len(conn') = 0)
        /\ (src.conn # 0 => src.conn \in DOMAIN conn)
        /\ (src.at = "sending" => src.conn # 0)
        /\ (sink.conn # 0 => sink.conn \in DOMAIN conn)
        /\ (sink.at = "receiving" => sink.conn # 0)
    BY Bounds, StructureStep, Lengths DEF Structure, TypeOK, SourceFits,
       SinkFits
  <1>3. conn = <<>> => relayed = 0 /\ dst = <<>>
    BY <1>1 DEF Tally
  <1>4. conn # <<>> =>
          /\ src.conn = L /\ sink.conn = L /\ L \in DOMAIN conn
          /\ \A k \in DOMAIN conn : k # L => conn[k].settled
          /\ relayed + Unsettled(conn[L]) = Len(dst) + Len(conn[L].down)
    BY <1>1, <1>2 DEF Tally
  <1>5. \A k \in DOMAIN conn : /\ conn[k].route = "relay"
                              /\ conn[k].copied \in Nat
                              /\ conn[k].settled \in BOOLEAN
                              /\ conn[k].up \in Seq(Nat)
                              /\ conn[k].down \in Seq(Nat)
                              /\ Len(conn[k].down) \in Nat
    BY <1>1, <1>2, ConnectionTyped, Lengths DEF Directs
  <1> HIDE DEF L
  <1>6. ASSUME conn # <<>>, Len(conn') = L, DOMAIN conn' = DOMAIN conn,
               src'.conn = src.conn, sink'.conn = sink.conn,
               \A k \in DOMAIN conn : k # L => conn'[k] = conn[k],
               relayed' + Unsettled(conn'[L]) = Len(dst') + Len(conn'[L].down)
        PROVE  Goal
    BY <1>2, <1>4, <1>6
  <1>kept. ASSUME conn # <<>>, NEW k, k = L, NEW up, NEW state,
                  Changed(k, up, conn[k].down, state, conn[k].copied,
                          conn[k].settled),
                  src'.conn = src.conn, sink'.conn = sink.conn,
                  relayed' = relayed, dst' = dst
           PROVE  Goal
    <2>1. Len(conn') = L /\ DOMAIN conn' = DOMAIN conn
          /\ \A j \in DOMAIN conn : j # L => conn'[j] = conn[j]
      BY <1>kept DEF Changed, L
    <2>2. Unsettled(conn'[L]) = Unsettled(conn[L]) /\ conn'[L].down = conn[L].down
      BY <1>kept DEF Changed
    <2>3. relayed' + Unsettled(conn'[L]) = Len(dst') + Len(conn'[L].down)
      BY <1>4, <1>kept, <2>2
    <2>4. QED
      BY <1>6, <1>kept, <2>1, <2>3
  <1>7. ASSUME conn' = conn, src'.conn = src.conn, sink'.conn = sink.conn,
               relayed' = relayed, dst' = dst
        PROVE  Goal
    BY <1>2, <1>3, <1>4, <1>7 DEF L
  <1>8. CASE DialDirect
    <2>1. Len(conn) + 1 \in Directs'
      BY <1>2, <1>8, DialDirectDoes, AddedRoutes
    <2>2. QED
      BY <2>1
  <1>9. CASE Pair
    <2>1. Added("relay") /\ relayed' = relayed /\ dst' = dst
      BY <1>9, <1>2, PairDoes DEF Pair, world
    <2>2. src'.conn = L + 1 /\ sink'.conn = L + 1 /\ Len(conn') = L + 1
          /\ DOMAIN conn' = 1..(L + 1)
          /\ \A k \in DOMAIN conn : conn'[k] = conn[k]
      BY <1>9, <2>1 DEF Pair, Added, L, Structure, TypeOK
    <2>3. conn'[L + 1].copied = 0 /\ ~ conn'[L + 1].settled
          /\ conn'[L + 1].down = <<>>
      <3>1. conn'[L + 1] = Connection("relay")
        BY <2>1 DEF Added, L
      <3>2. conn'[L + 1].copied = 0 /\ conn'[L + 1].down = <<>>
            /\ conn'[L + 1].settled = ("relay" = "direct")
        BY <3>1 DEF Connection
      <3>3. ("relay" = "direct") = FALSE
        OBVIOUS
      <3>4. QED
        BY <3>2, <3>3
    <2>4. \A k \in DOMAIN conn : conn[k].settled
      BY <1>5, <1>9 DEF Pair, Relays
    <2>5. relayed = Len(dst)
      BY <1>1, <1>9, ToldWhenPairing
    <2>6. relayed' + Unsettled(conn'[L + 1]) = Len(dst') + Len(conn'[L + 1].down)
      BY <1>2, <2>1, <2>3, <2>5
    <2>7. ASSUME NEW k \in DOMAIN conn', k # L + 1 PROVE conn'[k].settled
      BY <1>2, <2>2, <2>4, <2>7
    <2>8. QED
      BY <1>2, <2>2, <2>6, <2>7
  <1>10. CASE Write
    <2>1. src.conn \in DOMAIN conn /\ src'.conn = src.conn /\ sink' = sink
          /\ relayed' = relayed /\ dst' = dst
      BY <1>2, <1>10 DEF Write, Structure, TypeOK, world
    <2>2. Changed(src.conn, Append(conn[src.conn].up, src.offset + 1),
                  conn[src.conn].down,
                  conn[src.conn].state,
                  conn[src.conn].copied, conn[src.conn].settled)
      BY <1>2, <1>5, <1>10, <2>1, Bounds, WriteRelayDoes
    <2>3. conn # <<>> /\ src.conn = L
      BY <1>2, <1>4, <2>1
    <2>4. QED
      BY <1>kept, <2>1, <2>2, <2>3
  <1>11. CASE Sent
    <2>1. Changed(src.conn, conn[src.conn].up, conn[src.conn].down,
                  (IF conn[src.conn].state = "open" THEN "closed"
                   ELSE conn[src.conn].state),
                  conn[src.conn].copied, conn[src.conn].settled)
          /\ src.conn \in DOMAIN conn
      BY <1>2, <1>11, SentDoes DEF HangsUp, Sent
    <2>2. conn # <<>> /\ src.conn = L
      BY <1>2, <1>4, <2>1
    <2>3. src'.conn = src.conn /\ sink'.conn = sink.conn
          /\ relayed' = relayed /\ dst' = dst
      BY <1>11 DEF Sent, world, Structure, TypeOK
    <2>4. QED
      BY <1>kept, <2>1, <2>2, <2>3
  <1>12. CASE Restart \/ ReadAtFails
    <2>1. Changed(src.conn, conn[src.conn].up, conn[src.conn].down,
                  (IF conn[src.conn].state = "open" THEN "closed"
                   ELSE conn[src.conn].state),
                  conn[src.conn].copied, conn[src.conn].settled)
          /\ src.conn \in DOMAIN conn
      BY <1>2, <1>12, RestartDoes, ReadAtFailsDoes
      DEF HangsUp, Restart, ReadAtFails
    <2>2. conn # <<>> /\ src.conn = L
      BY <1>2, <1>4, <2>1
    <2>3. src'.conn = src.conn /\ sink'.conn = sink.conn
          /\ relayed' = relayed /\ dst' = dst
      BY <1>12 DEF Restart, ReadAtFails, world, Structure, TypeOK
    <2>4. QED
      BY <1>kept, <2>1, <2>2, <2>3
  <1>13. CASE ReadEnds
    <2>1. Changed(sink.conn, conn[sink.conn].up, conn[sink.conn].down,
                  "cut", conn[sink.conn].copied, conn[sink.conn].settled)
          /\ sink.conn \in DOMAIN conn
      BY <1>2, <1>13, ReadEndsDoes DEF ReadEnds
    <2>2. conn # <<>> /\ sink.conn = L
      BY <1>2, <1>4, <2>1
    <2>3. src'.conn = src.conn /\ sink'.conn = sink.conn
          /\ relayed' = relayed /\ dst' = dst
      BY <1>13 DEF ReadEnds, world, Structure, TypeOK
    <2>4. QED
      BY <1>kept, <2>1, <2>2, <2>3
  <1>14. CASE Read
    <2>1. Changed(sink.conn, conn[sink.conn].up, Tail(conn[sink.conn].down),
                  conn[sink.conn].state,
                  conn[sink.conn].copied, conn[sink.conn].settled)
          /\ sink.conn \in DOMAIN conn
      BY <1>2, <1>14, ReadDoes DEF Read
    <2>2. conn # <<>> /\ sink.conn = L
      BY <1>2, <1>4, <2>1
    <2>3. src' = src /\ sink' = sink /\ relayed' = relayed
          /\ dst' = Append(dst, Head(conn[L].down)) /\ conn[L].down # <<>>
      BY <1>14, <2>2 DEF Read, world
    <2>4. Len(dst') = Len(dst) + 1 /\ Len(Tail(conn[L].down)) = Len(conn[L].down) - 1
      <3>1. conn[L].down \in Seq(Nat)
        BY <1>5, <2>1, <2>2
      <3>2. Head(conn[L].down) \in Nat
            /\ Len(Tail(conn[L].down)) = Len(conn[L].down) - 1
        BY <2>3, <3>1, TailOf
      <3>3. QED
        BY <1>2, <2>3, <3>2, AppendTo
    <2>5. Unsettled(conn'[L]) = Unsettled(conn[L]) /\ Len(conn[L].down) \in Nat
          /\ conn'[L].down = Tail(conn[L].down)
      BY <1>5, <2>1, <2>2 DEF Changed
    <2>6. relayed' + Unsettled(conn'[L]) = Len(dst') + Len(conn'[L].down)
      <3>1. relayed + Unsettled(conn[L]) = Len(dst) + Len(conn[L].down)
        BY <1>4, <2>2
      <3>2. Len(dst') + Len(conn'[L].down) = Len(dst) + Len(conn[L].down)
        <4>1. Len(dst) \in Nat
          BY <1>2
        <4>2. (Len(dst) + 1) + (Len(conn[L].down) - 1)
              = Len(dst) + Len(conn[L].down)
          BY <2>5, <4>1, Sums
        <4>3. QED
          BY <2>4, <2>5, <4>2
      <3>3. QED
        BY <2>3, <2>5, <3>1, <3>2
    <2>7. QED
      BY <1>6, <2>1, <2>2, <2>3, <2>6 DEF Changed, L
  <1>15. ASSUME NEW k \in Relays, Copy(k) PROVE Goal
    <2>1. Changed(k, Tail(conn[k].up), Append(conn[k].down, conn[k].up[1]),
                  conn[k].state, conn[k].copied + 1, conn[k].settled)
          /\ k \in DOMAIN conn
      BY <1>2, <1>15, CopyDoes DEF Relays
    <2>2. ~ conn[k].settled
      BY <1>5, <1>15, <2>1 DEF Copy, Structure, ConnectionFits, Fitting
    <2>3. conn # <<>> /\ k = L
      BY <1>2, <1>4, <2>1, <2>2
    <2>4. src' = src /\ sink' = sink /\ relayed' = relayed /\ dst' = dst
          /\ conn[L].up # <<>>
      BY <1>15, <2>3 DEF Copy, ends, world
    <2>5. Len(conn'[L].down) = Len(conn[L].down) + 1
      <3>1. conn[L].up[1] \in Nat /\ conn[L].down \in Seq(Nat)
        BY <1>5, <2>1, <2>3, <2>4, TailOf
      <3>2. conn'[L].down = Append(conn[L].down, conn[L].up[1])
        BY <2>1, <2>3 DEF Changed
      <3>3. QED
        BY <3>1, <3>2, AppendTo
    <2>6. Unsettled(conn[L]) = conn[L].copied
          /\ Unsettled(conn'[L]) = conn[L].copied + 1
      BY <2>1, <2>2, <2>3 DEF Changed
    <2>7. relayed' + Unsettled(conn'[L]) = Len(dst') + Len(conn'[L].down)
      <3>1. relayed + conn[L].copied = Len(dst) + Len(conn[L].down)
            /\ conn[L].copied \in Nat /\ Len(conn[L].down) \in Nat
        BY <1>4, <1>5, <2>3, <2>6
      <3>2. relayed + (conn[L].copied + 1) = Len(dst) + (Len(conn[L].down) + 1)
        <4>1. relayed \in Nat /\ Len(dst) \in Nat
          BY <1>2
        <4>2. QED
          BY <3>1, <4>1, Sums
      <3>3. QED
        BY <2>4, <2>5, <2>6, <3>2
    <2>8. QED
      BY <1>6, <2>1, <2>3, <2>4, <2>7 DEF Changed, L
  <1>16. ASSUME NEW k \in Relays, Settle(k) PROVE Goal
    <2>1. Changed(k, conn[k].up, conn[k].down,
                  conn[k].state, conn[k].copied, TRUE)
          /\ k \in DOMAIN conn
      BY <1>2, <1>16, SettleDoes DEF Relays
    <2>2. ~ conn[k].settled
      BY <1>16 DEF Settle
    <2>3. conn # <<>> /\ k = L
      BY <1>2, <1>4, <2>1, <2>2
    <2>4. src' = src /\ sink' = sink /\ dst' = dst
          /\ relayed' = relayed + conn[L].copied
      BY <1>16, <2>3 DEF Settle, ends
    <2>5. relayed + conn[L].copied = Len(dst) + Len(conn[L].down)
          /\ conn[L].copied \in Nat
      BY <1>4, <1>5, <2>2, <2>3
    <2>6. Unsettled(conn'[L]) = 0 /\ conn'[L].down = conn[L].down
      BY <2>1, <2>3 DEF Changed
    <2>7. relayed' + Unsettled(conn'[L]) = Len(dst') + Len(conn'[L].down)
      BY <1>2, <2>4, <2>5, <2>6
    <2>8. QED
      BY <1>6, <2>1, <2>3, <2>4, <2>7 DEF Changed, L
  <1>17. ASSUME NEW k \in DOMAIN conn, Break(k) PROVE Goal
    <2>1. Changed(k, <<>>, conn[k].down, "cut", conn[k].copied, conn[k].settled)
      BY <1>2, <1>17, BreakDoes DEF Structure, TypeOK
    <2>2. src' = src /\ sink' = sink /\ relayed' = relayed /\ dst' = dst
      BY <1>17 DEF Break, ends, world
    <2>3. conn # <<>>
      BY <1>2
    <2>4. relayed' + Unsettled(conn'[L]) = Len(dst') + Len(conn'[L].down)
      <3>1. conn'[L].down = conn[L].down /\ conn'[L].settled = conn[L].settled
            /\ conn'[L].copied = conn[L].copied
        BY <1>4, <2>1, <2>3 DEF Changed
      <3>2. QED
        BY <1>4, <2>2, <2>3, <3>1
    <2>5. \A j \in DOMAIN conn : conn'[j].settled = conn[j].settled
      BY <2>1 DEF Changed
    <2>6. QED
      BY <1>2, <1>4, <2>1, <2>2, <2>3, <2>4, <2>5 DEF Changed, L
  <1>18. CASE Received \/ AcceptCancelled \/ DstWriteFails
    BY <1>18 DEF Received, AcceptCancelled, DstWriteFails, Structure, TypeOK, Live
  <1>19. CASE Accept
    BY <1>19, <1>1 DEF Accept
  <1>20. CASE DialRelay \/ WriteIntoTheVoid \/ WriteFails \/ SourceTimesOut
             \/ Listen \/ JoinRelay \/ SinkTimesOut \/ PathGone
             \/ RelayRefuses \/ (\E side \in {"source", "sink"} : Cancel(side))
             \/ AcceptFails \/ UNCHANGED vars
    <2>1. conn' = conn /\ relayed' = relayed /\ dst' = dst
          /\ src'.conn = src.conn /\ sink'.conn = sink.conn
      BY <1>20 DEF DialRelay, WriteIntoTheVoid, WriteFails, SourceTimesOut,
         Listen, JoinRelay, SinkTimesOut, PathGone, RelayRefuses,
         Cancel, AcceptFails, Structure, TypeOK, world, ends, vars
    <2>2. QED
      BY <1>7, <2>1
  <1> HIDE DEF Goal
  <1>21. QED
    BY <1>8, <1>9, <1>10, <1>11, <1>12, <1>13, <1>14, <1>15, <1>16, <1>17,
       <1>18, <1>19, <1>20
    DEF Next, Send, Receive, Relaying

-----------------------------------------------------------------------------
(* The stream.                                                             *)

\* What a connection holds, as numbers.
LEMMA Carried ==
  ASSUME NEW c \in Connections
  PROVE  /\ c.up \in Seq(Nat) /\ c.down \in Seq(Nat)
         /\ Len(c.up) \in Nat /\ Len(c.down) \in Nat
         /\ DOMAIN c.up = 1..Len(c.up) /\ DOMAIN c.down = 1..Len(c.down)
         /\ (c.up = <<>> <=> Len(c.up) = 0)
         /\ (c.down = <<>> <=> Len(c.down) = 0)
         /\ OnItsWay(c) = Len(c.down) + Len(c.up) /\ OnItsWay(c) \in Nat
  <1>1. c.up \in Seq(Nat) /\ c.down \in Seq(Nat)
    BY DEF Connections
  <1>2. Len(c.up) \in Nat /\ Len(c.down) \in Nat
        /\ DOMAIN c.up = 1..Len(c.up) /\ DOMAIN c.down = 1..Len(c.down)
        /\ (c.up = <<>> <=> Len(c.up) = 0)
        /\ (c.down = <<>> <=> Len(c.down) = 0)
    BY <1>1, Lengths
  <1>3. OnItsWay(c) = Len(c.down) + Len(c.up)
    BY DEF OnItsWay
  <1>4. OnItsWay(c) \in Nat
    <2> DEFINE a == Len(c.down)
               b == Len(c.up)
    <2>1. a \in Nat /\ b \in Nat /\ OnItsWay(c) = a + b
      BY <1>2, <1>3
    <2> HIDE DEF a, b
    <2>2. QED
      BY <2>1
  <1>5. QED
    BY <1>1, <1>2, <1>3, <1>4

\* What the connection c holds, one place after the other.
LEMMA Continuing ==
  ASSUME NEW c \in Connections, NEW n \in Nat
  PROVE  Continues(c, n) <=>
           /\ \A i \in 1..Len(c.down) : c.down[i] = n + i
           /\ \A i \in 1..Len(c.up) : c.up[i] = n + Len(c.down) + i
  <1>1. DOMAIN c.up = 1..Len(c.up) /\ DOMAIN c.down = 1..Len(c.down)
    BY Carried
  <1>2. Continues(c, n) <=> Follows(c.down, n) /\ Follows(c.up, n + Len(c.down))
    BY DEF Continues
  <1>3. Follows(c.down, n) <=> \A i \in 1..Len(c.down) : c.down[i] = n + i
    BY <1>1 DEF Follows
  <1>4. Follows(c.up, n + Len(c.down))
          <=> \A i \in 1..Len(c.up) : c.up[i] = n + Len(c.down) + i
    BY <1>1 DEF Follows
  <1>5. QED
    BY <1>2, <1>3, <1>4

\* A byte written at the end of what is on its way, directly.
LEMMA WritingContinues ==
  ASSUME NEW c \in Connections, NEW e \in Connections, NEW n \in Nat,
         Continues(c, n), NEW v \in Nat, v = n + OnItsWay(c) + 1,
         e.up = <<>>, c.up = <<>>, e.down = Append(c.down, v)
  PROVE  Continues(e, n) /\ OnItsWay(e) = OnItsWay(c) + 1
  <1> DEFINE a == Len(c.down)
             a2 == Len(e.down)
  <1>1. a \in Nat /\ Len(c.up) = 0 /\ Len(e.up) = 0 /\ c.down \in Seq(Nat)
        /\ OnItsWay(c) = a + 0 /\ OnItsWay(e) = a2 + 0
    BY Carried
  <1>2. /\ a2 = a + 1
        /\ \A i \in 1..a : e.down[i] = c.down[i]
        /\ e.down[a + 1] = v
    BY <1>1, AppendTo
  <1>3. \A i \in 1..a : c.down[i] = n + i
    <2>1. Continues(c, n) <=> /\ \A i \in 1..Len(c.down) : c.down[i] = n + i
                /\ \A i \in 1..Len(c.up) : c.up[i] = n + Len(c.down) + i
      BY Continuing, Zenon
    <2>2. QED
      BY <1>1, <2>1
  <1>4. Continues(e, n) <=> \A i \in 1..a2 : e.down[i] = n + i
    <2>1. Continues(e, n) <=> /\ \A i \in 1..Len(e.down) : e.down[i] = n + i
                /\ \A i \in 1..Len(e.up) : e.up[i] = n + Len(e.down) + i
      BY Continuing, Zenon
    <2>2. 1..Len(e.up) = {}
      BY <1>1
    <2>3. QED
      BY <2>1, <2>2
  <1> HIDE DEF a, a2
  <1>5. v = n + (a + 1)
    BY <1>1
  <1>6. ASSUME NEW i \in 1..a2 PROVE e.down[i] = n + i
    <2>1. i \in 1..a \/ i = a + 1
      BY <1>1, <1>2
    <2>2. QED
      BY <1>2, <1>3, <1>5, <2>1
  <1>7. OnItsWay(e) = OnItsWay(c) + 1
    BY <1>1, <1>2
  <1>8. QED
    BY <1>4, <1>6, <1>7

\* The same, by way of the relay.
LEMMA SendingContinues ==
  ASSUME NEW c \in Connections, NEW e \in Connections, NEW n \in Nat,
         Continues(c, n), NEW v \in Nat, v = n + OnItsWay(c) + 1,
         e.down = c.down, e.up = Append(c.up, v)
  PROVE  Continues(e, n) /\ OnItsWay(e) = OnItsWay(c) + 1
  <1> DEFINE a == Len(c.down)
             b == Len(c.up)
             b2 == Len(e.up)
  <1>1. a \in Nat /\ b \in Nat /\ c.up \in Seq(Nat) /\ Len(e.down) = a
        /\ OnItsWay(c) = a + b /\ OnItsWay(e) = a + b2
    BY Carried
  <1>2. /\ b2 = b + 1
        /\ \A i \in 1..b : e.up[i] = c.up[i]
        /\ e.up[b + 1] = v
    <2>1. c.up \in Seq(Nat)
      BY <1>1
    <2> DEFINE t == Append(c.up, v)
    <2>2. /\ Len(t) = Len(c.up) + 1
          /\ \A i \in 1..Len(c.up) : t[i] = c.up[i]
          /\ t[Len(c.up) + 1] = v
      BY <2>1, AppendTo
    <2>3. e.up = t
      OBVIOUS
    <2> HIDE DEF t
    <2>4. QED
      BY <2>2, <2>3
  <1>3. /\ \A i \in 1..a : e.down[i] = n + i
        /\ \A i \in 1..b : c.up[i] = n + a + i
    <2>1. Continues(c, n) <=> /\ \A i \in 1..Len(c.down) : c.down[i] = n + i
                /\ \A i \in 1..Len(c.up) : c.up[i] = n + Len(c.down) + i
      BY Continuing, Zenon
    <2>2. QED
      BY <1>1, <2>1
  <1>4. Continues(e, n) <=> /\ \A i \in 1..a : e.down[i] = n + i
                            /\ \A i \in 1..b2 : e.up[i] = n + a + i
    <2>1. Continues(e, n) <=> /\ \A i \in 1..Len(e.down) : e.down[i] = n + i
                /\ \A i \in 1..Len(e.up) : e.up[i] = n + Len(e.down) + i
      BY Continuing, Zenon
    <2>2. QED
      BY <1>1, <2>1
  <1> HIDE DEF a, b, b2
  <1>5. v = n + a + (b + 1)
    BY <1>1
  <1>6. ASSUME NEW i \in 1..b2 PROVE e.up[i] = n + a + i
    <2>1. i \in 1..b \/ i = b + 1
      BY <1>1, <1>2
    <2>2. QED
      BY <1>2, <1>3, <1>5, <2>1
  <1>7. OnItsWay(e) = OnItsWay(c) + 1
    BY <1>1, <1>2
  <1>8. QED
    BY <1>3, <1>4, <1>6, <1>7

\* A byte copied by the relay.
LEMMA CopyingContinues ==
  ASSUME NEW c \in Connections, NEW e \in Connections, NEW n \in Nat,
         Continues(c, n), c.up # <<>>,
         e.up = Tail(c.up), e.down = Append(c.down, c.up[1])
  PROVE  Continues(e, n) /\ OnItsWay(e) = OnItsWay(c)
  <1> DEFINE a == Len(c.down)
             b == Len(c.up)
             a2 == Len(e.down)
             b2 == Len(e.up)
  <1>1. a \in Nat /\ b \in Nat /\ c.up \in Seq(Nat) /\ c.down \in Seq(Nat)
        /\ OnItsWay(c) = a + b /\ OnItsWay(e) = a2 + b2
    BY Carried
  <1>2. /\ b > 0 /\ b2 = b - 1 /\ c.up[1] \in Nat
        /\ \A i \in 1..(b - 1) : e.up[i] = c.up[i + 1]
    BY <1>1, TailOf
  <1>3. /\ a2 = a + 1
        /\ \A i \in 1..a : e.down[i] = c.down[i]
        /\ e.down[a + 1] = c.up[1]
    BY <1>1, <1>2, AppendTo
  <1>4. /\ \A i \in 1..a : c.down[i] = n + i
        /\ \A i \in 1..b : c.up[i] = n + a + i
    <2>1. Continues(c, n) <=> /\ \A i \in 1..Len(c.down) : c.down[i] = n + i
                /\ \A i \in 1..Len(c.up) : c.up[i] = n + Len(c.down) + i
      BY Continuing, Zenon
    <2>2. QED
      BY <1>1, <2>1
  <1>5. Continues(e, n) <=> /\ \A i \in 1..a2 : e.down[i] = n + i
                            /\ \A i \in 1..b2 : e.up[i] = n + a2 + i
    <2>1. Continues(e, n) <=> /\ \A i \in 1..Len(e.down) : e.down[i] = n + i
                /\ \A i \in 1..Len(e.up) : e.up[i] = n + Len(e.down) + i
      BY Continuing, Zenon
    <2>2. QED
      BY <1>1, <2>1
  <1> HIDE DEF a, b, a2, b2
  <1>6. c.up[1] = n + (a + 1)
    <2>1. 1 \in 1..b
      BY <1>1, <1>2
    <2>2. c.up[1] = n + a + 1
      BY <1>4, <2>1
    <2>3. QED
      BY <1>1, <2>2
  <1>7. ASSUME NEW i \in 1..a2 PROVE e.down[i] = n + i
    <2>1. i \in 1..a \/ i = a + 1
      BY <1>1, <1>3
    <2>2. QED
      BY <1>3, <1>4, <1>6, <2>1
  <1>8. ASSUME NEW i \in 1..b2 PROVE e.up[i] = n + a2 + i
    <2>1. i \in Nat /\ i \in 1..(b - 1) /\ i + 1 \in 1..b
      BY <1>1, <1>2
    <2>2. e.up[i] = c.up[i + 1]
      BY <1>2, <2>1
    <2>3. c.up[i + 1] = n + a + (i + 1)
      BY <1>4, <2>1
    <2>4. n + a + (i + 1) = n + (a + 1) + i
      BY <1>1, <2>1
    <2>5. QED
      BY <1>3, <2>2, <2>3, <2>4
  <1>9. OnItsWay(e) = OnItsWay(c)
    BY <1>1, <1>2, <1>3
  <1>10. QED
    BY <1>5, <1>7, <1>8, <1>9

\* A byte read by the sink: it is the next one.
LEMMA ReadingContinues ==
  ASSUME NEW c \in Connections, NEW e \in Connections, NEW n \in Nat,
         Continues(c, n), c.down # <<>>, e.down = Tail(c.down), e.up = c.up
  PROVE  /\ Head(c.down) = n + 1
         /\ Continues(e, n + 1) /\ n + 1 + OnItsWay(e) = n + OnItsWay(c)
  <1> DEFINE a == Len(c.down)
             b == Len(c.up)
             a2 == Len(e.down)
  <1>1. a \in Nat /\ b \in Nat /\ c.down \in Seq(Nat) /\ Len(e.up) = b
        /\ OnItsWay(c) = a + b /\ OnItsWay(e) = a2 + b
    BY Carried
  <1>2. /\ a > 0 /\ a2 = a - 1 /\ Head(c.down) = c.down[1]
        /\ \A i \in 1..(a - 1) : e.down[i] = c.down[i + 1]
    BY <1>1, TailOf
  <1>3. /\ \A i \in 1..a : c.down[i] = n + i
        /\ \A i \in 1..b : c.up[i] = n + a + i
    <2>1. Continues(c, n) <=> /\ \A i \in 1..Len(c.down) : c.down[i] = n + i
                /\ \A i \in 1..Len(c.up) : c.up[i] = n + Len(c.down) + i
      BY Continuing, Zenon
    <2>2. QED
      BY <1>1, <2>1
  <1>4. Continues(e, n + 1) <=> /\ \A i \in 1..a2 : e.down[i] = n + 1 + i
                                /\ \A i \in 1..b : e.up[i] = n + 1 + a2 + i
    <2>1. n + 1 \in Nat
      OBVIOUS
    <2>2. Continues(e, n + 1) <=> /\ \A i \in 1..Len(e.down) : e.down[i] = n + 1 + i
                /\ \A i \in 1..Len(e.up) : e.up[i] = n + 1 + Len(e.down) + i
      BY <2>1, Continuing, Zenon
    <2>3. QED
      BY <1>1, <2>2
  <1> HIDE DEF a, b, a2
  <1>5. Head(c.down) = n + 1
    <2>1. 1 \in 1..a
      BY <1>1, <1>2
    <2>2. QED
      BY <1>2, <1>3, <2>1
  <1>6. ASSUME NEW i \in 1..a2 PROVE e.down[i] = n + 1 + i
    <2>1. i \in Nat /\ i \in 1..(a - 1) /\ i + 1 \in 1..a
      BY <1>1, <1>2
    <2>2. e.down[i] = c.down[i + 1]
      BY <1>2, <2>1
    <2>3. c.down[i + 1] = n + (i + 1)
      BY <1>3, <2>1
    <2>4. n + (i + 1) = n + 1 + i
      BY <2>1
    <2>5. QED
      BY <2>2, <2>3, <2>4
  <1>7. ASSUME NEW i \in 1..b PROVE e.up[i] = n + 1 + a2 + i
    <2>1. i \in Nat /\ n + 1 + (a - 1) + i = n + a + i
      BY <1>1
    <2>2. e.up[i] = n + a + i
      BY <1>3
    <2>3. QED
      BY <1>2, <2>1, <2>2
  <1>8. n + 1 + OnItsWay(e) = n + OnItsWay(c)
    BY <1>1, <1>2
  <1>9. QED
    BY <1>4, <1>5, <1>6, <1>7, <1>8

\* A connection that holds nothing, or what another one holds.
LEMMA Same ==
  ASSUME NEW c \in Connections, NEW n \in Nat
  PROVE  /\ c.up = <<>> /\ c.down = <<>> => Continues(c, n) /\ OnItsWay(c) = 0
         /\ \A e : e.up = c.up /\ e.down = c.down
                     => (Continues(e, n) <=> Continues(c, n))
                        /\ OnItsWay(e) = OnItsWay(c)
  <1>1. ASSUME c.up = <<>>, c.down = <<>>
        PROVE  Continues(c, n) /\ OnItsWay(c) = 0
    <2>1. Len(c.up) = 0 /\ Len(c.down) = 0
      BY <1>1
    <2>2. DOMAIN c.up = {} /\ DOMAIN c.down = {}
      BY <2>1, Carried
    <2>3. Continues(c, n)
      BY <2>2 DEF Continues, Follows
    <2>4. OnItsWay(c) = 0 + 0
      BY <2>1 DEF OnItsWay
    <2>5. QED
      BY <2>3, <2>4
  <1>2. ASSUME NEW e, e.up = c.up, e.down = c.down
        PROVE  (Continues(e, n) <=> Continues(c, n)) /\ OnItsWay(e) = OnItsWay(c)
    BY <1>2, Zenon DEF Continues, Follows, OnItsWay
  <1>3. QED
    BY <1>1, <1>2

\* What the source's offset is when the relay tells it the bytes relayed.
LEMMA Told ==
  ASSUME NEW offset \in Nat, NEW count \in Nat, NEW n \in Nat,
         (offset = n /\ count <= offset) \/ (count = n /\ offset <= n)
  PROVE  Larger(offset, count) = n
  BY DEF Larger

\* The positions the flow is stated with.
LEMMA FlowTyped ==
  ASSUME Structure
  PROVE  /\ Current \in Nat
         /\ sink.conn # 0 => Current = sink.conn
         /\ sink.conn = 0 => Current \in {0, 1}
         /\ sink.conn # 0 => InUse
         /\ Len(dst) \in Nat
         /\ Total = IF Current \in DOMAIN conn
                    THEN Len(dst) + OnItsWay(conn[Current]) ELSE Len(dst)
         /\ Total \in Nat /\ Stray \in Nat
         /\ src.conn # 0 /\ src.conn # Current =>
              /\ src.conn \in DOMAIN conn
              /\ Stray = Len(conn[src.conn].down)
              /\ conn[src.conn].route = "direct"
         /\ src.conn = Current => Stray = 0
  <1>1. Current \in Nat
        /\ (sink.conn # 0 => Current = sink.conn)
        /\ (sink.conn = 0 => Current \in {0, 1})
        /\ (sink.conn # 0 => InUse)
    BY Bounds DEF Current, InUse
  <1>2. Len(dst) \in Nat
    BY Lengths DEF Structure, TypeOK
  <1>3. \A k \in DOMAIN conn : /\ OnItsWay(conn[k]) \in Nat
                              /\ Len(conn[k].down) \in Nat
    <2> TAKE k \in DOMAIN conn
    <2>1. conn[k] \in Connections
      BY Bounds
    <2>2. QED
      BY <2>1, Carried
  <1>4. Total = Len(dst) + (IF Current \in DOMAIN conn
                            THEN OnItsWay(conn[Current]) ELSE 0)
    BY DEF Total, InUse
  <1>5. /\ Total = IF Current \in DOMAIN conn
                   THEN Len(dst) + OnItsWay(conn[Current]) ELSE Len(dst)
        /\ Total \in Nat
    BY <1>2, <1>3, <1>4
  <1>6. ASSUME src.conn # 0, src.conn # Current
        PROVE  src.conn \in DOMAIN conn /\ Stray = Len(conn[src.conn].down)
               /\ conn[src.conn].route = "direct"
    <2>1. src.conn \in DOMAIN conn
      BY <1>6, Bounds
    <2>2. conn[src.conn].route # "relay"
      BY <1>1, <1>6 DEF Structure, SourceFits
    <2>3. conn[src.conn].route = "direct"
      BY <2>1, <2>2, Bounds, ConnectionTyped
    <2>4. QED
      BY <1>6, <2>1, <2>3 DEF Stray
  <1>7. src.conn = Current => Stray = 0
    BY DEF Stray
  <1>8. Stray \in Nat
    <2>1. CASE src.conn # 0 /\ src.conn # Current
      BY <1>3, <1>6, <2>1
    <2>2. CASE ~ (src.conn # 0 /\ src.conn # Current)
      BY <2>2 DEF Stray
    <2>3. QED
      BY <2>1, <2>2
  <1>9. QED
    BY <1>1, <1>2, <1>5, <1>6, <1>7, <1>8

\* No step breaks the stream, or moves the offset away from its end.
LEMMA FlowStep ==
  ASSUME Structure, Ledger, Tally, Stream, OffsetFits, [Next]_vars
  PROVE  Stream' /\ OffsetFits'
  <1> DEFINE L == Len(conn)
             n == Len(dst)
             Flowing == Whole'
             /\ (InUse' => Continues(conn'[Current'], Len(dst')))
             Emptied == \A k \in DOMAIN conn' :
                          k # Current' /\ conn'[k].state = "cut"
                            => conn'[k].down = <<>>
             Matching ==
               /\ src'.at \in {"dialing", "waiting"} =>
                    IF restarted' THEN src'.offset <= Total'
                    ELSE src'.offset = Total'
               /\ src'.at = "sending" => src'.offset = Total' + Stray'
  <1> SUFFICES ASSUME Live', Accountable' PROVE Flowing /\ Emptied /\ Matching
    BY DEF Stream, OffsetFits
  <1>1. Live /\ Accountable /\ ~ lost'
    BY LiveBefore, HistoryStep DEF Accountable
  <1>2. /\ Whole
        /\ InUse => Continues(conn[Current], n)
        /\ \A k \in DOMAIN conn :
             k # Current /\ conn[k].state = "cut" => conn[k].down = <<>>
    BY <1>1 DEF Stream
  <1>3. /\ src.at \in {"dialing", "waiting"} =>
             IF restarted THEN src.offset <= Total ELSE src.offset = Total
        /\ src.at = "sending" => src.offset = Total + Stray
    BY <1>1 DEF OffsetFits
  <1>4. /\ conn \in Seq(Connections) /\ L \in Nat /\ DOMAIN conn = 1..L
        /\ n \in Nat /\ dst \in Seq(Nat)
        /\ (\A k \in DOMAIN conn : conn[k] \in Connections)
        /\ src.offset \in Nat /\ relayed \in Nat
        /\ lost \in BOOLEAN /\ restarted \in BOOLEAN
    BY Bounds, FlowTyped DEF Structure, TypeOK
  <1>5. Structure'
    BY StructureStep
  <1>6. /\ conn' \in Seq(Connections)
        /\ (\A k \in DOMAIN conn' : conn'[k] \in Connections)
        /\ restarted' \in BOOLEAN
    BY <1>5 DEF Structure, TypeOK
  <1>7. /\ Current' = IF sink'.conn # 0 \/ (sink'.at = "waiting" /\ sink'.tried)
                       THEN sink'.conn ELSE 1
        /\ InUse' = (Current' \in DOMAIN conn')
        /\ Total' = Len(dst') + (IF Current' \in DOMAIN conn'
                                 THEN OnItsWay(conn'[Current']) ELSE 0)
        /\ Stray' = IF src'.conn # 0 /\ src'.conn # Current'
                    THEN Len(conn'[src'.conn].down) ELSE 0
        /\ (InUse <=> Current \in DOMAIN conn)
    BY DEF Current, InUse, Total, Stray
  <1>8. (dst' = dst => Whole') /\ (restarted' = restarted \/ restarted')
    BY <1>2, <1>4, <1>6, HistoryStep DEF Whole
  <1> HIDE DEF L, n
  \* The sink's connection holds what it held before.
  <1>9. ASSUME dst' = dst, Current' = Current, DOMAIN conn' = DOMAIN conn,
               InUse => /\ Continues(conn'[Current], n)
                        /\ OnItsWay(conn'[Current]) = OnItsWay(conn[Current])
        PROVE  Flowing /\ Total' = Total
    <2>1. Flowing
      BY <1>7, <1>8, <1>9 DEF n
    <2>2. Total' = Total
      <3>1. CASE InUse
        <4>1. Total = n + OnItsWay(conn[Current])
          BY <1>7, <3>1, FlowTyped DEF n
        <4>2. Total' = n + OnItsWay(conn[Current])
          BY <1>7, <1>9, <3>1 DEF n
        <4>3. QED
          BY <4>1, <4>2
      <3>2. CASE ~ InUse
        <4>1. Total = n
          BY <1>7, <3>2, FlowTyped DEF n
        <4>2. Total' = n + 0
          BY <1>7, <1>9, <3>2 DEF n
        <4>3. QED
          BY <1>4, <4>1, <4>2
      <3>3. QED
        BY <3>1, <3>2
    <2>3. QED
      BY <2>1, <2>2
  \* Every connection holds what it held before.
  <1>10. ASSUME dst' = dst, Current' = Current, DOMAIN conn' = DOMAIN conn,
                src'.conn = src.conn,
                \A k \in DOMAIN conn :
                  /\ conn'[k].up = conn[k].up /\ conn'[k].down = conn[k].down
                  /\ conn'[k].state = "cut" =>
                       k = Current \/ conn[k].state = "cut" \/ conn[k].down = <<>>
         PROVE  Flowing /\ Emptied /\ Total' = Total /\ Stray' = Stray
    <2>1. InUse => /\ Continues(conn'[Current], n)
                   /\ OnItsWay(conn'[Current]) = OnItsWay(conn[Current])
      <3> SUFFICES ASSUME InUse
                   PROVE  /\ Continues(conn'[Current], n)
                          /\ OnItsWay(conn'[Current]) = OnItsWay(conn[Current])
        OBVIOUS
      <3>1. Current \in DOMAIN conn /\ conn[Current] \in Connections
            /\ conn'[Current].up = conn[Current].up
            /\ conn'[Current].down = conn[Current].down
        BY <1>4, <1>7, <1>10
      <3>2. QED
        BY <1>2, <1>4, <3>1, Same
    <2>2. Flowing /\ Total' = Total
      BY <1>9, <1>10, <2>1
    <2>3. Emptied
      BY <1>2, <1>10
    <2>4. Stray' = Stray
      <3>1. CASE src.conn # 0 /\ src.conn # Current
        BY <1>7, <1>10, <3>1, FlowTyped
      <3>2. CASE ~ (src.conn # 0 /\ src.conn # Current)
        BY <1>7, <1>10, <3>2 DEF Stray
      <3>3. QED
        BY <3>1, <3>2
    <2>5. QED
      BY <2>2, <2>3, <2>4
  \* The source stays where it is, or leaves a connection the sink reads.
  <1>11. ASSUME src'.offset = src.offset, restarted' = restarted,
                Total' = Total, Stray' = Stray,
                src'.at \in {"dialing", "waiting"} =>
                  src.at \in {"dialing", "waiting"}
                    \/ (src.at = "sending" /\ Stray = 0),
                src'.at = "sending" => src.at = "sending"
         PROVE  Matching
    <2>1. Total \in Nat /\ (Stray = 0 => Total + Stray = Total)
      BY FlowTyped
    <2>2. ASSUME src'.at \in {"dialing", "waiting"}
          PROVE  IF restarted' THEN src'.offset <= Total'
                 ELSE src'.offset = Total'
      <3>1. CASE src.at \in {"dialing", "waiting"}
        BY <1>3, <1>11, <3>1
      <3>2. CASE src.at = "sending" /\ Stray = 0
        <4>1. src'.offset = Total'
          BY <1>3, <1>11, <2>1, <3>2
        <4>2. Total' \in Nat
          BY <1>11, <2>1
        <4>3. QED
          BY <4>1, <4>2
      <3>3. QED
        BY <1>11, <2>2, <3>1, <3>2
    <2>3. src'.at = "sending" => src'.offset = Total' + Stray'
      BY <1>3, <1>11
    <2>4. QED
      BY <2>2, <2>3
  \* The source stays where it is, or fails.
  <1>12. ASSUME src'.offset = src.offset, restarted' = restarted,
                Total' = Total, Stray' = Stray,
                src'.at = src.at \/ src'.at = "failed"
                  \/ (src.at = "dialing" /\ src'.at = "waiting")
         PROVE  Matching
    <2>1. src'.at \in {"dialing", "waiting"} => src.at \in {"dialing", "waiting"}
      BY <1>12
    <2>2. src'.at = "sending" => src.at = "sending"
      BY <1>12
    <2>3. src'.at \in {"dialing", "waiting"} =>
             IF restarted' THEN src'.offset <= Total' ELSE src'.offset = Total'
      BY <1>3, <1>12, <2>1
    <2>4. src'.at = "sending" => src'.offset = Total' + Stray'
      BY <1>3, <1>12, <2>2
    <2>5. QED
      BY <2>3, <2>4
  <1> HIDE DEF Flowing, Emptied, Matching
  <1>13. CASE DialDirect
    <2>1. Added("direct") /\ dst' = dst /\ sink' = sink
          /\ restarted' = restarted
          /\ src'.conn = L + 1 /\ src'.at = "sending"
          /\ src'.offset = src.offset
          /\ src.at = "dialing"
      <3>1. Added("direct")
        BY <1>4, <1>13, DialDirectDoes
      <3>2. Len(conn') = L + 1
        BY <3>1 DEF Added, L
      <3>3. QED
        BY <1>13, <3>1, <3>2 DEF DialDirect, history, Structure, TypeOK
    <2>2. ~ restarted'
      <3>1. L + 1 \in Directs'
        BY <2>1, AddedRoutes DEF L
      <3>2. QED
        BY <3>1 DEF Accountable
    <2>3. src.offset = Total
      BY <1>3, <2>1, <2>2
    <2>4. /\ DOMAIN conn' = 1..(L + 1)
          /\ conn'[L + 1].up = <<>> /\ conn'[L + 1].down = <<>>
          /\ conn'[L + 1] \in Connections
          /\ \A k \in DOMAIN conn : conn'[k] = conn[k]
      BY <1>4, <1>6, <2>1 DEF Added, Connection, L
    <2>5. Current' = Current /\ Current \in Nat
      BY <1>7, <2>1, FlowTyped DEF Current
    <2>6. /\ Current \in DOMAIN conn' => Continues(conn'[Current], n)
          /\ Total' = Total
          /\ Current # L + 1 /\ Current # 0 => Current \in DOMAIN conn
      <3>0. CASE Current = 0
        <4>1. 0 \notin DOMAIN conn /\ 0 \notin DOMAIN conn'
          BY <1>4, <2>4
        <4>2. Total = n /\ Total' = n + 0
          BY <1>7, <2>1, <2>5, <3>0, <4>1, FlowTyped DEF n
        <4>3. QED
          BY <1>4, <3>0, <4>1, <4>2
      <3>1. CASE Current \in DOMAIN conn
        <4>1. Current \in DOMAIN conn' /\ conn'[Current] = conn[Current]
          BY <1>4, <2>4, <3>1
        <4>2. Continues(conn[Current], n)
          BY <1>2, <1>7, <3>1
        <4>3. Total = n + OnItsWay(conn[Current])
          BY <3>1, FlowTyped DEF n
        <4>4. Total' = n + OnItsWay(conn[Current])
          BY <1>7, <2>1, <2>5, <4>1 DEF n
        <4>5. QED
          BY <3>1, <4>1, <4>2, <4>3, <4>4
      <3>2. CASE Current \notin DOMAIN conn /\ Current # 0
        <4>1. Current = L + 1
          <5>1. sink.conn = 0 /\ Current = 1
            BY <1>7, <3>2, FlowTyped
          <5>2. L = 0
            BY <1>4, <3>2, <5>1
          <5>3. QED
            BY <5>1, <5>2
        <4>2. Current \in DOMAIN conn'
          BY <1>4, <2>4, <4>1
        <4>3. Continues(conn'[L + 1], n) /\ OnItsWay(conn'[L + 1]) = 0
          BY <1>4, <2>4, Same
        <4>4. Total = n
          BY <3>2, FlowTyped DEF n
        <4>5. Total' = n + 0
          BY <1>7, <2>1, <2>5, <4>1, <4>2, <4>3 DEF n
        <4>6. QED
          BY <1>4, <4>1, <4>2, <4>3, <4>4, <4>5
      <3>3. QED
        BY <3>0, <3>1, <3>2
    <2>7. Flowing
      BY <1>7, <1>8, <2>1, <2>5, <2>6 DEF n, Flowing
    <2>8. Emptied
      <3> SUFFICES ASSUME NEW k \in DOMAIN conn', k # Current,
                          conn'[k].state = "cut"
                   PROVE  conn'[k].down = <<>>
        BY <2>5 DEF Emptied
      <3>1. k = L + 1 \/ k \in DOMAIN conn
        BY <1>4, <2>4
      <3>2. QED
        BY <1>2, <2>4, <3>1
    <2>9. Stray' = 0
      <3>1. Len(conn'[L + 1].down) = 0
        BY <2>4
      <3>2. QED
        BY <1>7, <2>1, <3>1
    <2>10. Matching
      BY <2>1, <2>3, <2>6, <2>9, FlowTyped DEF Matching
    <2>11. QED
      BY <2>7, <2>8, <2>10
  <1>14. CASE Pair
    <2>1. Added("relay") /\ dst' = dst /\ restarted' = restarted
          /\ src.at = "waiting"
          /\ src'.conn = L + 1 /\ src'.at = "sending"
          /\ src'.offset = Larger(src.offset, relayed) /\ sink'.conn = L + 1
      <3>1. Added("relay")
        BY <1>4, <1>14, PairDoes
      <3>2. Len(conn') = L + 1
        BY <3>1 DEF Added, L
      <3>3. QED
        BY <1>14, <3>1, <3>2 DEF Pair, Structure, TypeOK
    <2>2. /\ DOMAIN conn' = 1..(L + 1)
          /\ conn'[L + 1].up = <<>> /\ conn'[L + 1].down = <<>>
          /\ conn'[L + 1] \in Connections
          /\ \A k \in DOMAIN conn : conn'[k] = conn[k]
      BY <1>4, <1>6, <2>1 DEF Added, Connection, L
    <2>3. Current' = L + 1 /\ L + 1 \in DOMAIN conn'
      BY <1>4, <1>7, <2>1, <2>2
    <2>4. Continues(conn'[L + 1], n) /\ OnItsWay(conn'[L + 1]) = 0
      BY <1>4, <2>2, Same
    <2>5. Total' = n
      <3>1. Total' = n + 0
        BY <1>7, <2>1, <2>3, <2>4 DEF n
      <3>2. QED
        BY <1>4, <3>1
    <2>6. Flowing
      BY <1>7, <1>8, <2>1, <2>3, <2>4 DEF n, Flowing
    <2>7. Emptied
      <3> SUFFICES ASSUME NEW k \in DOMAIN conn', k # L + 1,
                          conn'[k].state = "cut"
                   PROVE  conn'[k].down = <<>>
        BY <2>3 DEF Emptied
      <3>1. k \in DOMAIN conn /\ conn'[k] = conn[k] /\ conn # <<>>
        BY <1>4, <2>2
      <3>2. CASE k # Current
        BY <1>2, <3>1, <3>2
      <3>3. CASE k = Current
        BY <1>14, <3>1, <3>3, NothingOnItsWay, FlowTyped
      <3>4. QED
        BY <3>2, <3>3
    <2>8. Stray' = 0
      BY <1>7, <2>1, <2>3
    <2>9. Total = n
      <3>1. CASE sink.conn = 0
        <4>1. Current \notin DOMAIN conn
          BY <1>14, <3>1, NothingOnItsWay
        <4>2. QED
          BY <4>1, FlowTyped DEF n
      <3>2. CASE sink.conn # 0
        <4>1. Current = sink.conn /\ Current \in DOMAIN conn
              /\ conn[Current].up = <<>> /\ conn[Current].down = <<>>
          BY <1>7, <1>14, <3>2, NothingOnItsWay, FlowTyped
        <4>2. OnItsWay(conn[Current]) = 0
          BY <1>4, <4>1, Same
        <4>3. Total = n + 0
          BY <4>1, <4>2, FlowTyped DEF n
        <4>4. QED
          BY <1>4, <4>3
      <3>3. QED
        BY <3>1, <3>2
    <2>10. Larger(src.offset, relayed) = n
      <3>1. CASE ~ restarted
        <4>1. src.offset = n
          BY <1>3, <2>1, <2>9, <3>1
        <4>2. relayed <= src.offset
          <5>1. Accounted(conn, relayed, src.offset)
            BY <3>1 DEF Ledger
          <5>2. QED
            BY <1>4, <5>1, AccountedBounds
        <4>3. QED
          BY <1>4, <4>1, <4>2, Told
      <3>2. CASE restarted
        <4>1. src.offset <= n
          BY <1>3, <2>1, <2>9, <3>2
        <4>2. Directs = {} /\ ~ lost /\ ~ overlapped'
          BY <1>1, <2>1, <3>2 DEF Accountable
        <4>3. relayed = n
          BY <1>14, <4>2, ToldWhenPairing DEF n
        <4>4. QED
          BY <1>4, <4>1, <4>3, Told
      <3>3. QED
        BY <3>1, <3>2
    <2>11. Matching
      BY <1>4, <2>1, <2>5, <2>8, <2>10 DEF Matching
    <2>12. QED
      BY <2>6, <2>7, <2>11
  <1>15. ASSUME Write, src.conn = Current PROVE Flowing /\ Emptied /\ Matching
    <2> DEFINE v == src.offset + 1
               c == conn[Current]
               e == conn'[Current]
    <2>1. /\ Current \in DOMAIN conn /\ c \in Connections /\ e \in Connections
          /\ c.route \in {"direct", "relay"} /\ c.state # "cut"
          /\ src.at = "sending" /\ src'.at = "sending" /\ src'.conn = Current
          /\ src'.offset = v /\ dst' = dst /\ sink' = sink
          /\ restarted' = restarted
      <3>1. src.at = "sending" /\ src.conn \in DOMAIN conn
        BY <1>15, Bounds DEF Write
      <3>2. conn[src.conn].state # "cut"
        BY <1>15 DEF Write
      <3>3. src'.at = "sending" /\ src'.conn = src.conn /\ src'.offset = v
            /\ dst' = dst /\ sink' = sink /\ restarted' = restarted
        BY <1>15 DEF Write, history, Structure, TypeOK
      <3>4. Current \in DOMAIN conn'
        <4>1. InUse' /\ Current' = Current
          <5>1. DOMAIN conn' = DOMAIN conn
            BY <1>4, <1>15, <3>1, ConnectionTyped, WriteDirectDoes,
               WriteRelayDoes
            DEF Changed
          <5>2. QED
            BY <1>7, <1>15, <3>1, <3>3, <5>1 DEF Current
        <4>2. QED
          BY <1>7, <4>1
      <3>5. QED
        BY <1>4, <1>6, <1>15, <3>1, <3>2, <3>3, <3>4, ConnectionTyped
    <2>2. /\ DOMAIN conn' = DOMAIN conn
          /\ \A k \in DOMAIN conn : k # Current => conn'[k] = conn[k]
          /\ e.state = c.state
          /\ \/ e.up = <<>> /\ c.up = <<>> /\ e.down = Append(c.down, v)
             \/ e.down = c.down /\ e.up = Append(c.up, v)
      <3>1. CASE c.route = "direct"
        <4>1. Changed(Current, c.up, Append(c.down, v),
                      c.state, c.copied, c.settled)
          BY <1>4, <1>15, <2>1, <3>1, WriteDirectDoes
        <4>2. c.up = <<>>
          BY <2>1, <3>1 DEF Structure, ConnectionFits, Fitting
        <4>3. QED
          BY <4>1, <4>2 DEF Changed
      <3>2. CASE c.route = "relay"
        <4>1. Changed(Current, Append(c.up, v), c.down,
                      c.state, c.copied, c.settled)
          BY <1>4, <1>15, <2>1, <3>2, WriteRelayDoes
        <4>2. QED
          BY <4>1 DEF Changed
      <3>3. QED
        BY <2>1, <3>1, <3>2
    <2>3. Current' = Current
      BY <2>1 DEF Current
    <2>4. Total = n + OnItsWay(c) /\ Stray = 0 /\ OnItsWay(c) \in Nat
      BY <1>15, <2>1, FlowTyped, Carried DEF n
    <2>5. v = n + OnItsWay(c) + 1 /\ v \in Nat
      <3>1. src.offset = n + OnItsWay(c) + 0
        BY <1>3, <2>1, <2>4
      <3>2. QED
        BY <1>4, <2>4, <3>1
    <2>6. Continues(c, n)
      BY <1>2, <1>7, <2>1
    <2> HIDE DEF v, c, e
    <2>7. Continues(e, n) /\ OnItsWay(e) = OnItsWay(c) + 1
      BY <1>4, <2>1, <2>2, <2>5, <2>6, WritingContinues, SendingContinues
    <2>8. Flowing
      BY <1>7, <1>8, <2>1, <2>2, <2>3, <2>7 DEF n, e, Flowing
    <2>9. Emptied
      BY <1>2, <2>2, <2>3 DEF Emptied
    <2>10. Matching
      <3>1. Total' = n + (OnItsWay(c) + 1)
        BY <1>7, <2>1, <2>2, <2>3, <2>7 DEF n, e
      <3>2. Stray' = 0
        BY <1>7, <2>1, <2>3
      <3>3. src'.offset = Total' + Stray'
        BY <1>4, <2>1, <2>4, <2>5, <3>1, <3>2
      <3>4. QED
        BY <2>1, <3>3 DEF Matching
    <2>11. QED
      BY <2>8, <2>9, <2>10
  <1>16. ASSUME Write, src.conn # Current PROVE Flowing /\ Emptied /\ Matching
    <2> DEFINE s == src.conn
    <2>1. /\ s \in DOMAIN conn /\ conn[s].route = "direct"
          /\ conn[s].state # "cut" /\ Stray = Len(conn[s].down)
          /\ src.at = "sending"
      BY <1>16, Bounds, FlowTyped DEF Write, Structure, SourceFits
    <2>2. src'.at = "sending" /\ src'.conn = s /\ src'.offset = src.offset + 1
          /\ dst' = dst /\ sink' = sink
      BY <1>16 DEF Write, history, Structure, TypeOK
    <2>3. Changed(s, conn[s].up, Append(conn[s].down, src.offset + 1),
                  conn[s].state, conn[s].copied, conn[s].settled)
      BY <1>4, <1>16, <2>1, WriteDirectDoes
    <2> HIDE DEF s
    <2>4. Current' = Current
      BY <2>2 DEF Current
    <2>5. /\ DOMAIN conn' = DOMAIN conn /\ conn'[s].state # "cut"
          /\ conn'[s].down = Append(conn[s].down, src.offset + 1)
          /\ \A k \in DOMAIN conn : k # s => conn'[k] = conn[k]
      BY <2>1, <2>3 DEF Changed
    <2>6. Current # s /\ s # 0
      BY <1>4, <1>16, <2>1 DEF s
    <2>7. Flowing /\ Total' = Total
      BY <1>2, <1>7, <1>9, <2>2, <2>4, <2>5, <2>6
    <2>8. Emptied
      BY <1>2, <2>4, <2>5 DEF Emptied
    <2>9. Stray' = Stray + 1 /\ Stray \in Nat
      <3>1. conn[s].down \in Seq(Nat) /\ src.offset + 1 \in Nat
        BY <1>4, <2>1, ConnectionTyped
      <3>2. Len(conn'[s].down) = Len(conn[s].down) + 1
        BY <2>5, <3>1, AppendTo
      <3>3. QED
        BY <1>7, <2>1, <2>2, <2>4, <2>6, <3>2, FlowTyped
    <2>10. src'.offset = Total' + Stray'
      <3>1. src'.offset = (Total + Stray) + 1
        BY <1>3, <2>1, <2>2
      <3>2. Total \in Nat
        BY FlowTyped
      <3>3. QED
        BY <2>7, <2>9, <3>1, <3>2
    <2>11. Matching
      BY <2>2, <2>10 DEF Matching
    <2>12. QED
      BY <2>7, <2>8, <2>11
  <1>17. ASSUME NEW k \in Relays, Copy(k) PROVE Flowing /\ Emptied /\ Matching
    <2>1. Changed(k, Tail(conn[k].up), Append(conn[k].down, conn[k].up[1]),
                  conn[k].state, conn[k].copied + 1, conn[k].settled)
          /\ k \in DOMAIN conn /\ conn[k].route = "relay"
      BY <1>4, <1>17, CopyDoes DEF Relays
    <2>2. src' = src /\ sink' = sink /\ dst' = dst /\ restarted' = restarted
          /\ conn[k].state # "cut" /\ conn[k].up # <<>>
      BY <1>17 DEF Copy, ends, history
    <2>3. Current' = Current
      BY <2>2 DEF Current
    <2>4. /\ DOMAIN conn' = DOMAIN conn /\ conn'[k].state # "cut"
          /\ conn'[k].up = Tail(conn[k].up)
          /\ conn'[k].down = Append(conn[k].down, conn[k].up[1])
          /\ \A j \in DOMAIN conn : j # k => conn'[j] = conn[j]
      BY <2>1, <2>2 DEF Changed
    <2>5. InUse => /\ Continues(conn'[Current], n)
                   /\ OnItsWay(conn'[Current]) = OnItsWay(conn[Current])
      <3> SUFFICES ASSUME InUse
                   PROVE  /\ Continues(conn'[Current], n)
                          /\ OnItsWay(conn'[Current]) = OnItsWay(conn[Current])
        OBVIOUS
      <3>1. Current \in DOMAIN conn /\ Continues(conn[Current], n)
        BY <1>2, <1>7
      <3>2. CASE k = Current
        <4> DEFINE c == conn[Current]
                   e == conn'[Current]
        <4>1. c \in Connections /\ e \in Connections
          BY <1>4, <1>6, <2>4, <3>1
        <4>2. c.up # <<>> /\ e.up = Tail(c.up) /\ e.down = Append(c.down, c.up[1])
          BY <2>2, <2>4, <3>2
        <4> HIDE DEF c, e
        <4>3. Continues(e, n) /\ OnItsWay(e) = OnItsWay(c)
          BY <1>4, <3>1, <4>1, <4>2, CopyingContinues DEF c
        <4>4. QED
          BY <4>3 DEF c, e
      <3>3. CASE k # Current
        BY <2>4, <3>1, <3>3
      <3>4. QED
        BY <3>2, <3>3
    <2>6. Flowing /\ Total' = Total
      BY <1>9, <2>2, <2>3, <2>4, <2>5
    <2>7. Emptied
      BY <1>2, <2>3, <2>4 DEF Emptied
    <2>8. Stray' = Stray
      <3>1. CASE src.conn # 0 /\ src.conn # Current
        <4>1. src.conn \in DOMAIN conn /\ src.conn # k
          BY <2>1, <3>1, FlowTyped
        <4>2. QED
          BY <1>7, <2>2, <2>3, <2>4, <3>1, <4>1, FlowTyped
      <3>2. CASE ~ (src.conn # 0 /\ src.conn # Current)
        BY <1>7, <2>2, <2>3, <3>2 DEF Stray
      <3>3. QED
        BY <3>1, <3>2
    <2>9. src'.offset = src.offset /\ src'.at = src.at
      BY <2>2
    <2>10. Matching
      BY <1>12, <2>2, <2>6, <2>8, <2>9
    <2>11. QED
      BY <2>6, <2>7, <2>10
  <1>18. CASE Read
    <2> DEFINE c == conn[Current]
               e == conn'[Current]
    <2>1. /\ sink.conn \in DOMAIN conn /\ Current = sink.conn
          /\ sink.conn # 0
      BY <1>4, <1>18, Bounds, FlowTyped DEF Read
    <2>2. Changed(Current, c.up, Tail(c.down), c.state, c.copied, c.settled)
      BY <1>4, <1>18, <2>1, ReadDoes
    <2>3. /\ src' = src /\ sink' = sink /\ restarted' = restarted
          /\ c.down # <<>> /\ dst' = Append(dst, Head(c.down))
      BY <1>18, <2>1 DEF Read, history
    <2>4. /\ DOMAIN conn' = DOMAIN conn /\ e.down = Tail(c.down) /\ e.up = c.up
          /\ e.state = c.state
          /\ \A j \in DOMAIN conn : j # Current => conn'[j] = conn[j]
      BY <2>2 DEF Changed
    <2>5. c \in Connections /\ e \in Connections /\ Continues(c, n)
          /\ Current \in DOMAIN conn /\ Current' = Current
      BY <1>2, <1>4, <1>6, <1>7, <2>1, <2>3, <2>4 DEF Current
    <2>6. Total = n + OnItsWay(c)
      BY <2>5, FlowTyped DEF n
    <2> HIDE DEF c, e
    <2>7. /\ Head(c.down) = n + 1
          /\ Continues(e, n + 1) /\ n + 1 + OnItsWay(e) = n + OnItsWay(c)
      BY <1>4, <2>3, <2>4, <2>5, ReadingContinues
    <2>8. n + 1 \in Nat /\ dst' = Append(dst, n + 1)
      BY <1>4, <2>3, <2>7
    <2>9. /\ Len(dst') = n + 1 /\ DOMAIN dst' = 1..(n + 1)
          /\ \A i \in 1..n : dst'[i] = dst[i]
          /\ dst'[n + 1] = n + 1
      BY <1>4, <2>8, AppendTo DEF n
    <2>10. Whole'
      <3>1. \A i \in 1..n : dst[i] = i
        BY <1>2, <1>4, Lengths DEF Whole, n
      <3>2. \A i \in 1..(n + 1) : i \in 1..n \/ i = n + 1
        BY <1>4
      <3>3. \A i \in DOMAIN dst' : dst'[i] = i
        BY <2>9, <3>1, <3>2
      <3>4. QED
        BY <3>3 DEF Whole
    <2>11. Flowing
      BY <1>7, <2>5, <2>7, <2>9, <2>10 DEF e, Flowing
    <2>12. Total' = Total
      <3>1. Total' = n + 1 + OnItsWay(e)
        BY <1>7, <2>4, <2>5, <2>9 DEF e
      <3>2. QED
        BY <2>6, <2>7, <3>1
    <2>13. Stray' = Stray
      <3>1. CASE src.conn # 0 /\ src.conn # Current
        BY <1>7, <2>3, <2>4, <2>5, <3>1, FlowTyped
      <3>2. CASE ~ (src.conn # 0 /\ src.conn # Current)
        BY <1>7, <2>3, <2>5, <3>2 DEF Stray
      <3>3. QED
        BY <3>1, <3>2
    <2>14. Emptied
      BY <1>2, <2>4, <2>5 DEF Emptied
    <2>15. src'.offset = src.offset /\ src'.at = src.at
      BY <2>3
    <2>16. Matching
      BY <1>12, <2>3, <2>12, <2>13, <2>15
    <2>17. QED
      BY <2>11, <2>14, <2>16
  <1>19. CASE Restart
    <2>1. Changed(src.conn, conn[src.conn].up, conn[src.conn].down,
                  (IF conn[src.conn].state = "open" THEN "closed"
                   ELSE conn[src.conn].state),
                  conn[src.conn].copied, conn[src.conn].settled)
          /\ src.conn \in DOMAIN conn
      BY <1>4, <1>19, Bounds, RestartDoes DEF HangsUp, Restart
    <2>2. src'.at = "dialing" /\ src'.offset = 0 /\ src'.conn = src.conn
          /\ sink' = sink /\ dst' = dst /\ restarted' = TRUE
      BY <1>19 DEF Restart, Structure, TypeOK
    <2>3. Current' = Current
      BY <2>2 DEF Current
    <2>4. /\ DOMAIN conn' = DOMAIN conn
          /\ \A k \in DOMAIN conn :
               /\ conn'[k].up = conn[k].up /\ conn'[k].down = conn[k].down
               /\ conn'[k].state = "cut" => conn[k].state = "cut"
      BY <2>1 DEF Changed
    <2>5. Flowing /\ Emptied /\ Total' = Total
      BY <1>10, <2>2, <2>3, <2>4
    <2>6. Matching
      BY <2>2, <2>5, FlowTyped DEF Matching
    <2>7. QED
      BY <2>5, <2>6
  <1>20. CASE Sent
    <2>1. Changed(src.conn, conn[src.conn].up, conn[src.conn].down,
                  (IF conn[src.conn].state = "open" THEN "closed"
                   ELSE conn[src.conn].state),
                  conn[src.conn].copied, conn[src.conn].settled)
          /\ src.conn \in DOMAIN conn
      BY <1>4, <1>20, Bounds, SentDoes DEF HangsUp, Sent
    <2>2. src'.at = "done" /\ src'.offset = src.offset /\ src'.conn = src.conn
          /\ sink' = sink /\ dst' = dst /\ restarted' = restarted
      BY <1>20 DEF Sent, history, Structure, TypeOK
    <2>3. Current' = Current
      BY <2>2 DEF Current
    <2>4. /\ DOMAIN conn' = DOMAIN conn
          /\ \A k \in DOMAIN conn :
               /\ conn'[k].up = conn[k].up /\ conn'[k].down = conn[k].down
               /\ conn'[k].state = "cut" => conn[k].state = "cut"
      BY <2>1 DEF Changed
    <2>5. Flowing /\ Emptied
      BY <1>10, <2>2, <2>3, <2>4
    <2>6. Matching
      BY <2>2 DEF Matching
    <2>7. QED
      BY <2>5, <2>6
  <1>21. ASSUME NEW k \in Relays, Settle(k) PROVE Flowing /\ Emptied /\ Matching
    <2>1. Changed(k, conn[k].up, conn[k].down,
                  conn[k].state, conn[k].copied, TRUE)
      BY <1>4, <1>21, SettleDoes DEF Relays
    <2>2. src' = src /\ sink' = sink /\ dst' = dst /\ restarted' = restarted
      BY <1>21 DEF Settle, ends, history
    <2>3. Current' = Current /\ src'.at = src.at /\ src'.offset = src.offset
          /\ src'.conn = src.conn
      BY <2>2 DEF Current
    <2>4. /\ DOMAIN conn' = DOMAIN conn
          /\ \A j \in DOMAIN conn :
               /\ conn'[j].up = conn[j].up /\ conn'[j].down = conn[j].down
               /\ conn'[j].state = conn[j].state
      BY <2>1 DEF Changed
    <2>5. Flowing /\ Emptied /\ Total' = Total /\ Stray' = Stray
      BY <1>10, <2>2, <2>3, <2>4
    <2>6. Matching
      BY <1>12, <2>2, <2>3, <2>5
    <2>7. QED
      BY <2>5, <2>6
  <1>22. CASE ReadEnds
    <2>1. sink.conn \in DOMAIN conn /\ Current = sink.conn
      BY <1>4, <1>22, Bounds, FlowTyped DEF ReadEnds
    <2>2. Changed(sink.conn, conn[sink.conn].up, conn[sink.conn].down,
                  "cut", conn[sink.conn].copied, conn[sink.conn].settled)
      BY <1>4, <1>22, <2>1, ReadEndsDoes
    <2>3. src' = src /\ sink'.conn = sink.conn /\ dst' = dst
          /\ restarted' = restarted
      BY <1>22 DEF ReadEnds, history, Structure, TypeOK
    <2>4. Current' = Current /\ src'.at = src.at /\ src'.offset = src.offset
          /\ src'.conn = src.conn
      BY <1>4, <2>1, <2>3 DEF Current
    <2>5. /\ DOMAIN conn' = DOMAIN conn
          /\ \A j \in DOMAIN conn :
               /\ conn'[j].up = conn[j].up /\ conn'[j].down = conn[j].down
               /\ j # Current => conn'[j].state = conn[j].state
      BY <2>1, <2>2 DEF Changed
    <2>6. Flowing /\ Emptied /\ Total' = Total /\ Stray' = Stray
      BY <1>10, <2>3, <2>4, <2>5
    <2>7. Matching
      BY <1>12, <2>3, <2>4, <2>6
    <2>8. QED
      BY <2>6, <2>7
  <1>23. ASSUME NEW k \in DOMAIN conn, Break(k)
         PROVE  Flowing /\ Emptied /\ Matching
    <2>1. PICK d \in Seq(Nat) :
            /\ Changed(k, <<>>, d, "cut", conn[k].copied, conn[k].settled)
            /\ d = conn[k].down /\ conn[k].up = <<>>
            /\ d = <<>> \/ Readable(k)
      BY <1>1, <1>4, <1>23, BreakDoes
    <2>2. src' = src /\ sink' = sink /\ dst' = dst /\ restarted' = restarted
      BY <1>23 DEF Break, ends
    <2>3. Current' = Current /\ src'.at = src.at /\ src'.offset = src.offset
          /\ src'.conn = src.conn
      BY <2>2 DEF Current
    <2>4. conn[k].down = <<>> \/ k = Current
      <3>1. k # 0
        BY <1>4
      <3>2. Readable(k) => k = Current
        BY <3>1 DEF Readable, Current
      <3>3. QED
        BY <2>1, <3>2
    <2>5. /\ DOMAIN conn' = DOMAIN conn
          /\ conn'[k].up = conn[k].up /\ conn'[k].down = conn[k].down
          /\ \A j \in DOMAIN conn : j # k => conn'[j] = conn[j]
      BY <2>1 DEF Changed
    <2>6. Flowing /\ Emptied /\ Total' = Total /\ Stray' = Stray
      <3>1. ASSUME NEW j \in DOMAIN conn
            PROVE  /\ conn'[j].up = conn[j].up /\ conn'[j].down = conn[j].down
                   /\ conn'[j].state = "cut" =>
                        j = Current \/ conn[j].state = "cut" \/ conn[j].down = <<>>
        <4>1. CASE j = k
          BY <2>4, <2>5, <4>1
        <4>2. CASE j # k
          BY <2>5, <4>2
        <4>3. QED
          BY <4>1, <4>2
      <3>2. QED
        BY <1>10, <2>2, <2>3, <2>5, <3>1
    <2>7. Matching
      BY <1>12, <2>2, <2>3, <2>6
    <2>8. QED
      BY <2>6, <2>7
  <1>24. CASE WriteFails
    <2>1. src.at = "sending" /\ src.conn \in DOMAIN conn
          /\ conn[src.conn].state = "cut"
      BY <1>24, Bounds DEF WriteFails
    <2>2. src'.at \in {"dialing", "failed"} /\ src'.offset = src.offset
          /\ src'.conn = src.conn
      BY <1>24 DEF WriteFails, Structure, TypeOK
    <2>3. sink' = sink /\ dst' = dst /\ conn' = conn
          /\ restarted' = restarted
      BY <1>24 DEF WriteFails, history
    <2>4. Current' = Current
      BY <2>3 DEF Current
    <2>5. Flowing /\ Emptied /\ Total' = Total /\ Stray' = Stray
      BY <1>10, <2>2, <2>3, <2>4
    <2>6. Stray = 0
      <3>1. CASE src.conn = Current
        BY <3>1, FlowTyped
      <3>2. CASE src.conn # Current
        <4>1. conn[src.conn].down = <<>>
          BY <1>2, <2>1, <3>2
        <4>2. Len(conn[src.conn].down) = 0
          BY <4>1
        <4>3. src.conn # 0
          BY <1>4, <2>1
        <4>4. QED
          BY <3>2, <4>2, <4>3, FlowTyped
      <3>3. QED
        BY <3>1, <3>2
    <2>7. Matching
      BY <1>11, <2>1, <2>2, <2>3, <2>5, <2>6
    <2>8. QED
      BY <2>5, <2>7
  <1>25. ASSUME conn' = conn, dst' = dst, restarted' = restarted,
                Current' = Current,
                src'.conn = src.conn, src'.offset = src.offset,
                src'.at = src.at \/ src'.at = "failed"
                  \/ (src.at = "dialing" /\ src'.at = "waiting")
         PROVE  Flowing /\ Emptied /\ Matching
    <2>1. Flowing /\ Emptied /\ Total' = Total /\ Stray' = Stray
      BY <1>10, <1>25
    <2>2. restarted' = restarted
      BY <1>25
    <2>3. Matching
      BY <1>25, <1>12, <2>1, <2>2
    <2>4. QED
      BY <2>1, <2>3
  <1>26. CASE DialRelay
    <2>1. src'.at \in {"waiting", "failed"} /\ src.at = "dialing"
          /\ src'.offset = src.offset /\ src'.conn = src.conn
      BY <1>26 DEF DialRelay, Structure, TypeOK
    <2>2. conn' = conn /\ dst' = dst /\ restarted' = restarted /\ sink' = sink
      BY <1>26 DEF DialRelay, history
    <2>3. Current' = Current
      BY <2>2 DEF Current
    <2>4. QED
      BY <1>25, <2>1, <2>2, <2>3
  <1>27. CASE SourceTimesOut \/ (RelayRefuses /\ sink' = sink)
    <2>1. src'.at = "failed" \/ src'.at = src.at
      BY <1>27 DEF SourceTimesOut, RelayRefuses, Structure, TypeOK
    <2>2. src'.offset = src.offset /\ src'.conn = src.conn
      BY <1>27 DEF SourceTimesOut, RelayRefuses, Structure, TypeOK
    <2>3. conn' = conn /\ dst' = dst /\ restarted' = restarted /\ sink' = sink
      BY <1>27 DEF SourceTimesOut, RelayRefuses, history
    <2>4. Current' = Current
      BY <2>3 DEF Current
    <2>5. QED
      BY <1>25, <2>1, <2>2, <2>3, <2>4
  <1>28. CASE Listen \/ JoinRelay \/ SinkTimesOut \/ (RelayRefuses /\ src' = src)
    <2>1. conn' = conn /\ dst' = dst /\ restarted' = restarted /\ src' = src
          /\ src'.at = src.at /\ src'.offset = src.offset
          /\ src'.conn = src.conn
      BY <1>28 DEF Listen, JoinRelay, SinkTimesOut, RelayRefuses, history
    <2>2. /\ sink'.conn = sink.conn
          /\ sink.conn # 0 \/ ~ sink.tried \/ sink' = sink
          /\ sink'.tried = sink.tried \/ sink'.at = "accepting"
          /\ sink.at = "waiting" => sink' = sink
      BY <1>28 DEF Listen, JoinRelay, SinkTimesOut, RelayRefuses, Structure,
         TypeOK, SinkFits, Live
    <2>3. Current' = Current
      BY <2>2 DEF Current
    <2>4. QED
      BY <1>25, <2>1, <2>3
  <1>29. CASE Accept
    <2>1. conn' = conn /\ dst' = dst /\ restarted' = restarted /\ src' = src
          /\ src'.at = src.at /\ src'.offset = src.offset
          /\ src'.conn = src.conn
      BY <1>29 DEF Accept, history
    <2>2. sink'.conn = 1 /\ sink.conn = 0 /\ sink.at = "accepting"
      BY <1>29 DEF Accept, Structure, TypeOK, SinkFits
    <2>3. Current' = Current
      BY <2>2 DEF Current
    <2>4. QED
      BY <1>25, <2>1, <2>3
  <1>30. CASE PathGone \/ (\E side \in {"source", "sink"} : Cancel(side))
                \/ UNCHANGED vars
    <2>1. conn' = conn /\ dst' = dst /\ restarted' = restarted /\ src' = src
          /\ sink' = sink /\ src'.at = src.at /\ src'.offset = src.offset
          /\ src'.conn = src.conn
      BY <1>30 DEF PathGone, Cancel, vars, ends, history
    <2>2. Current' = Current
      BY <2>1 DEF Current
    <2>3. QED
      BY <1>25, <2>1, <2>2
  <1>31. ~ WriteIntoTheVoid /\ ~ DstWriteFails
    BY <1>1 DEF WriteIntoTheVoid, DstWriteFails
  <1>32. ~ Received /\ ~ AcceptCancelled
    BY DEF Received, AcceptCancelled, Live, Structure, TypeOK
  <1>33. RelayRefuses => sink' = sink \/ src' = src
    BY DEF RelayRefuses
  <1>35. CASE ReadAtFails
    <2>1. Changed(src.conn, conn[src.conn].up, conn[src.conn].down,
                  (IF conn[src.conn].state = "open" THEN "closed"
                   ELSE conn[src.conn].state),
                  conn[src.conn].copied, conn[src.conn].settled)
          /\ src.conn \in DOMAIN conn /\ src.at = "sending"
      BY <1>4, <1>35, Bounds, ReadAtFailsDoes DEF HangsUp, ReadAtFails
    <2>2. src'.at \in {"dialing", "failed"} /\ src'.offset = src.offset
          /\ src'.conn = src.conn
      BY <1>35 DEF ReadAtFails, Structure, TypeOK
    <2>3. sink' = sink /\ dst' = dst /\ restarted' = restarted
          /\ (Readable(src.conn) \/ conn[src.conn].down = <<>>)
      BY <1>1, <1>35 DEF ReadAtFails
    <2>4. Current' = Current
      BY <2>3 DEF Current
    <2>5. /\ DOMAIN conn' = DOMAIN conn
          /\ \A k \in DOMAIN conn :
               /\ conn'[k].up = conn[k].up /\ conn'[k].down = conn[k].down
               /\ conn'[k].state = "cut" => conn[k].state = "cut"
      BY <2>1 DEF Changed
    <2>6. Flowing /\ Emptied /\ Total' = Total /\ Stray' = Stray
      BY <1>10, <2>2, <2>3, <2>4, <2>5
    <2>7. Stray = 0
      <3>1. src.conn # 0
        BY <1>4, <2>1
      <3>2. CASE src.conn = Current
        BY <3>2, FlowTyped
      <3>3. CASE src.conn # Current
        <4>1. ~ Readable(src.conn)
          BY <3>1, <3>3 DEF Readable, Current
        <4>2. Len(conn[src.conn].down) = 0
          BY <2>3, <4>1
        <4>3. QED
          BY <3>1, <3>3, <4>2, FlowTyped
      <3>4. QED
        BY <3>2, <3>3
    <2>8. Matching
      BY <1>11, <2>1, <2>2, <2>3, <2>6, <2>7
    <2>9. QED
      BY <2>6, <2>8
  <1>36. CASE AcceptFails
    <2>1. /\ conn' = conn /\ dst' = dst /\ restarted' = restarted /\ src' = src
          /\ src'.at = src.at /\ src'.offset = src.offset
          /\ src'.conn = src.conn
          /\ 1 \in Directs => conn[1].down = <<>>
      BY <1>1, <1>36 DEF AcceptFails
    <2>2. sink'.at = "waiting" /\ sink'.tried /\ sink'.conn = 0
          /\ sink.at = "accepting" /\ sink.conn = 0
      BY <1>36 DEF AcceptFails, Structure, TypeOK, SinkFits, Live
    <2>3. Current = 1 /\ Current' = 0
      BY <2>2 DEF Current
    <2>4. 1 \in DOMAIN conn => conn[1].up = <<>> /\ conn[1].down = <<>>
      <3> SUFFICES ASSUME 1 \in DOMAIN conn
                   PROVE  conn[1].up = <<>> /\ conn[1].down = <<>>
        OBVIOUS
      <3>1. conn[1].route = "direct"
        BY <1>4, <2>2, ConnectionTyped DEF Structure, SinkFits, Relays
      <3>2. QED
        BY <2>1, <3>1 DEF Directs, Structure, ConnectionFits, Fitting
    <2>5. Total = n /\ Total' = n
      <3>1. 1 \in DOMAIN conn => OnItsWay(conn[1]) = 0
        BY <1>4, <2>4, Same
      <3>2. Total = n
        BY <1>4, <2>3, <3>1, FlowTyped DEF n
      <3>3. 0 \notin DOMAIN conn'
        BY <1>4, <2>1
      <3>4. Total' = n + 0
        BY <1>7, <2>1, <2>3, <3>3 DEF n
      <3>5. QED
        BY <1>4, <3>2, <3>4
    <2>6. Stray' = Stray
      <3>1. CASE src.conn \in {0, 1}
        <4>1. src.conn = 1 => 1 \in DOMAIN conn
          BY Bounds
        <4>2. src.conn = 1 => Len(conn[1].down) = 0
          BY <2>4, <4>1
        <4>3. Stray' = 0
          BY <1>7, <2>1, <2>3, <3>1, <4>2
        <4>4. Stray = 0
          BY <2>3, <3>1 DEF Stray
        <4>5. QED
          BY <4>3, <4>4
      <3>2. CASE src.conn \notin {0, 1}
        BY <1>7, <2>1, <2>3, <3>2 DEF Stray
      <3>3. QED
        BY <3>1, <3>2
    <2>7. Flowing
      <3>1. ~ InUse'
        <4>1. 0 \notin DOMAIN conn'
          BY <1>4, <2>1
        <4>2. QED
          BY <1>7, <2>3, <4>1
      <3>2. QED
        BY <1>8, <2>1, <3>1 DEF Flowing
    <2>8. Emptied
      BY <1>2, <2>1, <2>3, <2>4 DEF Emptied
    <2>9. Matching
      BY <1>12, <2>1, <2>5, <2>6
    <2>10. QED
      BY <2>7, <2>8, <2>9
  <1>34. QED
    BY <1>13, <1>14, <1>15, <1>16, <1>17, <1>18, <1>19, <1>20, <1>21, <1>22,
       <1>23, <1>24, <1>26, <1>27, <1>28, <1>29, <1>30, <1>31, <1>32, <1>33, <1>35, <1>36
    DEF Next, Send, Receive, Relaying

-----------------------------------------------------------------------------
(* The theorems.                                                           *)

\* What the sink has written stays in order, Receive running or returned.
LEMMA InOrderStep ==
  ASSUME Structure, Stream, InOrder, [Next]_vars, Stream'
  PROVE  InOrder'
  <1> SUFFICES ASSUME ~ lost', restarted' => Directs' = {} /\ ~ overlapped'
               PROVE  Whole'
    BY DEF InOrder
  <1>1. Accountable' /\ Accountable
    BY HistoryStep DEF Accountable
  <1>2. Whole
    BY <1>1 DEF InOrder, Accountable
  <1>3. CASE Live'
    BY <1>1, <1>3 DEF Stream
  <1>4. CASE ~ Live'
    <2>1. ~ Read
      BY <1>4 DEF Read, Live
    <2>2. dst' = dst
      BY <2>1
      DEF Next, Send, Receive, Relaying, DialDirect, DialRelay, Write,
          WriteIntoTheVoid, WriteFails, Sent, SourceTimesOut, Listen, Accept,
          AcceptCancelled, JoinRelay, ReadEnds, Received, SinkTimesOut, Pair,
          Copy, Settle, Break, PathGone, Restart, RelayRefuses, Cancel,
          ReadAtFails, AcceptFails, DstWriteFails,
          ends, world, history, vars
    <2>3. QED
      BY <1>2, <2>2 DEF Whole
  <1>5. QED
    BY <1>3, <1>4

LEMMA InvariantParts ==
  IInv <=> Structure /\ Ledger /\ Tally /\ Stream /\ OffsetFits /\ InOrder
  BY DEF IInv, Structure

LEMMA Initially ==
  ASSUME Init PROVE IInv
  <1>1. /\ src = [at |-> "dialing", offset |-> 0, conn |-> 0]
        /\ sink = [at |-> "dialing", tried |-> FALSE, conn |-> 0]
        /\ net \in [listening : BOOLEAN, reachable : BOOLEAN, relay : BOOLEAN]
        /\ dst = <<>> /\ conn = <<>> /\ relayed = 0 /\ cancelled = {}
        /\ faults = 0 /\ lost = FALSE /\ restarted = FALSE /\ overlapped = FALSE
    BY DEF Init
  <1>2. /\ Len(conn) = 0 /\ DOMAIN conn = {} /\ Len(dst) = 0 /\ DOMAIN dst = {}
        /\ conn \in Seq(Connections) /\ dst \in Seq(Nat)
    BY <1>1
  <1>3. /\ src.at = "dialing" /\ src.offset = 0 /\ src.conn = 0
        /\ sink.at = "dialing" /\ sink.conn = 0 /\ ~ sink.tried
    BY <1>1
  <1>4. Directs = {} /\ Relays = {}
    BY <1>2 DEF Directs, Relays
  <1>5. TypeOK
    <2>1. src \in [at : {"dialing", "waiting", "sending", "done", "failed"},
                   offset : Nat, conn : Nat]
      BY <1>1
    <2>2. sink \in [at : {"dialing", "accepting", "waiting", "receiving",
                          "done", "failed"},
                    tried : BOOLEAN, conn : Nat]
      BY <1>1
    <2>3. QED
      BY <1>1, <1>2, <2>1, <2>2 DEF TypeOK
  <1>6. SourceFits /\ SinkFits
    BY <1>2, <1>3, <1>4 DEF SourceFits, SinkFits
  <1>7. Ledger
    <2>1. Account([j \in 0..Len(conn) |-> 0], conn, relayed, src.offset)
      BY <1>1, <1>2, <1>3 DEF Account
    <2>2. [j \in 0..Len(conn) |-> 0] \in [0..Len(conn) -> Int]
      OBVIOUS
    <2>3. QED
      BY <2>1, <2>2 DEF Ledger, Accounted
  <1>8. Whole /\ ~ InUse
    BY <1>2 DEF Whole, InUse
  <1>9. Tally
    BY <1>1 DEF Tally
  <1>10. Stream /\ InOrder
    BY <1>2, <1>8 DEF Stream, InOrder
  <1>11. OffsetFits
    <2>1. Total = 0
      BY <1>2, <1>8 DEF Total
    <2>2. QED
      BY <1>1, <1>3, <2>1 DEF OffsetFits
  <1>12. QED
    BY <1>2, <1>5, <1>6, <1>7, <1>9, <1>10, <1>11 DEF IInv

LEMMA Steps ==
  ASSUME IInv, [Next]_vars PROVE IInv'
  <1>1. Structure /\ Ledger /\ Tally /\ Stream /\ OffsetFits /\ InOrder
    BY InvariantParts
  <1>2. Structure' /\ Ledger' /\ Tally' /\ Stream' /\ OffsetFits'
    BY <1>1, StructureStep, LedgerStep, TallyStep, FlowStep
  <1>3. InOrder'
    BY <1>1, <1>2, InOrderStep
  <1>4. QED
    BY <1>2, <1>3 DEF IInv, Structure

LEMMA Inductive == Spec => []IInv
  <1>1. Init => IInv
    BY Initially
  <1>2. IInv /\ [Next]_vars => IInv'
    BY Steps
  <1>3. QED
    BY <1>1, <1>2, PTL DEF Spec

\* Send, Receive and the relay hold connections they have made, and a
\* connection is a pair of queues in one of three states (transport.go).
THEOREM TransportTyped == Spec => []TypeOK
  <1>1. IInv => TypeOK
    BY DEF IInv
  <1>2. QED
    BY <1>1, Inductive, PTL

\* Whatever breaks and whichever routes follow each other, the sink has the
\* source's bytes in their order, each once, if none was lost, on its way or by
\* a write to dst that failed, and a restart of the source forgot nothing the
\* relay does not know: Send picks up where the sink will be (transport.go), for
\* any size, buffer and faults.
THEOREM BytesArriveInOrder == Spec => []InOrder
  <1>1. IInv => InOrder
    BY DEF IInv
  <1>2. QED
    BY <1>1, Inductive, PTL

\* A source that has not restarted is never told more than it has sent: the
\* relay's count of the grant stays within the offset, so taking the larger of
\* the two skips nothing.
CountWithinOffset == ~ restarted => relayed <= src.offset

THEOREM RelayNeverCountsAhead == Spec => []CountWithinOffset
  <1>1. IInv => CountWithinOffset
    <2> SUFFICES ASSUME IInv, ~ restarted PROVE relayed <= src.offset
      BY DEF CountWithinOffset
    <2>1. Accounted(conn, relayed, src.offset)
      BY DEF IInv, Ledger
    <2>2. conn \in Seq(Connections) /\ relayed \in Nat /\ src.offset \in Nat
      BY DEF IInv, TypeOK
    <2>3. QED
      BY <2>1, <2>2, AccountedBounds
  <1>2. QED
    BY <1>1, Inductive, PTL

\* Where everything is relayed, one session counted before the next is paired
\* and nothing lost, the count of the grant is exact when the two sides pair:
\* what the relay tells a source that has restarted is what the sink has.
ToldExactly ==
  ( Pair /\ ~ lost /\ Directs = {} /\ ~ overlapped' ) => relayed = Len(dst)

THEOREM PairingTellsTheOffset == Spec => [][ToldExactly]_vars
  <1>1. IInv /\ [Next]_vars => [ToldExactly]_vars
    <2> SUFFICES ASSUME IInv, Pair, ~ lost, Directs = {}, ~ overlapped'
                 PROVE  relayed = Len(dst)
      BY DEF ToldExactly
    <2>1. Structure /\ Tally
      BY InvariantParts
    <2>2. QED
      BY <2>1, ToldWhenPairing
  <1>2. QED
    BY <1>1, Inductive, PTL DEF Spec

=============================================================================
