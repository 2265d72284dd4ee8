---------------------------- MODULE StreamReader ----------------------------
(***************************************************************************)
(* _sess_read of snmp/snmp_api.c over a stream transport: bytes arrive in  *)
(* pieces of any size, packets are cut out of a buffer that is kept between*)
(* calls, and a packet whose length makes no sense ends the connection.    *)
(*                                                                         *)
(* A byte is <<n, i>>, byte i of packet n of the stream.                   *)
(***************************************************************************)
EXTENDS Integers, Sequences

CONSTANTS Packets,      \* what the peer may send: [head, size, broken]
          RcvLen,       \* rxbuf_len, 65536
          MaxPackets    \* bound: packets the peer sends

ASSUME StreamAssumption ==
    /\ \A p \in Packets : p.head \in Nat /\ p.size \in Nat /\ 2 <= p.head /\ p.head <= p.size
                          /\ p.broken \in BOOLEAN
    /\ RcvLen \in Nat \ {0}
    /\ MaxPackets \in Nat \ {0}

VARIABLES
    stream,       \* auxiliary: the packets the peer has sent
    wire,         \* bytes sent and not yet received
    packet,       \* what isp->packet holds, from its start
    packetLen,    \* isp->packet_len: bytes of it not yet processed
    packetSize,   \* isp->packet_size, or 0 without a buffer
    pptr,         \* where in packet the loop is
    looping,      \* _sess_read is between recv and its return
    sock,         \* "open", "closed" (-1, marked for deletion) or "gone"
    processed     \* auxiliary: what _sess_process_packet was called with

buffer     == <<packet, packetLen, packetSize, pptr>>
streamVars == <<stream, wire, buffer, looping, sock, processed>>

StreamInit == /\ stream = <<>>
              /\ wire = <<>>
              /\ packet = <<>> /\ packetLen = 0 /\ packetSize = 0 /\ pptr = 0
              /\ looping = FALSE
              /\ sock = "open"
              /\ processed = <<>>

Bytes(n, p) == [i \in 1 .. p.size |-> <<n, i>>]

NoBuffer == packet' = <<>> /\ packetLen' = 0 /\ packetSize' = 0 /\ pptr' = 0

-----------------------------------------------------------------------------

PeerSends(p) == /\ Len(stream) < MaxPackets
                /\ stream' = Append(stream, p)
                /\ wire' = wire \o Bytes(Len(stream) + 1, p)
                /\ UNCHANGED <<buffer, looping, sock, processed>>

\* Mutant: a buffer is never extended.
NewSize_fixed == IF packetSize = 0 THEN RcvLen ELSE packetSize

\* A new buffer, or one extended unless it has room for RcvLen bytes anyway.
NewSize == IF packetSize < packetLen + RcvLen THEN packetLen + RcvLen ELSE packetSize

\* One call of recv, behind what was saved.  (A call that gets no memory
\* returns and leaves everything as it was.)
Receive == /\ sock = "open" /\ ~looping
           /\ \E k \in 1 .. NewSize - packetLen :
                 /\ k <= Len(wire)
                 /\ packet' = SubSeq(packet, 1, packetLen) \o SubSeq(wire, 1, k)
                 /\ packetLen' = packetLen + k
                 /\ wire' = SubSeq(wire, k + 1, Len(wire))
           /\ packetSize' = NewSize
           /\ pptr' = 0
           /\ looping' = TRUE
           /\ UNCHANGED <<stream, sock, processed>>

\* The peer has gone or recv fails: the buffer is freed, the socket closed.
Disconnect == /\ sock = "open" /\ ~looping
              /\ sock' = "closed"
              /\ NoBuffer
              /\ UNCHANGED <<stream, wire, looping, processed>>

Rest == SubSeq(packet, pptr + 1, pptr + packetLen)

\* asn_check_packet: 0 is too short to tell, -1 is not a packet.
PduLen(b) == IF Len(b) < 2 THEN 0 ELSE
             LET p == stream[b[1][1]]
             IN  IF p.broken THEN -1 ELSE IF Len(b) < p.head THEN 0 ELSE p.size

\* One turn of the loop: a whole packet is processed.
ProcessOne == /\ looping
              /\ PduLen(Rest) \in 1 .. packetLen
              /\ processed' = Append(processed, SubSeq(Rest, 1, PduLen(Rest)))
              /\ pptr' = pptr + PduLen(Rest)
              /\ packetLen' = packetLen - PduLen(Rest)
              /\ UNCHANGED <<stream, wire, packet, packetSize, looping, sock>>

\* A broken packet closes the socket; the buffer goes with the session.
Drop == /\ looping
        /\ PduLen(Rest) = -1
        /\ sock' = "closed"
        /\ looping' = FALSE
        /\ UNCHANGED <<stream, wire, buffer, processed>>

Incomplete == packetLen > 0 /\ (PduLen(Rest) = 0 \/ PduLen(Rest) > packetLen)

\* Nothing has been processed: the packet stays where it is.
KeepAll == /\ looping
           /\ Incomplete /\ pptr = 0
           /\ looping' = FALSE
           /\ UNCHANGED <<stream, wire, buffer, sock, processed>>

\* The rest is moved to the start of the buffer, which shrinks to it unless
\* realloc fails.
Shift == /\ looping
         /\ Incomplete /\ pptr > 0
         /\ packet' = Rest
         /\ packetSize' \in {packetLen, packetSize}
         /\ pptr' = 0
         /\ looping' = FALSE
         /\ UNCHANGED <<stream, wire, packetLen, sock, processed>>

\* Every byte belonged to a packet that was processed.
AllDone == /\ looping
           /\ packetLen = 0
           /\ NoBuffer
           /\ looping' = FALSE
           /\ UNCHANGED <<stream, wire, sock, processed>>

\* The next select finds the socket closed and closes the session.
Reap == /\ sock = "closed" /\ ~looping
        /\ sock' = "gone"
        /\ NoBuffer
        /\ UNCHANGED <<stream, wire, looping, processed>>

\* _sess_read is called whenever there is something to read, and returns.
SessRead == Receive \/ ProcessOne \/ Drop \/ KeepAll \/ Shift \/ AllDone

StreamNext == \/ \E p \in Packets : PeerSends(p)
              \/ SessRead
              \/ Disconnect
              \/ Reap

StreamFairness == WF_streamVars(SessRead)

StreamSpec == StreamInit /\ [][StreamNext]_streamVars /\ StreamFairness

-----------------------------------------------------------------------------
(* Properties.                                                              *)

\* _sess_process_packet is called with the packets of the stream, each whole
\* and once, in order, however the stream was cut into pieces, and never with
\* what follows a broken one.
PacketsInOrder ==
    /\ Len(processed) <= Len(stream)
    /\ \A n \in DOMAIN processed : /\ processed[n] = Bytes(n, stream[n])
                                   /\ ~stream[n].broken

\* A connection that stays open keeps up: a packet that follows no broken one
\* is processed, however large it is compared to the buffer.
PacketsProcessed == \A n \in 1 .. MaxPackets :
    (n <= Len(stream) /\ \A m \in 1 .. n : ~stream[m].broken)
        ~> (Len(processed) >= n \/ sock # "open")

\* The packets of a stream are processed as they were sent, and all of them.
StreamServed == []PacketsInOrder /\ PacketsProcessed
=============================================================================
