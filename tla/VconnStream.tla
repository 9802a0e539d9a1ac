---------------------------- MODULE VconnStream ----------------------------
(***************************************************************************)
(* lib/vconn-stream.c: OpenFlow messages over a stream socket, one         *)
(* direction of one connection.  A message is a number; its image on the   *)
(* socket is a sequence of units <<message, i>>, of which the first Header *)
(* are the ofp_header that holds the length.  read() and write() move any  *)
(* number of units, as the kernel does on a non-blocking socket.           *)
(***************************************************************************)
EXTENDS Integers, Sequences, SequencesExt

CONSTANTS Header,    \* units of an ofp_header
          Lengths,   \* Lengths[m]: units of the m-th message the owner sends
          SocketRoom \* bound: units the kernel holds between the two ends

ASSUME StreamConstants ==
    /\ Header \in Nat \ {0} /\ SocketRoom \in Nat \ {0}
    /\ \A m \in DOMAIN Lengths : Lengths[m] \in Nat /\ Lengths[m] >= Header

VARIABLES txbuf,     \* units of the message that write() has not taken; <<>> is NULL
          tx_waiter, \* stream_do_tx is registered with poll_fd_callback
          socket,    \* units in the kernel
          rxbuf,     \* units of the message that is being read
          accepted,  \* messages that stream_send has taken
          delivered, \* messages that stream_recv has returned
          broken     \* the connection has failed: write() returns an error

streamVars == <<txbuf, tx_waiter, socket, rxbuf, accepted, delivered, broken>>

Image(m) == [i \in 1..Lengths[m] |-> <<m, i>>]
Room == SocketRoom - Len(socket)
FewerOf(a, b) == IF a < b THEN a ELSE b

StreamInit ==
    /\ txbuf = <<>> /\ tx_waiter = FALSE /\ socket = <<>> /\ rxbuf = <<>>
    /\ accepted = <<>> /\ delivered = <<>> /\ broken = FALSE

\* Mutant: the callback is registered only when nothing could be written.
WriteForgetsWaiter(data, n) ==
    /\ socket' = socket \o SubSeq(data, 1, n)
    /\ txbuf' = SubSeq(data, n + 1, Len(data))
    /\ tx_waiter' = (n = 0 /\ data # <<>>)

\* write() takes the first n units of data; fewer than all leave the rest in
\* txbuf with the callback registered.
WriteUnits(data, n) ==
    /\ socket' = socket \o SubSeq(data, 1, n)
    /\ txbuf' = SubSeq(data, n + 1, Len(data))
    /\ tx_waiter' = (n < Len(data))

\* stream_send, of the next message of the owner.  With a message in txbuf it
\* returns EAGAIN; after an error the owner closes the connection.
stream_send ==
    LET m == Len(accepted) + 1
    IN  /\ m \in DOMAIN Lengths
        /\ txbuf = <<>> /\ ~broken
        /\ \E n \in 0..FewerOf(Room, Lengths[m]) : WriteUnits(Image(m), n)
        /\ accepted' = Append(accepted, m)
        /\ UNCHANGED <<rxbuf, delivered, broken>>

\* stream_do_tx, which poll_block calls when the socket has room.
stream_do_tx ==
    /\ tx_waiter
    /\ \/ /\ ~broken /\ Room > 0
          /\ \E n \in 1..FewerOf(Room, Len(txbuf)) : WriteUnits(txbuf, n)
       \/ /\ broken
          /\ txbuf' = <<>> /\ tx_waiter' = FALSE /\ UNCHANGED socket
    /\ UNCHANGED <<rxbuf, accepted, delivered, broken>>

\* What stream_recv asks read() for: the rest of the header, then of the
\* message.
want_bytes(rx) == IF Len(rx) < Header THEN Header - Len(rx) ELSE Lengths[rx[1][1]] - Len(rx)

\* One call of read(): any number of the units asked for that are there.
ReadSome(s) ==
    {[rx |-> s.rx \o SubSeq(s.left, 1, n), left |-> SubSeq(s.left, n + 1, Len(s.left)),
      full |-> n = want_bytes(s.rx)] : n \in 1..FewerOf(want_bytes(s.rx), Len(s.left))}

\* stream_recv: after the last unit of the header it goes round again, and
\* returns at once when the message is a header only.
stream_recv ==
    \E s \in ReadSome([rx |-> rxbuf, left |-> socket]) :
        LET again == s.full /\ Len(s.rx) = Header
            last == IF again /\ want_bytes(s.rx) > 0
                    THEN ReadSome(s) \cup {[s EXCEPT !.full = FALSE]} ELSE {s}
        IN  \E t \in last :
              /\ socket' = t.left
              /\ rxbuf' = IF t.full THEN <<>> ELSE t.rx
              /\ delivered' = IF t.full THEN Append(delivered, t.rx[1][1]) ELSE delivered
              /\ UNCHANGED <<txbuf, tx_waiter, accepted, broken>>

ConnectionBreaks == ~broken /\ broken' = TRUE
                    /\ UNCHANGED <<txbuf, tx_waiter, socket, rxbuf, accepted, delivered>>

StreamNext == stream_send \/ stream_do_tx \/ stream_recv \/ ConnectionBreaks

\* The poll loop calls a callback whose event has come, and its owner reads.
StreamFairness == WF_streamVars(stream_do_tx) /\ WF_streamVars(stream_recv)
StreamSpec == StreamInit /\ [][StreamNext]_streamVars /\ StreamFairness

Images(ms) == FlattenSeq([i \in 1..Len(ms) |-> Image(ms[i])])

\* Every unit of every accepted message is, in order and once, in a message
\* the reader has got, in its buffer, in the kernel or in txbuf; only a broken
\* connection loses the end.
StreamIntact ==
    LET there == Images(delivered) \o rxbuf \o socket \o txbuf
    IN  IF broken THEN IsPrefix(there, Images(accepted)) ELSE there = Images(accepted)

\* A message that stream_send has taken arrives, unless the connection breaks.
SentArrives == \A m \in DOMAIN Lengths : m <= Len(accepted) ~> (m <= Len(delivered) \/ broken)

=============================================================================
