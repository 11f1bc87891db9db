------------------------------ MODULE Profinet ------------------------------
(***************************************************************************)
(* ProfinetServer: sensors write frames to TCP connections, a session cuts *)
(* the byte stream it reads into frames (try_parse_frames), the parser     *)
(* reads each and the callbacks get its data; datagrams are parsed whole.  *)
(*                                                                         *)
(* Lengths are counted in words of four bytes.  A word is [lo, hi], its    *)
(* two 16-bit halves; a frame is                                           *)
(*                                                                         *)
(*   word 1  frame_id     (lo)                                             *)
(*   word 2  cycle_counter                                                 *)
(*   word 3  timestamp, bytes 8 to 11                                      *)
(*   word 4  timestamp, bytes 12 and 13 (lo), 14 and 15 (hi)               *)
(*   word 5  data_status (lo), payload_length (hi)                         *)
(*   word 6  the payload, where the parser reads it; simulator/main.cpp    *)
(*           writes four more zero bytes before it                         *)
(*                                                                         *)
(* HEADER_SIZE is 4 words, and try_parse_frames takes the length of the    *)
(* rest of the frame from word 4.                                          *)
(***************************************************************************)
EXTENDS Integers, Sequences

CONSTANTS
  Conn,        \* TCP connections, each used once
  TimeBits,    \* values of bytes 12 and 13 of a timestamp
  Padding,     \* words of zeros before the payload: 1 is the simulator, 0 the parser's layout
  Reading,     \* what sensors measure: a kind, a sensor id and a number of items
  MaxFrames,   \* bound on the frames of a connection
  MaxDatagrams, \* bound on the datagrams
  MaxFrameBuf  \* MAX_FRAME_BUF_SIZE

(* What two bytes hold, and how many values that are.                      *)
TwoBytes == 256 * 256
Half == 0..(TwoBytes - 1)

LASER_DATA == 32769
VIBRATION_DATA == 32770
DataKind == {LASER_DATA, VIBRATION_DATA}

ASSUME ProfinetAssumption ==
  /\ TimeBits \subseteq Half /\ Padding \subseteq Nat
  /\ Reading \subseteq [kind : DataKind, sensor : Nat, items : Nat]
  /\ \A r \in Reading : r.sensor \div TwoBytes \in Half /\ 4 * (4 + r.items) \in Half
       \* a sensor id has 32 bits, the length of a payload in bytes has 16
  /\ {MaxFrames, MaxDatagrams, MaxFrameBuf} \subseteq Nat
  /\ \A n \in {MaxFrames, MaxDatagrams} : n \div TwoBytes \in Half   \* as the cycle counter
  /\ 4 + (TwoBytes - 1) <= MaxFrameBuf   \* a header and the most that 16 bits can ask for

VARIABLES
  acceptor,    \* "off", "open", "closed" by stop(), "stopped": no io thread left
  conn,        \* connection: "none", "backlog", "open", "reset"
  stream,      \* connection: words written and not yet read
  frame_buf_,  \* session: frame_buf_
  at,          \* session: "read" (in async_read_some) or "parse" (in try_parse_frames)
  outcome,     \* session: what became of each frame cut (history)
  ends,        \* session: where each of them ended, in words read (history)
  got,         \* session: every word read (history)
  written,     \* connection: the frames written (history)
  datagrams    \* UDP: the datagrams, each with its outcome (history)

sessionVars == <<frame_buf_, at, outcome, ends, got>>
profinetVars == <<acceptor, conn, stream, sessionVars, written, datagrams>>

HEADER_SIZE == 4
-----------------------------------------------------------------------------
Word(v) == [lo |-> v % TwoBytes, hi |-> v \div TwoBytes]

Zeros(n) == [i \in 1..n |-> Word(0)]

(* A frame on its way: its reading, padding and time bits.                 *)
SensorFrame == [reading : Reading, padding : Padding, t : TimeBits]

(* The end of a floating point number, such as humidity and resolution,    *)
(* the last values before a count: a sign and an exponent.                 *)
MEASURED == [lo |-> 0, hi |-> 16968]

(* build_laser_payload, build_vibration_payload: sensor id, measurements,  *)
(* item count, the items, and the length of an empty JSON text.            *)
Payload(r) ==
  <<Word(r.sensor), MEASURED, Word(r.items)>> \o [i \in 1..r.items |-> MEASURED] \o Zeros(1)

(* build_profinet_packet.                                                  *)
Packet(f, cycle) ==
  LET payload == Payload(f.reading)
  IN  << [lo |-> f.reading.kind, hi |-> 257], Word(cycle), Word(0), Word(f.t),
         [lo |-> 1, hi |-> Len(payload)] >> \o Zeros(f.padding) \o payload

(* parse_laser_data, parse_vibration_data read a count and that many items *)
(* from the payload, and throw where it ends too early.                    *)
Count(w) == w.lo + TwoBytes * w.hi
Readable(p) == Len(p) >= 3 /\ Len(p) >= 4 + Count(p[3])

Data(kind, p) == [kind |-> kind, sensor |-> Count(p[1]), items |-> Count(p[3])]
-----------------------------------------------------------------------------
(* ProfinetParser::parse does not throw: the payload is all there.         *)
Parses(frame) == Len(frame) >= 5 /\ Len(frame) >= 5 + frame[5].hi

(* The payload follows a header of HEADER_SIZE, as try_parse_frames has it  *)
(* (mutant).                                                               *)
PayloadOf_atHeader(frame) == SubSeq(frame, 5, 4 + frame[5].hi)

PayloadOf(frame) == SubSeq(frame, 6, 5 + frame[5].hi)

Discarded == [what |-> "discarded"]
Acknowledged(frame) == [what |-> "acknowledged", cycle |-> Count(frame[2])]
HandedOver(frame) ==
  [what |-> "handed over", data |-> Data(frame[1].lo, PayloadOf(frame)), cycle |-> Count(frame[2])]

(* One frame: it is parsed, its data handed to the callback of its type,   *)
(* and acknowledged; other types are acknowledged only; an exception on    *)
(* the way discards it.                                                    *)
OutcomeOf(frame) ==
  IF ~Parses(frame) THEN Discarded
  ELSE IF frame[1].lo \notin DataKind THEN Acknowledged(frame)
  ELSE IF Readable(PayloadOf(frame)) THEN HandedOver(frame) ELSE Discarded

(* try_parse_frames: the length it takes a frame to have, and whether the  *)
(* buffer holds that much.                                                 *)
FrameTotal(buf) == HEADER_SIZE + buf[4].lo
Whole(buf) == Len(buf) >= HEADER_SIZE /\ Len(buf) >= FrameTotal(buf)
-----------------------------------------------------------------------------
ProfinetInit ==
  /\ acceptor = "off" /\ conn = [c \in Conn |-> "none"]
  /\ stream = [c \in Conn |-> <<>>] /\ frame_buf_ = [c \in Conn |-> <<>>]
  /\ at = [c \in Conn |-> "read"]
  /\ outcome = [c \in Conn |-> <<>>] /\ ends = [c \in Conn |-> <<>>] /\ got = [c \in Conn |-> <<>>]
  /\ written = [c \in Conn |-> <<>>] /\ datagrams = <<>>

IoRuns == acceptor \in {"open", "closed"}

(* ProfinetServer::start.                                                  *)
Start ==
  /\ acceptor = "off" /\ acceptor' = "open"
  /\ UNCHANGED <<conn, stream, sessionVars, written, datagrams>>

(* A sensor connects; do_accept makes it a session.                        *)
Connect(c) ==
  /\ acceptor = "open" /\ conn[c] = "none"
  /\ conn' = [conn EXCEPT ![c] = "backlog"]
  /\ UNCHANGED <<acceptor, stream, sessionVars, written, datagrams>>

Accept(c) ==
  /\ acceptor = "open" /\ conn[c] = "backlog"
  /\ conn' = [conn EXCEPT ![c] = "open"]
  /\ UNCHANGED <<acceptor, stream, sessionVars, written, datagrams>>

(* send_data of a sensor.                                                  *)
SendData(c, f) ==
  /\ conn[c] \in {"backlog", "open"} /\ Len(written[c]) < MaxFrames
  /\ written' = [written EXCEPT ![c] = Append(@, f)]
  /\ stream' = [stream EXCEPT ![c] = @ \o Packet(f, Len(written[c]) + 1)]
  /\ UNCHANGED <<acceptor, conn, sessionVars, datagrams>>

(* The sensor closes its socket with unread acknowledges in it, or the     *)
(* network fails: the connection is reset and what was not read is lost.   *)
(* A socket closed with none is one whose sensor sends no more.            *)
Reset(c) ==
  /\ conn[c] \in {"backlog", "open"}
  /\ conn' = [conn EXCEPT ![c] = "reset"]
  /\ stream' = [stream EXCEPT ![c] = <<>>]
  /\ UNCHANGED <<acceptor, sessionVars, written, datagrams>>

(* do_read: any part of the stream arrives and joins frame_buf_.           *)
DoRead(c, n) ==
  /\ IoRuns /\ conn[c] = "open" /\ at[c] = "read"
  /\ frame_buf_' = [frame_buf_ EXCEPT ![c] = @ \o SubSeq(stream[c], 1, n)]
  /\ got' = [got EXCEPT ![c] = @ \o SubSeq(stream[c], 1, n)]
  /\ stream' = [stream EXCEPT ![c] = SubSeq(@, n + 1, Len(@))]
  /\ at' = [at EXCEPT ![c] = "parse"]
  /\ UNCHANGED <<acceptor, conn, outcome, ends, written, datagrams>>

(* A round that erases the header of a frame twice (mutant).               *)
ParseFrame_erasesMore(c) ==
  /\ IoRuns /\ at[c] = "parse" /\ Whole(frame_buf_[c])
  /\ LET total == FrameTotal(frame_buf_[c])
     IN  /\ outcome' = [outcome EXCEPT ![c] = Append(@,
              IF conn[c] = "reset" THEN Discarded ELSE OutcomeOf(SubSeq(frame_buf_[c], 1, total)))]
         /\ frame_buf_' = [frame_buf_ EXCEPT ![c] = SubSeq(@, total + HEADER_SIZE + 1, Len(@))]
  /\ ends' = [ends EXCEPT ![c] = Append(@, Len(got[c]) - Len(frame_buf_'[c]))]
  /\ UNCHANGED <<acceptor, conn, stream, at, got, written, datagrams>>

(* One round of the loop of try_parse_frames.  remote_endpoint() throws on *)
(* a connection that was reset, which discards the frame.                  *)
ParseFrame(c) ==
  /\ IoRuns /\ at[c] = "parse" /\ Whole(frame_buf_[c])
  /\ LET total == FrameTotal(frame_buf_[c])
     IN  /\ outcome' = [outcome EXCEPT ![c] = Append(@,
              IF conn[c] = "reset" THEN Discarded ELSE OutcomeOf(SubSeq(frame_buf_[c], 1, total)))]
         /\ frame_buf_' = [frame_buf_ EXCEPT ![c] = SubSeq(@, total + 1, Len(@))]
  /\ ends' = [ends EXCEPT ![c] = Append(@, Len(got[c]) - Len(frame_buf_'[c]))]
  /\ UNCHANGED <<acceptor, conn, stream, at, got, written, datagrams>>

(* A loop that never ends on a part of a frame (mutant).                   *)
ParseDone_wholeOnly(c) ==
  /\ IoRuns /\ at[c] = "parse" /\ frame_buf_[c] = <<>>
  /\ at' = [at EXCEPT ![c] = "read"]
  /\ UNCHANGED <<acceptor, conn, stream, frame_buf_, outcome, ends, got, written, datagrams>>

(* The loop ends, an oversized buffer is cleared, the next read begins.    *)
ParseDone(c) ==
  /\ IoRuns /\ at[c] = "parse" /\ ~Whole(frame_buf_[c])
  /\ frame_buf_' = IF Len(frame_buf_[c]) > MaxFrameBuf
                   THEN [frame_buf_ EXCEPT ![c] = <<>>] ELSE frame_buf_
  /\ at' = [at EXCEPT ![c] = "read"]
  /\ UNCHANGED <<acceptor, conn, stream, outcome, ends, got, written, datagrams>>

(* handle_receive: a datagram is one frame; the next receive is armed.     *)
HandleReceive(f) ==
  /\ IoRuns /\ Len(datagrams) < MaxDatagrams
  /\ datagrams' = Append(datagrams,
       [reading |-> f.reading, padding |-> f.padding,
        outcome |-> OutcomeOf(Packet(f, Len(datagrams) + 1))])
  /\ UNCHANGED <<acceptor, conn, stream, sessionVars, written>>

(* ProfinetServer::stop closes the acceptor; sessions_.clear() ends no     *)
(* session, since its pending read holds it.  io threads stop later.       *)
Stop ==
  /\ acceptor = "open" /\ acceptor' = "closed"
  /\ conn' = [c \in Conn |-> IF conn[c] = "backlog" THEN "reset" ELSE conn[c]]
  /\ stream' = [c \in Conn |-> IF conn[c] = "backlog" THEN <<>> ELSE stream[c]]
  /\ UNCHANGED <<sessionVars, written, datagrams>>

StopIoThreads ==
  /\ acceptor = "closed" /\ acceptor' = "stopped"
  /\ UNCHANGED <<conn, stream, sessionVars, written, datagrams>>

Session(c) == (\E n \in 1..Len(stream[c]) : DoRead(c, n)) \/ ParseFrame(c) \/ ParseDone(c)

ProfinetNext ==
  \/ Start \/ Stop \/ StopIoThreads
  \/ \E c \in Conn :
       \/ Connect(c) \/ Accept(c) \/ Reset(c)
       \/ \E n \in 1..Len(stream[c]) : DoRead(c, n)
       \/ ParseFrame(c) \/ ParseDone(c)
       \/ \E f \in SensorFrame : SendData(c, f)
  \/ \E f \in SensorFrame : HandleReceive(f)

ProfinetSpec == ProfinetInit /\ [][ProfinetNext]_profinetVars

(* io threads run; sensors, resets and stop are not fair.                  *)
FairProfinetSpec == ProfinetSpec /\ \A c \in Conn : WF_profinetVars(Accept(c)) /\ WF_profinetVars(Session(c))
-----------------------------------------------------------------------------
(* A word as the program can read it.                                      *)
WordType == [lo : Half, hi : Nat]

(* The state keeps its types: sessions read and parse words only, and cut  *)
(* no more frames than they have read headers.                             *)
ProfinetTypeOK ==
  /\ acceptor \in {"off", "open", "closed", "stopped"}
  /\ conn \in [Conn -> {"none", "backlog", "open", "reset"}]
  /\ at \in [Conn -> {"read", "parse"}]
  /\ {stream, frame_buf_, got} \subseteq [Conn -> Seq(WordType)]
  /\ written \in [Conn -> Seq(SensorFrame)]
  /\ \A c \in Conn : Len(ends[c]) = Len(outcome[c]) /\ HEADER_SIZE * Len(outcome[c]) <= Len(got[c])

(* However the network splits a stream into reads, the frames a session    *)
(* cuts and what becomes of them are those of the whole stream, each       *)
(* beginning where the one before it ends; a reset can only discard, and   *)
(* no word is lost, read twice, cleared or left in a whole frame when the  *)
(* next read begins.                                                       *)
FramingOfStream ==
  \A c \in Conn :
    LET n == Len(outcome[c])
        end(k) == IF k = 0 THEN 0 ELSE ends[c][k]
    IN  /\ frame_buf_[c] = SubSeq(got[c], end(n) + 1, Len(got[c]))
        /\ \A k \in 1..n :
             /\ end(k) = end(k - 1) + HEADER_SIZE + got[c][end(k - 1) + 4].lo
             /\ \/ outcome[c][k] = OutcomeOf(SubSeq(got[c], end(k - 1) + 1, end(k)))
                \/ conn[c] = "reset" /\ outcome[c][k] = Discarded
        /\ at[c] = "read" => ~Whole(frame_buf_[c])

(* What a sensor writes to a connection is read to its end, unless the     *)
(* connection is reset or the server stops: a part of a frame never keeps  *)
(* the session from reading the rest.                                      *)
StreamIsRead ==
  \A c \in Conn :
    (stream[c] # <<>>) ~>
      (stream[c] = <<>> /\ at[c] = "read") \/ conn[c] = "reset" \/ ~IoRuns

(* The length try_parse_frames takes from the timestamp is the true one,   *)
(* and the payload lies where the parser reads it.                         *)
Fits(f) == f.padding = 0 /\ f.t = 1 + Len(Payload(f.reading))

(* A connection, or a datagram, whose frames all fit is decoded to exactly *)
(* the readings that were sent, in their order, up to a reset.             *)
FittingFramesDecode ==
  /\ \A c \in Conn :
       (\A i \in 1..Len(written[c]) : Fits(written[c][i])) =>
         \A k \in 1..Len(outcome[c]) :
           \/ /\ outcome[c][k].what = "handed over" /\ outcome[c][k].cycle = k
              /\ outcome[c][k].data = written[c][k].reading
           \/ conn[c] = "reset" /\ outcome[c][k] = Discarded
  /\ \A k \in 1..Len(datagrams) : LET d == datagrams[k] IN
       d.padding = 0 => d.outcome.what = "handed over" /\ d.outcome.data = d.reading
=============================================================================
