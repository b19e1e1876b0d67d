------------------------------ MODULE MsgParser ------------------------------
(***************************************************************************)
(* The byte stream between the message centre and the VTDU: send_to_vtdu   *)
(* writes one frame per request into a Unix stream socket, the VTDU's      *)
(* manager thread receives pieces of it and CMsgParser finds the frames    *)
(* again and hands them to deal_one_msg.                                   *)
(*                                                                         *)
(* Both requests (add and delete a switch) are 36 bytes on the stream:     *)
(* 0x24 0x40, a length of 32, the header (version, crc, sequence number,   *)
(* type) and 24 bytes of addresses.  The addresses are any bytes, those    *)
(* that look like the start of a frame too.                                *)
(***************************************************************************)
EXTENDS Integers, Sequences, FiniteSets

CONSTANTS
    Crc(_),     \* tb_crc8 of a header whose crc byte is zero
    Types,      \* the four bytes of MN_VTDU_ADD_ and _DEL_SWITCH_IPV4
    Bodies,     \* the 24 bytes of a CMsgAddSwitchIpv4
    BufLen,     \* parser_buf_len
    RecvSizes,  \* what one recv may return
    CutSizes,   \* bytes written by a send that a signal ends
    MaxSent,    \* bound: requests
    MaxCuts     \* bound: sends cut short

Byte == 0 .. 255

ASSUME TypesAssumption == \A t \in Types : t \in [1 .. 4 -> Byte]
ASSUME BodiesAssumption == \A b \in Bodies : b \in [1 .. 24 -> Byte]
\* 1500 bytes at a time into 2048: a frame less one byte leaves room for one
\* more recv.
ASSUME RoomAssumption ==
    /\ BufLen \in Nat
    /\ RecvSizes \subseteq 1 .. BufLen - 35
ASSUME CutAssumption == CutSizes \subseteq 1 .. 35
ASSUME BoundAssumption == MaxSent \in Nat /\ MaxSent <= 65536 /\ MaxCuts \in Nat

VARIABLES
    sent,       \* the requests of the message centre, in order
    cuts,       \* how many of them were cut short
    stream,     \* every byte written to the socket
    got,        \* how many of them the VTDU has received
    buf,        \* parser_buf
    valid,      \* valid_data_len
    parsing,    \* inside the loop of parser_income_data
    told,       \* the frames handed to deal_one_msg
    overrun     \* bytes did not fit: never, or written inside, or behind the end

vars == <<sent, cuts, stream, got, buf, valid, parsing, told, overrun>>

Init ==
    /\ sent = <<>>
    /\ cuts = 0
    /\ stream = <<>>
    /\ got = 0
    /\ buf = [i \in 0 .. BufLen - 1 |-> 0]
    /\ valid = 0
    /\ parsing = FALSE
    /\ told = <<>>
    /\ overrun = "none"

-----------------------------------------------------------------------------
(* The message centre. *)

\* msg2buf_calc_crc: version 1, the crc over the header with a zero crc.
HeaderWith(crc, seq, type) ==
    <<1, crc, seq \div 256, seq % 256, type[1], type[2], type[3], type[4]>>

Header(seq, type) ==
    HeaderWith(Crc(HeaderWith(0, seq, type)), seq, type)

ASSUME CrcAssumption ==
    \A seq \in 0 .. MaxSent - 1, t \in Types : Crc(HeaderWith(0, seq, t)) \in Byte

\* hdr2buf in front of the header and the addresses.
Frame(m) == <<36, 64, 0, 32>> \o m.hdr \o m.body

Requests == {[hdr |-> Header(Len(sent), t), body |-> b] :
                t \in Types, b \in Bodies}

\* send_to_vtdu: the whole frame is written.
Send(m) ==
    /\ Len(sent) < MaxSent
    /\ sent' = Append(sent, m)
    /\ stream' = stream \o Frame(m)
    /\ UNCHANGED <<cuts, got, buf, valid, parsing, told, overrun>>

\* cbb_send without `block': a send that returns after k bytes is not
\* continued, and send_to_vtdu empties its buffer all the same.
SendCut(m, k) ==
    /\ Len(sent) < MaxSent
    /\ cuts < MaxCuts
    /\ sent' = Append(sent, m)
    /\ cuts' = cuts + 1
    /\ stream' = stream \o SubSeq(Frame(m), 1, k)
    /\ UNCHANGED <<got, buf, valid, parsing, told, overrun>>

-----------------------------------------------------------------------------
(* The VTDU's manager thread. *)

\* memcpy of the n bytes received to parser_buf + at; what lies behind the
\* end of the buffer is not kept.
Copied(b, at, n) ==
    [i \in 0 .. BufLen - 1 |->
        IF i \in at .. at + n - 1 THEN stream[got + 1 + i - at] ELSE b[i]]

\* memcpy of n bytes from parser_buf + from to its start.
Moved(from, n) ==
    [i \in 0 .. BufLen - 1 |-> IF i < n THEN buf[i + from] ELSE buf[i]]

\* Mutant of Fits: one byte too many.
FitsOneMore(n) == n + valid <= BufLen + 1

Fits(n) == n + valid <= BufLen

\* parser_income_data up to the loop.  If the bytes do not fit, the oldest
\* ones make room: they are discarded, but the new bytes are written at
\* discard_len and not behind the ones that were kept.  (The branches for
\* more bytes than the whole buffer holds are not reached: RoomAssumption.)
Receive(n) ==
    LET discard == n + valid - BufLen
    IN  /\ ~parsing
        /\ overrun # "behind"
        /\ n <= Len(stream) - got
        /\ got' = got + n
        /\ parsing' = TRUE
        /\ IF Fits(n)
           THEN /\ buf' = Copied(buf, valid, n)
                /\ valid' = valid + n
                /\ overrun' = overrun
           ELSE /\ buf' = Copied(Moved(discard, valid - discard), discard, n)
                /\ valid' = BufLen
                /\ overrun' = IF discard + n > BufLen THEN "behind" ELSE "inside"
        /\ UNCHANGED <<sent, cuts, stream, told>>

-----------------------------------------------------------------------------
(* parser_protocol *)

Magic(i) == buf[i] = 36 /\ buf[i + 1] = 64

\* Mutant of MsgLen: the other byte order.
MsgLenSwapped(i) == buf[i + 3] * 256 + buf[i + 2]

MsgLen(i) == buf[i + 2] * 256 + buf[i + 3]

HeaderAt(i) == [k \in 1 .. 8 |-> buf[i + 3 + k]]
BodyAt(i) == [k \in 1 .. MsgLen(i) - 8 |-> buf[i + 11 + k]]

\* Mutant of CrcMatch: nothing is compared.
CrcAny(h) == h[2] \in Byte

\* crc_match
CrcMatch(h) == h[2] = Crc([h EXCEPT ![2] = 0])

\* A frame starts at i and is complete ...
IsFrame(i) ==
    /\ valid - i >= 12
    /\ Magic(i)
    /\ MsgLen(i) >= 8
    /\ MsgLen(i) + i + 4 <= valid
    /\ CrcMatch(HeaderAt(i))

\* Mutants of MayBecomeFrame: a frame that is not complete is passed over; a
\* header with a wrong crc ends the search.
MayBecomeFrameIfShort(i) == Magic(i) /\ valid - i < 12

MayBecomeFrameAny(i) == Magic(i)

\* ... or may start at i once more bytes have come.
MayBecomeFrame(i) ==
    /\ Magic(i)
    /\ \/ valid - i < 12
       \/ MsgLen(i) >= 8 /\ MsgLen(i) + i + 4 > valid

Stops == {i \in 0 .. valid - 3 : IsFrame(i) \/ MayBecomeFrame(i)}

First == {i \in Stops : \A j \in Stops : i <= j}

\* Mutant of Consume: one frame per recv.
ConsumeOnce(n) ==
    /\ valid' = valid - n
    /\ parsing' = FALSE
    /\ buf' = IF n > 0 /\ n # valid THEN Moved(n, valid - n) ELSE buf

\* The loop: the n bytes that were dealt with go, and parsing goes on with
\* the rest if there is one.
Consume(n) ==
    /\ valid' = valid - n
    /\ parsing' = (n > 0 /\ n # valid)
    /\ buf' = IF n > 0 /\ n # valid THEN Moved(n, valid - n) ELSE buf

Nothing ==
    /\ valid < 12 \/ Stops = {}
    /\ Consume(0)
    /\ told' = told

Await(i) ==
    /\ valid >= 12
    /\ ~IsFrame(i)
    /\ Consume(i)
    /\ told' = told

Hand(i) ==
    /\ valid >= 12
    /\ IsFrame(i)
    /\ told' = Append(told, [hdr |-> HeaderAt(i), body |-> BodyAt(i)])
    /\ Consume(MsgLen(i) + i + 4)

\* One call of parser_protocol from the loop of parser_income_data.
Parse ==
    /\ parsing
    /\ overrun # "behind"
    /\ \/ Nothing
       \/ \E i \in First : Await(i) \/ Hand(i)
    /\ UNCHANGED <<sent, cuts, stream, got, overrun>>

-----------------------------------------------------------------------------
Next ==
    \/ \E m \in Requests : Send(m)
    \/ \E m \in Requests, k \in CutSizes : SendCut(m, k)
    \/ \E n \in RecvSizes : Receive(n)
    \/ Parse

Spec == Init /\ [][Next]_vars

-----------------------------------------------------------------------------
\* Every variable stays in its domain; the parser's count never exceeds its
\* buffer (parser_buf_len, valid_data_len).
TypeOK ==
    /\ sent \in Seq([hdr : [1 .. 8 -> Byte], body : Bodies])
    /\ Len(sent) <= MaxSent
    /\ cuts \in 0 .. MaxCuts
    /\ stream \in Seq(Byte)
    /\ got \in 0 .. Len(stream)
    /\ buf \in [0 .. BufLen - 1 -> Byte]
    /\ valid \in 0 .. BufLen
    /\ parsing \in BOOLEAN
    /\ told \in Seq([hdr : [1 .. 8 -> Byte], body : Seq(Byte)])
    /\ overrun \in {"none", "inside", "behind"}

\* While every send writes its whole frame, the VTDU is handed the requests
\* of the message centre, unchanged, in order and each once, however recv
\* cuts the stream and whatever bytes the addresses are made of.
HandedInOrder ==
    cuts = 0 =>
        /\ Len(told) <= Len(sent)
        /\ \A j \in 1 .. Len(told) : told[j] = sent[j]

\* ... and none of them waits for bytes of the next one: when the manager
\* thread goes back to epoll_wait, every frame it has received is handed.
HandedAtOnce ==
    cuts = 0 /\ ~parsing => Len(told) = got \div 36

\* The branch for bytes that do not fit writes them at discard_len, which may
\* be too far right for them: it needs a send that was cut short.
InsideBuffer == overrun # "none" => cuts > 0

\* The bytes at position p of the stream read like the start of a message: the
\* mark, a length, and a header whose crc is right.
LengthFrom(p) == stream[p + 2] * 256 + stream[p + 3]
HeaderFrom(p) == [k \in 1 .. 8 |-> stream[p + 3 + k]]

Starts ==
    {p \in 1 .. Len(stream) - 11 :
        /\ stream[p] = 36 /\ stream[p + 1] = 64 /\ LengthFrom(p) >= 8
        /\ HeaderFrom(p)[2] = Crc([HeaderFrom(p) EXCEPT ![2] = 0])}

Heads == {p \in Starts : LengthFrom(p) = 32}

\* No addresses and no cut have made up the header of a request: those that
\* can be read in the stream are headers that were sent, each once, in order.
HeadsAreSent ==
    LET Owner(p) == {k \in 1 .. Len(sent) : HeaderFrom(p) = sent[k].hdr}
    IN  /\ \A p \in Heads : Owner(p) # {}
        /\ \A p, q \in Heads : p < q => \A i \in Owner(p), k \in Owner(q) : i < k

\* What else reads like a message ends before the next request starts.
NoneStraddles ==
    \A p \in Starts \ Heads, q \in Heads : p < q => p + LengthFrom(p) + 4 <= q

\* What deal_one_msg acts on: the addresses must be 24 bytes.
Acted == {j \in 1 .. Len(told) : Len(told[j].body) = 24}

\* A send that was cut short spoils at most one request: the VTDU acts on a
\* header of one and the addresses of two, but every other request it acts on
\* is one that was sent, and it acts on none twice and on none out of order.
\* The checksum is all that the parser has to tell a header by, so this is
\* about streams in which it does not err.
CutSpoilsOne ==
    overrun = "none" /\ HeadsAreSent =>
        /\ Cardinality({j \in Acted : \A k \in 1 .. Len(sent) : told[j] # sent[k]})
                <= cuts
        /\ \E at \in [Acted -> 1 .. Len(sent)] :
              /\ \A j \in Acted : told[j].hdr = sent[at[j]].hdr
              /\ \A i, j \in Acted : i < j => at[i] < at[j]

\* The parser waits for the rest of something longer than any frame: the
\* bytes of the length were cut off, and those behind them are no length.
WaitsInVain ==
    /\ valid >= 12
    /\ \E i \in First : MayBecomeFrame(i) /\ valid - i >= 12 /\ MsgLen(i) > 32

\* Unless the parser waits in vain, it finds the frames again by itself: all
\* that a send cut short can cost is its own request and the next one.
CutLosesTwo ==
    /\ overrun = "none" /\ ~parsing /\ got = Len(stream) /\ ~WaitsInVain
    /\ HeadsAreSent /\ NoneStraddles
    =>  Cardinality({k \in 1 .. Len(sent) :
                        \A j \in Acted : told[j].hdr # sent[k].hdr}) <= 2 * cuts
=============================================================================
