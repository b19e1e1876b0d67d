-------------------------------- MODULE Crc8 --------------------------------
(***************************************************************************)
(* The check sum of a message header: CMsgHdr::tb_crc8.                    *)
(***************************************************************************)
EXTENDS Integers, Sequences

Xor(a, b) ==
    LET Bit(k) == 2^k * (((a \div 2^k) + (b \div 2^k)) % 2)
    IN  Bit(0) + Bit(1) + Bit(2) + Bit(3) + Bit(4) + Bit(5) + Bit(6) + Bit(7)

\* One turn of the inner loop, on a byte; two of them and all eight.
Turn(v) == Xor((2 * v) % 256, IF v >= 128 THEN 7 ELSE 0)
Turn2(v) == Turn(Turn(v))
Turned == [v \in 0 .. 255 |-> Turn2(Turn2(Turn2(Turn2(v))))]

\* The loop over the eight bytes of a header, from 0xff.
Crc8Of(h) ==
    LET Val[n \in 0 .. 8] ==
            IF n = 0 THEN 255 ELSE Turned[Xor(Val[n - 1], h[n])]
    IN  Val[8]
=============================================================================
