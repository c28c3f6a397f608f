-------------------------------- MODULE Crc8 --------------------------------
(***************************************************************************)
(* The CRC-8 of the BBHeader (general_module.c): a table with a column per *)
(* byte, filled at the first call, and its use byte by byte.               *)
(***************************************************************************)
EXTENDS Naturals, Sequences

Byte == 0 .. 255
MCS_CRC_8_POLY == 213   \* X8+X7+X6+X4+X2+1

\* a ^ b for bytes a and b is Xor[a][b].
Xor ==
  [a \in Byte |-> [b \in Byte |->
     LET bit(i) == 2^i * ((a \div 2^i + b \div 2^i) % 2)
     IN  bit(0) + bit(1) + bit(2) + bit(3) + bit(4) + bit(5) + bit(6) + bit(7)]]

\* One round of the inner loop of mcs_init_crc8_table.  The code shifts in 32 bits;
\* it tests bit 7 and keeps the lowest 8.
Shifted(v) ==
  IF v >= 128 THEN Xor[(2 * v) % 256][MCS_CRC_8_POLY] ELSE 2 * v

\* mcs_init_crc8_table.
crc8_table ==
  [col \in Byte |-> LET value[n \in 0 .. 8] == IF n = 0 THEN col ELSE Shifted(value[n - 1])
                    IN  value[8]]

\* Mutant of mcs_get_crc8: every byte begins anew.
mcs_get_crc8_anew(data) == crc8_table[data[Len(data)]]

\* The CRC of the bytes data.
mcs_get_crc8(data) ==
  LET crc8[n \in 0 .. Len(data)] ==
        IF n = 0 THEN 0 ELSE crc8_table[Xor[crc8[n - 1]][data[n]]]
  IN  crc8[Len(data)]
=============================================================================
